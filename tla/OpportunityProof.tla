---------------------------- MODULE OpportunityProof ----------------------------
(***************************************************************************)
(* Proofs about Opportunity, for any number of concurrent requests, any    *)
(* calendar and any set of benefits.                                       *)
(***************************************************************************)
EXTENDS Opportunity, TLAPS

(***************************************************************************)
(* Types.                                                                  *)
(***************************************************************************)
\* A request that starts idle, or is reset to idle, is a request.
LEMMA RequestsTyped ==
  /\ AnyBenefit \in Benefits
  /\ Idle \in Request
  /\ \A kind \in {"refresh"} \cup OperatorWrites \cup AdminWrites :
       Write(kind) \in Request /\ WriteThenRefresh(kind) \in Request
<1>1. AnyBenefit \in Benefits
  BY InputsAssumption DEF AnyBenefit
<1>2. Idle \in Request
  BY <1>1 DEF Idle, Request, Status
<1>3. ASSUME NEW kind \in {"refresh"} \cup OperatorWrites \cup AdminWrites
      PROVE  Write(kind) \in Request /\ WriteThenRefresh(kind) \in Request
  BY <1>1 DEF Write, WriteThenRefresh, Idle, Request, Status
<1>4. QED
  BY <1>1, <1>2, <1>3

\* Deciding keeps the types: the first half of every use case.
LEMMA DecideTyped ==
  ASSUME TypeOK, NEW r \in Requests, NEW request \in Request,
         request.kind = "update" => request.dateFrom # NoDate,
         Decide(r, request)
  PROVE  TypeOK'
BY DEF TypeOK, Decide, world

\* The trigger and the version bump keep the types.
LEMMA WriteTyped ==
  ASSUME TypeOK
  PROVE  /\ \A new \in Row : ResetNotified(row, new) \in Row
         /\ Touched \in [Requests -> Request]
         /\ \A r \in Requests : Touched[r] = [pending[r] EXCEPT !.fresh = FALSE]
         /\ \A r \in Requests : Touched[r].kind = pending[r].kind
         /\ \A r \in Requests : Touched[r].dateFrom = pending[r].dateFrom
         /\ \A r \in Requests : After(r) \in Request /\ After(r).kind \in {"idle", "refresh"}
<1>1. ASSUME NEW new \in Row PROVE ResetNotified(row, new) \in Row
  BY DEF ResetNotified, Row, Visible
<1>2. Touched \in [Requests -> Request]
  BY DEF Touched, TypeOK, Request
<1>3. ASSUME NEW r \in Requests PROVE /\ Touched[r] = [pending[r] EXCEPT !.fresh = FALSE]
                                      /\ Touched[r].kind = pending[r].kind
                                      /\ Touched[r].dateFrom = pending[r].dateFrom
  BY DEF Touched, TypeOK, Request
<1>4. ASSUME NEW r \in Requests
      PROVE  After(r) \in Request /\ After(r).kind \in {"idle", "refresh"}
  <2>1. Idle.kind = "idle" /\ Write("refresh").kind = "refresh"
    BY DEF Idle, Write
  <2>2. QED
    BY <2>1, RequestsTyped DEF After
<1>5. QED
  BY <1>1, <1>2, <1>3, <1>4

(***************************************************************************)
(* What an UPDATE does.                                                    *)
(***************************************************************************)
\* The two outcomes of CompareAndSet(r, kind, guard, new).
Lands(r, new) ==
  /\ row' = ResetNotified(row, new)
  /\ pending' = [Touched EXCEPT ![r] = After(r)]
  /\ UNCHANGED world

Misses(r) ==
  /\ row' = row
  /\ pending' = [pending EXCEPT ![r] = Idle]
  /\ UNCHANGED world

\* SuspensionHasAuthor, NoScheduleOnceSuspended, RequestIsAnswerable and
\* ReviewedWithProfile, of any row; and that only what is published has a schedule.
SoundRow(ro) ==
  /\ ro.status = "suspended" \/ ro.suspendFrom # NoDate => ro.suspendedBy # "none"
  /\ ro.suspendFrom # NoDate => ro.status = "published"
  /\ ro.republishAsked => ro.status = "suspended" /\ ro.suspendedBy = "department"
  /\ ro.status \in {"test_pending", "test_rejected", "published", "suspended"} => hasProfile

\* The changes of status and benefit the lifecycle allows.
Moves(new) ==
  \/ new.status = row.status /\ new.benefit = row.benefit
  \/ row.status \in {"draft", "test_rejected"} /\ new.status = row.status
  \/ row.status \in {"draft", "test_rejected"} /\ new.status = "test_pending"
       /\ new.benefit = row.benefit
  \/ row.status = "test_pending" /\ new.status = "test_rejected" /\ new.benefit = row.benefit
  \/ row.status \in {"test_pending", "test_rejected"} /\ new.status = "published"
       /\ new.benefit = row.benefit /\ new.suspendFrom = NoDate
  \/ row.status = "published" /\ new.status = "suspended" /\ new.benefit = row.benefit
  \/ row.status = "suspended" /\ new.status = "published" /\ new.benefit = row.benefit
  \/ row.status \in {"published", "suspended"} /\ new.status = "test_pending"
       /\ new.benefit # row.benefit /\ row.suspendFrom = NoDate
  \/ row.status \in {"draft", "test_rejected", "published", "suspended"}
       /\ new.status = "deleted" /\ new.benefit = row.benefit

\* What request r may change, by who sent it.
Entitled(r, new) ==
  /\ pending[r].kind \in OperatorWrites /\ row.suspendFrom # NoDate
       /\ row.suspendedBy = "department"
     => new.suspendFrom = row.suspendFrom /\ new.suspendedBy = row.suspendedBy
  /\ pending[r].kind = "update" => new.status \in {row.status, "test_pending"}

\* What Places sees of the write of request r.
Seen(r, new) ==
  LET p == pending[r] IN
  /\ p.kind = "update" => p.fresh /\ new.status = p.status /\ new.placed = p.placed
  /\ p.kind = "requestTest" =>
       row.status = p.status /\ new.status = "test_pending" /\ new.placed = row.placed
  /\ p.kind \notin {"update", "requestTest"} =>
       new.placed = row.placed /\ <<row.status, new.status>> \in PlacesView!Moves

\* A commit either misses or writes a row that keeps the flag for the trigger
\* and, on a sound row and a sound decision, is sound, legal and entitled.
LEMMA CommitEffect ==
  ASSUME TypeOK, NEW r \in Requests, OperatorCommits(r) \/ AdminCommits(r)
  PROVE  \/ Misses(r)
         \/ \E new \in Row :
              /\ Lands(r, new)
              /\ new.notified = row.notified
              /\ Seen(r, new)
              /\ SoundRow(row) /\ DecisionsHold => SoundRow(new) /\ Moves(new) /\ Entitled(r, new)
<1> DEFINE p == pending[r]
           Effect(new) == SoundRow(new) /\ Moves(new) /\ Entitled(r, new)
<1>p. p \in Request /\ row \in Row /\ (p.kind = "update" => p.dateFrom # NoDate)
  BY DEF TypeOK
<1> SUFFICES ASSUME ~Misses(r)
             PROVE  \E new \in Row : /\ Lands(r, new)
                                     /\ new.notified = row.notified
                                     /\ Seen(r, new)
                                     /\ SoundRow(row) /\ DecisionsHold => Effect(new)
  OBVIOUS
<1>1. CASE updateByIdAndOperatorId(r)
  <2> DEFINE new == [row EXCEPT !.status = p.status, !.dateFrom = p.dateFrom, !.dateTo = p.dateTo,
                           !.benefit = p.benefit, !.placed = p.placed,
                           !.republishAsked = @ /\ p.status = "suspended"]
  <2>1. /\ Lands(r, new) /\ PassesChecks(new)
        /\ p.kind = "update" /\ p.fresh
    BY <1>1 DEF updateByIdAndOperatorId, CompareAndSet, Lands, Misses
  <2>2. p.dateFrom \in Days
    BY <1>p, <2>1 DEF Request
  <2>3. new \in Row
    BY <1>p, <2>2, Zenon DEF Row, Request, Status, Actor
  <2>4. new.notified = row.notified
    BY <1>p DEF Row
  <2>5. Seen(r, new)
    BY <1>p, <2>1 DEF Seen, Row, PlacesView!Moves
  <2>6. ASSUME SoundRow(row), DecisionsHold PROVE Effect(new)
    BY <1>p, <2>1, <2>6
    DEF SoundRow, Moves, Entitled, DecisionsHold, PassesChecks, OperatorWrites, Row, Request,
        Status, Actor
  <2>7. QED
    BY <2>1, <2>3, <2>4, <2>5, <2>6
<1>2. CASE deleteByIdAndOperatorId(r)
  <2> DEFINE new == [row EXCEPT !.status = "deleted", !.republishAsked = FALSE]
  <2>1. /\ Lands(r, new) /\ PassesChecks(new)
        /\ p.kind = "delete" /\ row.status \in {"draft", "published", "suspended", "test_rejected"}
    BY <1>2 DEF deleteByIdAndOperatorId, CompareAndSet, Lands, Misses
  <2>2. new \in Row
    BY <1>p, Zenon DEF Row, Request, Status, Actor
  <2>3. new.notified = row.notified
    BY <1>p DEF Row
  <2>4. Seen(r, new)
    BY <1>p, <2>1 DEF Seen, Row, PlacesView!Moves
  <2>5. ASSUME SoundRow(row), DecisionsHold PROVE Effect(new)
    BY <1>p, <2>1, <2>5
    DEF SoundRow, Moves, Entitled, DecisionsHold, PassesChecks, OperatorWrites, Row, Request,
        Status, Actor
  <2>6. QED
    BY <2>1, <2>2, <2>3, <2>4, <2>5
<1>3. CASE updateStatusByIdAndOperatorId(r)
  <2> DEFINE new == [row EXCEPT !.status = "test_pending"]
  <2>1. /\ Lands(r, new) /\ PassesChecks(new)
        /\ p.kind = "requestTest" /\ row.status = p.status
    BY <1>3 DEF updateStatusByIdAndOperatorId, CompareAndSet, Lands, Misses
  <2>2. new \in Row
    BY <1>p, Zenon DEF Row, Request, Status, Actor
  <2>3. new.notified = row.notified
    BY <1>p DEF Row
  <2>4. Seen(r, new)
    BY <1>p, <2>1 DEF Seen, Row, PlacesView!Moves
  <2>5. ASSUME SoundRow(row), DecisionsHold PROVE Effect(new)
    BY <1>p, <2>1, <2>5
    DEF SoundRow, Moves, Entitled, DecisionsHold, PassesChecks, OperatorWrites, Row, Request,
        Status, Actor
  <2>6. QED
    BY <2>1, <2>2, <2>3, <2>4, <2>5
<1>4. CASE suspendByIdAndOperatorId(r)
  <2> DEFINE new == IF p.suspendFrom = NoDate
                     THEN [row EXCEPT !.status = "suspended", !.suspendedBy = "operator"]
                     ELSE [row EXCEPT !.suspendFrom = p.suspendFrom, !.suspendedBy = "operator"]
  <2>1. /\ Lands(r, new) /\ PassesChecks(new)
        /\ p.kind = "operatorSuspend" /\ row.status = "published" /\ row.suspendFrom = NoDate
    BY <1>4 DEF suspendByIdAndOperatorId, CompareAndSet, Lands, Misses
  <2>2. new \in Row
    BY <1>p, Zenon DEF Row, Request, Status, Actor
  <2>3. new.notified = row.notified
    BY <1>p DEF Row
  <2>4. Seen(r, new)
    BY <1>p, <2>1 DEF Seen, Row, PlacesView!Moves
  <2>5. ASSUME SoundRow(row), DecisionsHold PROVE Effect(new)
    BY <1>p, <2>1, <2>5
    DEF SoundRow, Moves, Entitled, DecisionsHold, PassesChecks, OperatorWrites, Row, Request,
        Status, Actor
  <2>6. QED
    BY <2>1, <2>2, <2>3, <2>4, <2>5
<1>5. CASE cancelScheduledSuspensionByIdAndOperatorId(r)
  <2> DEFINE new == Unscheduled
  <2>1. /\ Lands(r, new) /\ PassesChecks(new)
        /\ p.kind = "operatorCancel" /\ row.status = "published" /\ row.suspendedBy = "operator"
    BY <1>5 DEF cancelScheduledSuspensionByIdAndOperatorId, CompareAndSet, Lands, Misses
  <2>2. new \in Row
    BY <1>p, Zenon DEF Row, Request, Status, Actor, Unscheduled
  <2>3. new.notified = row.notified
    BY <1>p DEF Row, Unscheduled
  <2>4. Seen(r, new)
    BY <1>p, <2>1 DEF Seen, Row, Unscheduled, PlacesView!Moves
  <2>5. ASSUME SoundRow(row), DecisionsHold PROVE Effect(new)
    BY <1>p, <2>1, <2>5
    DEF SoundRow, Moves, Entitled, DecisionsHold, PassesChecks, OperatorWrites, Row, Request,
        Status, Actor, Unscheduled
  <2>6. QED
    BY <2>1, <2>2, <2>3, <2>4, <2>5
<1>6. CASE republishByIdAndOperatorId(r)
  <2> DEFINE new == Republished
  <2>1. /\ Lands(r, new) /\ PassesChecks(new)
        /\ p.kind = "operatorRepublish" /\ row.status = "suspended"
    BY <1>6 DEF republishByIdAndOperatorId, CompareAndSet, Lands, Misses
  <2>2. new \in Row
    BY <1>p, Zenon DEF Row, Request, Status, Actor, Republished
  <2>3. new.notified = row.notified
    BY <1>p DEF Row, Republished
  <2>4. Seen(r, new)
    BY <1>p, <2>1 DEF Seen, Row, Republished, PlacesView!Moves
  <2>5. ASSUME SoundRow(row), DecisionsHold PROVE Effect(new)
    BY <1>p, <2>1, <2>5
    DEF SoundRow, Moves, Entitled, DecisionsHold, PassesChecks, OperatorWrites, Row, Request,
        Status, Actor, Republished
  <2>6. QED
    BY <2>1, <2>2, <2>3, <2>4, <2>5
<1>7. CASE requestRepublishByIdAndOperatorId(r)
  <2> DEFINE new == [row EXCEPT !.republishAsked = TRUE]
  <2>1. /\ Lands(r, new) /\ PassesChecks(new)
        /\ p.kind = "requestRepublish" /\ row.status = "suspended" /\ row.suspendedBy = "department"
    BY <1>7 DEF requestRepublishByIdAndOperatorId, CompareAndSet, Lands, Misses
  <2>2. new \in Row
    BY <1>p, Zenon DEF Row, Request, Status, Actor
  <2>3. new.notified = row.notified
    BY <1>p DEF Row
  <2>4. Seen(r, new)
    BY <1>p, <2>1 DEF Seen, Row, PlacesView!Moves
  <2>5. ASSUME SoundRow(row), DecisionsHold PROVE Effect(new)
    BY <1>p, <2>1, <2>5
    DEF SoundRow, Moves, Entitled, DecisionsHold, PassesChecks, OperatorWrites, Row, Request,
        Status, Actor
  <2>6. QED
    BY <2>1, <2>2, <2>3, <2>4, <2>5
<1>8. CASE updateStatusById(r)
  <2> DEFINE new == [row EXCEPT !.status = "published",
                           !.dateFrom = IF p.dateFrom = NoDate THEN @ ELSE p.dateFrom]
  <2>1. /\ Lands(r, new) /\ PassesChecks(new)
        /\ p.kind = "approve" /\ row.status \in {"test_pending", "test_rejected"}
    BY <1>8 DEF updateStatusById, CompareAndSet, Lands, Misses
  <2>2. p.dateFrom # NoDate => p.dateFrom \in Days
    BY <1>p DEF Request
  <2>3. new \in Row
    BY <1>p, <2>2, Zenon DEF Row, Request, Status, Actor
  <2>4. new.notified = row.notified
    BY <1>p DEF Row
  <2>5. Seen(r, new)
    BY <1>p, <2>1 DEF Seen, Row, PlacesView!Moves
  <2>6. ASSUME SoundRow(row), DecisionsHold PROVE Effect(new)
    BY <1>p, <2>1, <2>6
    DEF SoundRow, Moves, Entitled, DecisionsHold, PassesChecks, OperatorWrites, Row, Request,
        Status, Actor
  <2>7. QED
    BY <2>1, <2>3, <2>4, <2>5, <2>6
<1>9. CASE requestChangesById(r)
  <2> DEFINE new == [row EXCEPT !.status = "test_rejected"]
  <2>1. /\ Lands(r, new) /\ PassesChecks(new)
        /\ p.kind = "requestChanges" /\ row.status = "test_pending"
    BY <1>9 DEF requestChangesById, CompareAndSet, Lands, Misses
  <2>2. new \in Row
    BY <1>p, Zenon DEF Row, Request, Status, Actor
  <2>3. new.notified = row.notified
    BY <1>p DEF Row
  <2>4. Seen(r, new)
    BY <1>p, <2>1 DEF Seen, Row, PlacesView!Moves
  <2>5. ASSUME SoundRow(row), DecisionsHold PROVE Effect(new)
    BY <1>p, <2>1, <2>5
    DEF SoundRow, Moves, Entitled, DecisionsHold, PassesChecks, OperatorWrites, Row, Request,
        Status, Actor
  <2>6. QED
    BY <2>1, <2>2, <2>3, <2>4, <2>5
<1>10. CASE suspendById(r)
  <2> DEFINE new == [row EXCEPT !.status = IF p.suspendFrom = NoDate THEN "suspended" ELSE @,
                           !.suspendFrom = p.suspendFrom, !.suspendedBy = "department"]
  <2>1. /\ Lands(r, new) /\ PassesChecks(new)
        /\ p.kind = "adminSuspend" /\ row.status = "published"
    BY <1>10 DEF suspendById, CompareAndSet, Lands, Misses
  <2>2. new \in Row
    BY <1>p, Zenon DEF Row, Request, Status, Actor
  <2>3. new.notified = row.notified
    BY <1>p DEF Row
  <2>4. Seen(r, new)
    BY <1>p, <2>1 DEF Seen, Row, PlacesView!Moves
  <2>5. ASSUME SoundRow(row), DecisionsHold PROVE Effect(new)
    BY <1>p, <2>1, <2>5
    DEF SoundRow, Moves, Entitled, DecisionsHold, PassesChecks, OperatorWrites, Row, Request,
        Status, Actor
  <2>6. QED
    BY <2>1, <2>2, <2>3, <2>4, <2>5
<1>11. CASE cancelScheduledSuspensionById(r)
  <2> DEFINE new == Unscheduled
  <2>1. /\ Lands(r, new) /\ PassesChecks(new)
        /\ p.kind = "adminCancel" /\ row.status = "published"
    BY <1>11 DEF cancelScheduledSuspensionById, CompareAndSet, Lands, Misses
  <2>2. new \in Row
    BY <1>p, Zenon DEF Row, Request, Status, Actor, Unscheduled
  <2>3. new.notified = row.notified
    BY <1>p DEF Row, Unscheduled
  <2>4. Seen(r, new)
    BY <1>p, <2>1 DEF Seen, Row, Unscheduled, PlacesView!Moves
  <2>5. ASSUME SoundRow(row), DecisionsHold PROVE Effect(new)
    BY <1>p, <2>1, <2>5
    DEF SoundRow, Moves, Entitled, DecisionsHold, PassesChecks, OperatorWrites, Row, Request,
        Status, Actor, Unscheduled
  <2>6. QED
    BY <2>1, <2>2, <2>3, <2>4, <2>5
<1>12. CASE republishById(r)
  <2> DEFINE new == Republished
  <2>1. /\ Lands(r, new) /\ PassesChecks(new)
        /\ p.kind = "adminRepublish" /\ row.status = "suspended"
    BY <1>12 DEF republishById, CompareAndSet, Lands, Misses
  <2>2. new \in Row
    BY <1>p, Zenon DEF Row, Request, Status, Actor, Republished
  <2>3. new.notified = row.notified
    BY <1>p DEF Row, Republished
  <2>4. Seen(r, new)
    BY <1>p, <2>1 DEF Seen, Row, Republished, PlacesView!Moves
  <2>5. ASSUME SoundRow(row), DecisionsHold PROVE Effect(new)
    BY <1>p, <2>1, <2>5
    DEF SoundRow, Moves, Entitled, DecisionsHold, PassesChecks, OperatorWrites, Row, Request,
        Status, Actor, Republished
  <2>6. QED
    BY <2>1, <2>2, <2>3, <2>4, <2>5
<1>13. CASE rejectRepublishById(r)
  <2> DEFINE new == [row EXCEPT !.republishAsked = FALSE]
  <2>1. /\ Lands(r, new) /\ PassesChecks(new)
        /\ p.kind = "rejectRepublish" /\ row.status = "suspended"
    BY <1>13 DEF rejectRepublishById, CompareAndSet, Lands, Misses
  <2>2. new \in Row
    BY <1>p, Zenon DEF Row, Request, Status, Actor
  <2>3. new.notified = row.notified
    BY <1>p DEF Row
  <2>4. Seen(r, new)
    BY <1>p, <2>1 DEF Seen, Row, PlacesView!Moves
  <2>5. ASSUME SoundRow(row), DecisionsHold PROVE Effect(new)
    BY <1>p, <2>1, <2>5
    DEF SoundRow, Moves, Entitled, DecisionsHold, PassesChecks, OperatorWrites, Row, Request,
        Status, Actor
  <2>6. QED
    BY <2>1, <2>2, <2>3, <2>4, <2>5
<1>14. QED
  BY <1>1, <1>2, <1>3, <1>4, <1>5, <1>6, <1>7, <1>8, <1>9, <1>10, <1>11, <1>12, <1>13 DEF OperatorCommits, AdminCommits

\* A commit keeps the types.
LEMMA CommitTyped ==
  ASSUME TypeOK, NEW r \in Requests, OperatorCommits(r) \/ AdminCommits(r)
  PROVE  TypeOK'
<1>1. UNCHANGED world
  BY CommitEffect DEF Lands, Misses
<1>2. row' \in Row
  BY CommitEffect, WriteTyped DEF Lands, Misses, TypeOK
<1>3. \/ pending' = [Touched EXCEPT ![r] = After(r)]
      \/ pending' = [pending EXCEPT ![r] = Idle]
  BY CommitEffect DEF Lands, Misses
<1>4. Idle.kind = "idle"
  BY DEF Idle
<1>5. pending' \in [Requests -> Request]
  BY <1>3, WriteTyped, RequestsTyped DEF TypeOK
<1>6. \A q \in Requests : pending'[q].kind = "update" => pending'[q].dateFrom # NoDate
  BY <1>3, <1>4, WriteTyped, RequestsTyped DEF TypeOK
<1>7. QED
  BY <1>1, <1>2, <1>5, <1>6 DEF TypeOK, world

\* What a use case decides is a request of the right type.
LEMMA DecisionTyped ==
  ASSUME TypeOK, NEW r \in Requests, OperatorDecides(r) \/ AdminDecides(r)
  PROVE  TypeOK'
<1> USE DEF OperatorWrites, AdminWrites
<1>1. ASSUME NEW kind \in (OperatorWrites \cup AdminWrites) \ {"update"},
             Decide(r, Write(kind)) \/ Decide(r, WriteThenRefresh(kind))
      PROVE  TypeOK'
  <2>1. Write(kind).kind = kind /\ WriteThenRefresh(kind).kind = kind
    BY DEF Write, WriteThenRefresh, Idle
  <2>2. QED
    BY <1>1, <2>1, RequestsTyped, DecideTyped
<1>2. ASSUME NEW dateFrom \in Days, NEW dateTo \in EndDates, NEW benefit \in Benefits,
             NEW placed \in Placements, OperatorUpdate(r, dateFrom, dateTo, benefit, placed)
      PROVE  TypeOK'
  <2> DEFINE status == DisplayStatus(row, today)
             request == [kind |-> "update",
                         status |-> IF BindingChange(status, benefit) THEN "test_pending"
                                    ELSE row.status,
                         dateFrom |-> dateFrom, dateTo |-> dateTo, suspendFrom |-> NoDate,
                         benefit |-> benefit, placed |-> placed, fresh |-> TRUE,
                         refresh |-> status = "published"
                                       \/ (status = "scheduled" /\ dateFrom <= today),
                         readOn |-> NoDate]
  <2>1. Decide(r, request)
    BY <1>2 DEF OperatorUpdate
  <2>2. row.status \in Status /\ "test_pending" \in Status
    BY DEF TypeOK, Row, Status
  <2>3. dateTo \in Days \cup {NoDate} /\ placed \in BOOLEAN
    BY CalendarAssumption, InputsAssumption
  <2>4. request \in Request
    BY <2>2, <2>3 DEF Request
  <2>5. request.dateFrom # NoDate
    BY DEF Days, NoDate
  <2>6. QED
    BY <2>1, <2>4, <2>5, DecideTyped
<1>3. CASE OperatorRequestTest(r)
  <2> DEFINE request == [Write("requestTest") EXCEPT !.status = row.status, !.fresh = TRUE]
  <2>1. request \in Request
    BY RequestsTyped DEF Request, TypeOK, Row
  <2>2. request.kind = "requestTest"
    BY RequestsTyped DEF Write, Idle
  <2>3. QED
    BY <1>3, <2>1, <2>2, DecideTyped DEF OperatorRequestTest
<1>4. ASSUME NEW kind \in {"operatorSuspend", "adminSuspend"}, NEW day \in Days,
             Decide(r, Suspension(kind, day))
      PROVE  TypeOK'
  <2> DEFINE request == [Write(kind) EXCEPT !.suspendFrom = day]
  <2>1. request \in Request
    BY RequestsTyped DEF Request
  <2>2. request.kind = kind
    BY DEF Write, Idle
  <2>3. CASE day > utcToday
    BY <1>4, <2>1, <2>2, <2>3, DecideTyped DEF Suspension
  <2>4. CASE ~(day > utcToday)
    BY <1>1, <1>4, <2>4 DEF Suspension
  <2>5. QED
    BY <2>3, <2>4
<1>5. ASSUME NEW dateFrom \in Days \cup {NoDate}, AdminApprove(r, dateFrom)
      PROVE  TypeOK'
  <2> DEFINE refresh == row.dateFrom <= today
             request == [Write("approve") EXCEPT !.dateFrom = dateFrom, !.refresh = refresh]
  <2>1. refresh \in BOOLEAN /\ Write("approve") \in Request
    BY RequestsTyped
  <2>2. request.kind = "approve"
    BY DEF Write, Idle
  <2> HIDE DEF refresh
  <2>3. request \in Request
    BY <2>1, Zenon DEF Request
  <2>4. QED
    BY <1>5, <2>2, <2>3, DecideTyped DEF AdminApprove, refresh
<1>6. CASE OperatorDelete(r)
  <2> DEFINE request == [Write("delete") EXCEPT !.fresh = TRUE, !.readOn = today]
  <2>1. request \in Request
    BY RequestsTyped DEF Request, TypeOK
  <2>2. request.kind = "delete"
    BY DEF Write, Idle
  <2>3. QED
    BY <1>6, <2>1, <2>2, DecideTyped DEF OperatorDelete
<1>7. QED
  BY <1>1, <1>2, <1>3, <1>4, <1>5, <1>6
     DEF OperatorDecides, AdminDecides, OperatorSuspend, OperatorCancel,
         OperatorRepublish, OperatorRequestRepublish, AdminRequestChanges, AdminSuspend,
         AdminCancel, AdminRepublish, AdminRejectRepublish

\* Every step keeps the types.
LEMMA TypeStep ==
  ASSUME TypeOK, [Next]_vars
  PROVE  TypeOK'
<1>1. CASE UNCHANGED vars
  BY <1>1 DEF vars, TypeOK
<1>2. ASSUME NEW dateFrom \in Days, NEW dateTo \in EndDates, NEW benefit \in Benefits,
             NEW placed \in Placements, CreateOpportunity(dateFrom, dateTo, benefit, placed)
      PROVE  TypeOK'
  <2>1. dateTo \in Days \cup {NoDate} /\ placed \in BOOLEAN
    BY CalendarAssumption, InputsAssumption
  <2>2. row' \in Row
    BY <1>2, <2>1 DEF CreateOpportunity, TypeOK, Row, Status
  <2>3. QED
    BY <1>2, <2>2 DEF CreateOpportunity, TypeOK, world
<1>3. CASE CreateProfile
  BY <1>3 DEF CreateProfile, TypeOK
<1>4. CASE RevokeOperator
  <2> DEFINE new == [row EXCEPT !.status = "suspended", !.suspendFrom = NoDate,
                                !.suspendedBy = "department"]
  <2>1. row \in Row /\ new \in Row
    BY DEF TypeOK, Row, Status, Actor
  <2>2. row' \in Row
    BY <1>4, <2>1, WriteTyped DEF RevokeOperator
  <2>3. pending' \in [Requests -> Request] /\ \A r \in Requests :
          pending'[r].kind = "update" => pending'[r].dateFrom # NoDate
    BY <1>4, WriteTyped DEF RevokeOperator, TypeOK
  <2>4. QED
    BY <1>4, <2>2, <2>3 DEF RevokeOperator, TypeOK
<1>5. ASSUME NEW r \in Requests, refreshAll(r) \/ RequestFails(r)
      PROVE  TypeOK'
  <2>1. Idle.kind = "idle"
    BY DEF Idle
  <2>2. pending' = [pending EXCEPT ![r] = Idle] /\ row' = row
    BY <1>5 DEF refreshAll, RequestFails
  <2>3. pending' \in [Requests -> Request] /\ \A q \in Requests :
          pending'[q].kind = "update" => pending'[q].dateFrom # NoDate
    BY <2>1, <2>2, RequestsTyped DEF TypeOK
  <2>4. UNCHANGED <<hasProfile, revoked, today, utcToday>> /\ listed' \in BOOLEAN
    BY <1>5 DEF refreshAll, RequestFails, RefreshedView, Visible, TypeOK, world
  <2>5. QED
    BY <2>2, <2>3, <2>4 DEF TypeOK
<1>6. CASE System
  <2>1. CASE RefreshView
    BY <2>1 DEF RefreshView, RefreshedView, Visible, TypeOK
  <2>2. CASE ApplyScheduledSuspension
    <3> DEFINE new == [row EXCEPT !.status = "suspended", !.suspendFrom = NoDate]
    <3>1. row \in Row /\ new \in Row
      BY DEF TypeOK, Row, Status
    <3>2. row' \in Row
      BY <2>2, <3>1, WriteTyped DEF ApplyScheduledSuspension
    <3>3. pending' \in [Requests -> Request] /\ \A r \in Requests :
            pending'[r].kind = "update" => pending'[r].dateFrom # NoDate
      BY <2>2, WriteTyped DEF ApplyScheduledSuspension, TypeOK
    <3>4. QED
      BY <2>2, <3>2, <3>3 DEF ApplyScheduledSuspension, TypeOK, world
  <2>3. CASE EnqueuePublishedMessage
    <3> DEFINE new == [row EXCEPT !.notified = TRUE]
    <3>1. row \in Row /\ new \in Row
      BY DEF TypeOK, Row
    <3>2. row' \in Row
      BY <2>3, <3>1, WriteTyped DEF EnqueuePublishedMessage
    <3>3. QED
      BY <2>3, <3>2 DEF EnqueuePublishedMessage, TypeOK, world
  <2>4. CASE RomeMidnight
    BY <2>4, CalendarAssumption DEF RomeMidnight, TypeOK, Days
  <2>5. CASE UtcMidnight
    BY <2>5 DEF UtcMidnight, TypeOK
  <2>6. QED
    BY <1>6, <2>1, <2>2, <2>3, <2>4, <2>5 DEF System
<1>7. QED
  BY <1>1, <1>2, <1>3, <1>4, <1>5, <1>6, CommitTyped, DecisionTyped DEF Next

\* The initial state is typed.
LEMMA InitTyped == Init => TypeOK
<1> SUFFICES ASSUME Init PROVE TypeOK
  OBVIOUS
<1>1. 1 \in Days /\ NoDate \in Days \cup {NoDate} /\ Idle.kind # "update"
  BY CalendarAssumption DEF Days, Idle
<1>2. row \in Row
  BY <1>1, RequestsTyped DEF Init, Row, Status, Actor
<1>3. QED
  BY <1>1, <1>2, RequestsTyped DEF Init, TypeOK

\* The values of the variables are always of their type: in particular an
\* opportunity never loses its first day.
THEOREM TypeCorrect == Spec => []TypeOK
<1>1. Init => TypeOK
  BY InitTyped
<1>2. TypeOK /\ [Next]_vars => TypeOK'
  BY TypeStep
<1>3. QED
  BY <1>1, <1>2, PTL DEF Spec

(***************************************************************************)
(* The inductive invariant.  The invariants about the row are not          *)
(* inductive alone: an edit or a submission writes the status it decided   *)
(* on, so what it decided must still fit the row (DecisionsHold).          *)
(***************************************************************************)
IInv == TypeOK /\ SoundRow(row) /\ NotifiedWindowEntered /\ DecisionsHold

\* The trigger only clears the announcement flag, and leaves it set only on
\* rows that were and are visible.
LEMMA TriggerOnlyClears ==
  ASSUME NEW old \in Row, NEW new \in Row
  PROVE  LET ro == ResetNotified(old, new) IN
         /\ ro.status = new.status
         /\ ro.dateFrom = new.dateFrom
         /\ ro.dateTo = new.dateTo
         /\ ro.suspendFrom = new.suspendFrom
         /\ ro.suspendedBy = new.suspendedBy
         /\ ro.republishAsked = new.republishAsked
         /\ ro.benefit = new.benefit
         /\ ro.notified <=> new.notified /\ Visible(old, today) /\ Visible(new, today)
BY DEF ResetNotified, Row, Visible

\* What a write leaves: the flag fits the row, and no decision in flight
\* other than a submission survives it.
LEMMA WriteSettles ==
  ASSUME IInv, NEW new \in Row, row' = ResetNotified(row, new),
         UNCHANGED <<hasProfile, today>>,
         \A q \in Requests : \/ pending'[q].kind \in {"idle", "refresh"}
                             \/ pending'[q] = Touched[q]
  PROVE  NotifiedWindowEntered' /\ DecisionsHold'
<1>1. NotifiedWindowEntered'
  BY TriggerOnlyClears DEF IInv, TypeOK, NotifiedWindowEntered, Visible
<1>2. ASSUME NEW q \in Requests
      PROVE  /\ pending'[q].kind = "update" => ~pending'[q].fresh
             /\ pending'[q].kind \in {"requestTest", "delete"} =>
                  /\ pending[q].kind = pending'[q].kind /\ ~pending'[q].fresh
                  /\ pending'[q].status = pending[q].status
                  /\ pending'[q].readOn = pending[q].readOn
  <2>1. pending[q] \in Request
    BY DEF IInv, TypeOK
  <2>2. /\ Touched[q].kind = pending[q].kind
        /\ Touched[q].status = pending[q].status
        /\ Touched[q].readOn = pending[q].readOn
        /\ ~Touched[q].fresh
    BY <2>1 DEF Touched, Request
  <2>3. QED
    BY <2>2
<1>3. DecisionsHold'
  BY <1>2 DEF DecisionsHold, IInv
<1>4. QED
  BY <1>1, <1>3

\* Requests that end leave the other decisions as they were.
LEMMA EndingSettles ==
  ASSUME IInv, NEW r \in Requests, pending' = [pending EXCEPT ![r] = Idle],
         UNCHANGED <<row, hasProfile, today>>
  PROVE  SoundRow(row)' /\ NotifiedWindowEntered' /\ DecisionsHold'
<1>1. Idle.kind = "idle"
  BY DEF Idle
<1>2. \A q \in Requests : pending'[q] = Idle \/ pending'[q] = pending[q]
  BY DEF IInv, TypeOK
<1>3. DecisionsHold'
  BY <1>1, <1>2 DEF DecisionsHold, IInv
<1>4. QED
  BY <1>3 DEF IInv, SoundRow, NotifiedWindowEntered

\* Commits preserve the invariant.
LEMMA CommitSafe ==
  ASSUME IInv, NEW r \in Requests, OperatorCommits(r) \/ AdminCommits(r)
  PROVE  IInv'
<1> USE DEF IInv
<1>1. TypeOK'
  BY CommitTyped
<1>2. CASE Misses(r)
  <2>1. UNCHANGED <<row, hasProfile, today>> /\ pending' = [pending EXCEPT ![r] = Idle]
    BY <1>2 DEF Misses, world
  <2>2. QED
    BY <1>1, <2>1, EndingSettles
<1>3. CASE ~Misses(r)
  <2>1. PICK new \in Row : Lands(r, new) /\ SoundRow(new)
    BY <1>3, CommitEffect
  <2>2. row' = ResetNotified(row, new) /\ UNCHANGED <<hasProfile, today>>
    BY <2>1 DEF Lands, world
  <2>3. SoundRow(row)'
    BY <2>1, <2>2, TriggerOnlyClears DEF SoundRow, TypeOK
  <2>4. ASSUME NEW q \in Requests
        PROVE  pending'[q].kind \in {"idle", "refresh"} \/ pending'[q] = Touched[q]
    BY <2>1, WriteTyped DEF Lands
  <2>5. QED
    BY <1>1, <2>2, <2>3, <2>4, WriteSettles
<1>4. QED
  BY <1>2, <1>3

\* Decisions fit the row they are taken on.
LEMMA DecisionSafe ==
  ASSUME IInv, NEW r \in Requests, OperatorDecides(r) \/ AdminDecides(r)
  PROVE  IInv'
<1>1. TypeOK'
  BY DecisionTyped DEF IInv
<1>2. ASSUME NEW request, Decide(r, request),
             request.kind = "update" =>
               \/ request.status = row.status /\ row.status \in {"draft", "test_rejected"}
               \/ request.status = row.status /\ row.status \in {"published", "suspended"}
                    /\ request.benefit = row.benefit
               \/ request.status = "test_pending" /\ row.status \in {"published", "suspended"}
                    /\ request.benefit # row.benefit,
             request.kind = "requestTest" =>
               /\ request.status \in {"draft", "test_rejected"} /\ hasProfile
               /\ request.status = row.status,
             request.kind = "delete" =>
               /\ request.readOn <= today
               /\ request.readOn = today => ~Visible(row, today)
      PROVE  IInv'
  <2>1. UNCHANGED <<row, hasProfile, today>>
    BY <1>2 DEF Decide, world
  <2>2. \A q \in Requests : pending'[q] = IF q = r THEN request ELSE pending[q]
    BY <1>2 DEF Decide, IInv, TypeOK
  <2>3. DecisionsHold'
    BY <1>2, <2>1, <2>2 DEF DecisionsHold, IInv
  <2>4. QED
    BY <1>1, <2>1, <2>3 DEF IInv, SoundRow, NotifiedWindowEntered
<1>3. ASSUME NEW dateFrom \in Days, NEW dateTo \in EndDates, NEW benefit \in Benefits,
             NEW placed \in Placements, OperatorUpdate(r, dateFrom, dateTo, benefit, placed)
      PROVE  IInv'
  <2> DEFINE status == DisplayStatus(row, today)
             request == [kind |-> "update",
                         status |-> IF BindingChange(status, benefit) THEN "test_pending"
                                    ELSE row.status,
                         dateFrom |-> dateFrom, dateTo |-> dateTo, suspendFrom |-> NoDate,
                         benefit |-> benefit, placed |-> placed, fresh |-> TRUE,
                         refresh |-> status = "published"
                                       \/ (status = "scheduled" /\ dateFrom <= today),
                         readOn |-> NoDate]
  <2>1. Decide(r, request) /\ status \in Replaceable
    BY <1>3 DEF OperatorUpdate
  <2>2. \/ row.status \in {"draft", "test_rejected"} /\ status = row.status
        \/ row.status = "published" /\ status \in {"scheduled", "published"}
        \/ row.status = "suspended" /\ status = "suspended"
    BY <2>1 DEF DisplayStatus, Replaceable, IInv, TypeOK, Row, Status
  <2>3. \/ request.status = row.status /\ row.status \in {"draft", "test_rejected"}
        \/ request.status = row.status /\ row.status \in {"published", "suspended"}
             /\ request.benefit = row.benefit
        \/ request.status = "test_pending" /\ row.status \in {"published", "suspended"}
             /\ request.benefit # row.benefit
    BY <2>2 DEF BindingChange
  <2>4. request.kind = "update"
    OBVIOUS
  <2> HIDE DEF request
  <2>5. QED
    BY <1>2, <2>1, <2>3, <2>4
<1>4. CASE OperatorRequestTest(r)
  <2> DEFINE request == [Write("requestTest") EXCEPT !.status = row.status, !.fresh = TRUE]
  <2>1. request.kind = "requestTest" /\ request.status = row.status
    BY DEF Write, Idle
  <2>2. Decide(r, request) /\ row.status \in {"draft", "test_rejected"} /\ hasProfile
    BY <1>4 DEF OperatorRequestTest
  <2> HIDE DEF request
  <2>3. QED
    BY <1>2, <2>1, <2>2
<1>5. ASSUME NEW kind \in (OperatorWrites \cup AdminWrites) \ {"update", "requestTest", "delete"},
             \/ Decide(r, Write(kind))
             \/ Decide(r, WriteThenRefresh(kind))
      PROVE  IInv'
  <2>1. Write(kind).kind = kind /\ WriteThenRefresh(kind).kind = kind
    BY DEF Write, WriteThenRefresh, Idle
  <2>2. QED
    BY <1>2, <1>5, <2>1
<1>6. ASSUME NEW kind \in {"operatorSuspend", "adminSuspend"}, NEW day \in Days,
             Decide(r, Suspension(kind, day))
      PROVE  IInv'
  <2>1. Suspension(kind, day).kind = kind
    BY DEF Suspension, Write, WriteThenRefresh, Idle
  <2>2. QED
    BY <1>2, <1>6, <2>1
<1>7. ASSUME NEW dateFrom \in Days \cup {NoDate}, AdminApprove(r, dateFrom)
      PROVE  IInv'
  <2> DEFINE request == [Write("approve") EXCEPT !.dateFrom = dateFrom,
                                                 !.refresh = row.dateFrom <= today]
  <2>1. Decide(r, request) /\ request.kind = "approve"
    BY <1>7 DEF AdminApprove, Write, Idle
  <2> HIDE DEF request
  <2>2. QED
    BY <1>2, <2>1
<1>8. CASE OperatorDelete(r)
  <2> DEFINE request == [Write("delete") EXCEPT !.fresh = TRUE, !.readOn = today]
  <2>1. Decide(r, request) /\ request.kind = "delete" /\ request.readOn = today
    BY <1>8 DEF OperatorDelete, Write, Idle
  <2>2. today \in Int /\ row.dateFrom \in Int
    BY DEF IInv, TypeOK, Row, Days
  <2>3. ~Visible(row, today)
    BY <1>8, <2>2 DEF OperatorDelete, DisplayStatus, Visible
  <2> HIDE DEF request
  <2>4. QED
    BY <1>2, <2>1, <2>2, <2>3
<1>9. QED
  BY <1>3, <1>4, <1>5, <1>6, <1>7, <1>8
     DEF OperatorDecides, AdminDecides, OperatorSuspend, OperatorCancel,
         OperatorRepublish, OperatorRequestRepublish, AdminRequestChanges, AdminSuspend,
         AdminCancel, AdminRepublish, AdminRejectRepublish, OperatorWrites, AdminWrites

\* The invariant is inductive.
LEMMA InvariantStep ==
  ASSUME IInv, [Next]_vars
  PROVE  IInv'
<1> USE DEF IInv
<1>1. TypeOK'
  BY TypeStep
<1>2. CASE UNCHANGED vars
  BY <1>1, <1>2 DEF vars, SoundRow, NotifiedWindowEntered, DecisionsHold
<1>3. ASSUME NEW dateFrom \in Days, NEW dateTo \in EndDates, NEW benefit \in Benefits,
             NEW placed \in Placements, CreateOpportunity(dateFrom, dateTo, benefit, placed)
      PROVE  IInv'
  <2>1. row \in Row /\ row.status = "absent"
    BY <1>3 DEF CreateOpportunity, TypeOK
  <2>2. UNCHANGED <<hasProfile, pending, today>>
    BY <1>3 DEF CreateOpportunity, world
  <2>3. /\ row'.status = "draft" /\ row'.notified = row.notified
        /\ row'.suspendFrom = row.suspendFrom /\ row'.suspendedBy = row.suspendedBy
        /\ row'.republishAsked = row.republishAsked
    BY <1>3, <2>1 DEF CreateOpportunity, Row
  <2>4. SoundRow(row)' /\ NotifiedWindowEntered'
    BY <2>1, <2>2, <2>3 DEF SoundRow, NotifiedWindowEntered
  <2>5. DecisionsHold'
    BY <2>1, <2>2, <2>3 DEF DecisionsHold, Visible
  <2>6. QED
    BY <1>1, <2>4, <2>5
<1>4. CASE CreateProfile
  <2>1. hasProfile' /\ UNCHANGED <<row, pending, today>>
    BY <1>4 DEF CreateProfile
  <2>2. QED
    BY <1>1, <2>1 DEF SoundRow, NotifiedWindowEntered, DecisionsHold
<1>5. CASE RevokeOperator
  <2> DEFINE new == [row EXCEPT !.status = "suspended", !.suspendFrom = NoDate,
                                !.suspendedBy = "department"]
  <2>1. UNCHANGED <<hasProfile, today>>
    BY <1>5 DEF RevokeOperator
  <2>2. CASE row.status = "published"
    <3>1. row \in Row /\ new \in Row
      BY DEF TypeOK, Row, Status, Actor
    <3>2. row' = ResetNotified(row, new) /\ pending' = Touched
      BY <1>5, <2>2 DEF RevokeOperator
    <3>3. SoundRow(new)
      BY <2>2, <3>1 DEF SoundRow, Row
    <3> HIDE DEF new
    <3>4. SoundRow(row)'
      BY <2>1, <3>1, <3>2, <3>3, TriggerOnlyClears DEF SoundRow
    <3>5. QED
      BY <1>1, <2>1, <3>1, <3>2, <3>4, WriteSettles
  <2>3. CASE row.status # "published"
    <3>1. UNCHANGED <<row, pending>>
      BY <1>5, <2>3 DEF RevokeOperator
    <3>2. QED
      BY <1>1, <2>1, <3>1 DEF SoundRow, NotifiedWindowEntered, DecisionsHold
  <2>4. QED
    BY <2>2, <2>3
<1>6. ASSUME NEW r \in Requests, refreshAll(r) \/ RequestFails(r)
      PROVE  IInv'
  <2>1. pending' = [pending EXCEPT ![r] = Idle] /\ UNCHANGED <<row, hasProfile, today>>
    BY <1>6 DEF refreshAll, RequestFails, world
  <2>2. QED
    BY <1>1, <2>1, EndingSettles
<1>7. CASE RefreshView \/ UtcMidnight
  <2>1. UNCHANGED <<row, hasProfile, pending, today>>
    BY <1>7 DEF RefreshView, UtcMidnight
  <2>2. QED
    BY <1>1, <2>1 DEF SoundRow, NotifiedWindowEntered, DecisionsHold
<1>8. CASE ApplyScheduledSuspension
  <2> DEFINE new == [row EXCEPT !.status = "suspended", !.suspendFrom = NoDate]
  <2>1. row \in Row /\ new \in Row
    BY DEF TypeOK, Row, Status
  <2>2. /\ row' = ResetNotified(row, new) /\ pending' = Touched
        /\ row.status = "published" /\ row.suspendFrom # NoDate
        /\ UNCHANGED <<hasProfile, today>>
    BY <1>8 DEF ApplyScheduledSuspension, SuspensionDue, world
  <2>3. SoundRow(new)
    BY <2>1, <2>2 DEF SoundRow, Row
  <2> HIDE DEF new
  <2>4. SoundRow(row)'
    BY <2>1, <2>2, <2>3, TriggerOnlyClears DEF SoundRow
  <2>5. QED
    BY <1>1, <2>1, <2>2, <2>4, WriteSettles
<1>9. CASE EnqueuePublishedMessage
  <2> DEFINE new == [row EXCEPT !.notified = TRUE]
  <2>1. row \in Row /\ new \in Row
    BY DEF TypeOK, Row
  <2>2. row' = ResetNotified(row, new) /\ UNCHANGED <<hasProfile, pending, today>>
    BY <1>9 DEF EnqueuePublishedMessage, world
  <2>3. /\ new.status = row.status /\ new.dateFrom = row.dateFrom
        /\ new.suspendFrom = row.suspendFrom /\ new.suspendedBy = row.suspendedBy
        /\ new.republishAsked = row.republishAsked /\ new.benefit = row.benefit
        /\ new.dateTo = row.dateTo
    BY <2>1 DEF Row
  <2> HIDE DEF new
  <2>4. SoundRow(row)'
    BY <2>1, <2>2, <2>3, TriggerOnlyClears DEF SoundRow
  <2>5. NotifiedWindowEntered'
    BY <2>1, <2>2, TriggerOnlyClears DEF NotifiedWindowEntered, Visible
  <2>6. DecisionsHold'
    BY <2>1, <2>2, <2>3, TriggerOnlyClears DEF DecisionsHold, Visible
  <2>7. QED
    BY <1>1, <2>4, <2>5, <2>6
<1>10. CASE RomeMidnight
  <2>1. today' = today + 1 /\ UNCHANGED <<row, hasProfile, pending>>
    BY <1>10 DEF RomeMidnight
  <2>2. today \in Int /\ row.dateFrom \in Int
    BY CalendarAssumption DEF TypeOK, Row, Days, NoDate
  <2>3. NotifiedWindowEntered'
    BY <2>1, <2>2 DEF NotifiedWindowEntered
  <2>4. DecisionsHold'
    <3>1. \A q \in Requests : pending[q].readOn \in Int
      BY DEF TypeOK, Request, Days, NoDate
    <3>2. QED
      BY <2>1, <2>2, <3>1 DEF DecisionsHold
  <2>5. QED
    BY <1>1, <2>1, <2>3, <2>4 DEF SoundRow
<1>11. QED
  BY <1>2, <1>3, <1>4, <1>5, <1>6, <1>7, <1>8, <1>9, <1>10, CommitSafe, DecisionSafe
     DEF Next, System

\* The invariant holds.
THEOREM Invariant == Spec => []IInv
<1>1. Init => IInv
  <2> SUFFICES ASSUME Init PROVE IInv
    OBVIOUS
  <2>1. Idle.kind = "idle"
    BY DEF Idle
  <2>2. DecisionsHold
    BY <2>1 DEF Init, DecisionsHold
  <2>3. QED
    BY <2>2, InitTyped DEF Init, IInv, SoundRow, NotifiedWindowEntered
<1>2. IInv /\ [Next]_vars => IInv'
  BY InvariantStep
<1>3. QED
  BY <1>1, <1>2, PTL DEF Spec

\* Every suspension, applied or scheduled, can be lifted by somebody and leaves nothing
\* behind: it has an author, no schedule, and its republication request an addressee.
THEOREM SuspensionsLiftable == Spec => []SuspensionsCanBeLifted
<1>1. IInv => SuspensionsCanBeLifted
  BY DEF IInv, SoundRow, SuspensionsCanBeLifted, SuspensionHasAuthor, NoScheduleOnceSuspended,
         RequestIsAnswerable
<1>2. QED
  BY <1>1, Invariant, PTL

\* Only opportunities of operators with a profile go to review and beyond.
THEOREM ProfileFirst == Spec => []ReviewedWithProfile
<1>1. IInv => ReviewedWithProfile
  BY DEF IInv, SoundRow, ReviewedWithProfile
<1>2. QED
  BY <1>1, Invariant, PTL

\* An announced opportunity is published and its window has been entered.
THEOREM FlagFitsWindow == Spec => []NotifiedWindowEntered
<1>1. IInv => NotifiedWindowEntered
  BY DEF IInv
<1>2. QED
  BY <1>1, Invariant, PTL

\* Decisions in flight stay sound for as long as they can land.
THEOREM DecisionsStaySound == Spec => []DecisionsHold
<1>1. IInv => DecisionsHold
  BY DEF IInv
<1>2. QED
  BY <1>1, Invariant, PTL

\* What a step does to the row and the calendar.
LEMMA StepEffect ==
  ASSUME IInv, [Next]_vars
  PROVE  \/ UNCHANGED <<row, today>>
         \/ RomeMidnight
         \/ /\ row.status = "absent" /\ row'.status = "draft"
            /\ row'.benefit \in Benefits /\ row'.notified = row.notified /\ today' = today
         \/ /\ today' = today
            /\ \E new \in Row : /\ row' = ResetNotified(row, new)
                                /\ Moves(new)
                                /\ row.notified => new.notified
<1> DEFINE Written(new) == /\ row' = ResetNotified(row, new)
                           /\ Moves(new)
                           /\ row.notified => new.notified
<1> USE DEF IInv
<1>1. CASE UNCHANGED vars
  BY <1>1 DEF vars
<1>2. ASSUME NEW dateFrom \in Days, NEW dateTo \in EndDates, NEW benefit \in Benefits,
             NEW placed \in Placements, CreateOpportunity(dateFrom, dateTo, benefit, placed)
      PROVE  /\ row.status = "absent" /\ row'.status = "draft"
             /\ row'.benefit \in Benefits /\ row'.notified = row.notified /\ today' = today
  <2>1. row \in Row
    BY DEF TypeOK
  <2>2. QED
    BY <1>2, <2>1 DEF CreateOpportunity, Row, world
<1>3. CASE RevokeOperator
  <2> DEFINE new == [row EXCEPT !.status = "suspended", !.suspendFrom = NoDate,
                                !.suspendedBy = "department"]
  <2>1. row \in Row /\ new \in Row
    BY DEF TypeOK, Row, Status, Actor
  <2>2. new.status = "suspended" /\ new.benefit = row.benefit /\ new.notified = row.notified
    BY <2>1 DEF Row
  <2>3. today' = today
    BY <1>3 DEF RevokeOperator
  <2>4. row.status = "published" => row' = ResetNotified(row, new)
    BY <1>3 DEF RevokeOperator
  <2>5. row.status # "published" => row' = row
    BY <1>3 DEF RevokeOperator
  <2> HIDE DEF new
  <2>6. row.status = "published" => Written(new)
    BY <2>2, <2>4 DEF Moves
  <2>7. QED
    BY <2>1, <2>3, <2>5, <2>6
<1>4. ASSUME NEW r \in Requests, OperatorCommits(r) \/ AdminCommits(r)
      PROVE  today' = today /\ (row' = row \/ \E new \in Row : Written(new))
  BY <1>4, CommitEffect DEF Misses, Lands, world
<1>5. CASE ApplyScheduledSuspension
  <2> DEFINE new == [row EXCEPT !.status = "suspended", !.suspendFrom = NoDate]
  <2>1. row \in Row /\ new \in Row
    BY DEF TypeOK, Row, Status
  <2>2. new.status = "suspended" /\ new.benefit = row.benefit /\ new.notified = row.notified
    BY <2>1 DEF Row
  <2>3. row.status = "published" /\ row' = ResetNotified(row, new) /\ today' = today
    BY <1>5 DEF ApplyScheduledSuspension, SuspensionDue, world
  <2> HIDE DEF new
  <2>4. QED
    BY <2>1, <2>2, <2>3 DEF Moves
<1>6. CASE EnqueuePublishedMessage
  <2> DEFINE new == [row EXCEPT !.notified = TRUE]
  <2>1. row \in Row /\ new \in Row
    BY DEF TypeOK, Row
  <2>2. new.status = row.status /\ new.benefit = row.benefit /\ new.notified
    BY <2>1 DEF Row
  <2>3. row' = ResetNotified(row, new) /\ today' = today
    BY <1>6 DEF EnqueuePublishedMessage, world
  <2> HIDE DEF new
  <2>4. QED
    BY <2>1, <2>2, <2>3 DEF Moves
<1>7. ASSUME NEW r \in Requests, OperatorDecides(r) \/ AdminDecides(r)
      PROVE  UNCHANGED <<row, today>>
  BY <1>7 DEF OperatorDecides, AdminDecides, Decide, world, OperatorUpdate, OperatorDelete,
       OperatorRequestTest, OperatorSuspend, OperatorCancel, OperatorRepublish,
       OperatorRequestRepublish, AdminApprove, AdminRequestChanges, AdminSuspend,
       AdminCancel, AdminRepublish, AdminRejectRepublish
<1>8. ASSUME NEW r \in Requests, refreshAll(r) \/ RequestFails(r)
      PROVE  UNCHANGED <<row, today>>
  BY <1>8 DEF refreshAll, RequestFails, world
<1>9. CASE CreateProfile \/ RefreshView \/ UtcMidnight
  BY <1>9 DEF CreateProfile, RefreshView, UtcMidnight
<1>10. QED
  BY <1>1, <1>2, <1>3, <1>4, <1>5, <1>6, <1>7, <1>8, <1>9 DEF Next, System

\* Every visibility window starts unannounced, however it is entered.
THEOREM WindowsEnterUnannounced == Spec => EntersUnannounced
<1>1. ASSUME IInv, [Next]_vars, ~Visible(row, today), Visible(row', today')
      PROVE  ~row'.notified
  <2>1. CASE UNCHANGED <<row, today>>
    BY <1>1, <2>1
  <2>2. CASE RomeMidnight
    <3>1. row' = row /\ today' = today + 1
      BY <2>2 DEF RomeMidnight
    <3>2. today \in Int /\ row.dateFrom \in Int /\ row.dateTo \in Int
      BY <1>1, CalendarAssumption DEF IInv, TypeOK, Row, Days, NoDate
    <3>3. row.dateFrom > today
      BY <1>1, <3>1, <3>2 DEF Visible
    <3>4. QED
      BY <1>1, <3>1, <3>2, <3>3 DEF IInv, NotifiedWindowEntered
  <2>3. CASE row'.status = "draft"
    BY <1>1, <2>3 DEF Visible
  <2>4. ASSUME NEW new \in Row, row' = ResetNotified(row, new)
        PROVE  ~row'.notified
    BY <1>1, <2>4, TriggerOnlyClears DEF IInv, TypeOK
  <2>5. QED
    BY <1>1, <2>1, <2>2, <2>3, <2>4, StepEffect
<1>2. IInv /\ [Next]_vars =>
        [~Visible(row, today) /\ Visible(row', today') => ~row'.notified]_vars
  BY <1>1
<1>3. QED
  BY <1>2, Invariant, PTL DEF Spec, EntersUnannounced

\* An opportunity that stays visible is announced once.
THEOREM WindowsAnnouncedOnce == Spec => AnnouncedOncePerWindow
<1>1. ASSUME IInv, [Next]_vars, row.notified, Visible(row, today), Visible(row', today')
      PROVE  row'.notified
  <2>1. row \in Row
    BY <1>1 DEF IInv, TypeOK
  <2>2. CASE UNCHANGED <<row, today>> \/ RomeMidnight
    BY <1>1, <2>2 DEF RomeMidnight
  <2>3. CASE row.status = "absent"
    BY <1>1, <2>3 DEF Visible
  <2>4. ASSUME NEW new \in Row, row' = ResetNotified(row, new), row.notified => new.notified,
               today' = today
        PROVE  row'.notified
    <3>1. Visible(new, today)
      BY <1>1, <2>1, <2>4, TriggerOnlyClears DEF Visible
    <3>2. QED
      BY <1>1, <2>1, <2>4, <3>1, TriggerOnlyClears
  <2>5. QED
    BY <1>1, <2>2, <2>3, <2>4, StepEffect
<1>2. IInv /\ [Next]_vars =>
        [row.notified /\ Visible(row, today) /\ Visible(row', today') => row'.notified]_vars
  BY <1>1
<1>3. QED
  BY <1>2, Invariant, PTL DEF Spec, AnnouncedOncePerWindow

\* The detailed specification implements the lifecycle: the status and the
\* benefit of the row, whatever is interleaved, move as OpportunityLifecycle
\* lets them.
THEOREM ImplementsLifecycle == Spec => FollowsLifecycle
<1>1. Init => Lifecycle!Init
  BY RequestsTyped DEF Init, Lifecycle!Init
<1>2. ASSUME IInv, [Next]_vars
      PROVE  [Lifecycle!Next]_<<row.status, row.benefit>>
  <2>1. row \in Row
    BY <1>2 DEF IInv, TypeOK
  <2>2. CASE row' = row
    BY <2>2
  <2>3. CASE row.status = "absent" /\ row'.status = "draft" /\ row'.benefit \in Benefits
    BY <2>3 DEF Lifecycle!Next, Lifecycle!Create
  <2>4. ASSUME NEW new \in Row, row' = ResetNotified(row, new), Moves(new)
        PROVE  [Lifecycle!Next]_<<row.status, row.benefit>>
    <3>1. row'.status = new.status /\ row'.benefit = new.benefit
      BY <2>1, <2>4, TriggerOnlyClears
    <3>2. row.benefit \in Benefits /\ new.benefit \in Benefits
      BY <2>1 DEF Row
    <3>3. QED
      BY <2>4, <3>1, <3>2
         DEF Moves, Lifecycle!Next, Lifecycle!Edit, Lifecycle!Submit, Lifecycle!AskChanges,
             Lifecycle!Approve, Lifecycle!Suspend, Lifecycle!Republish, Lifecycle!Amend,
             Lifecycle!Delete
  <2>5. QED
    BY <1>2, <2>2, <2>3, <2>4, StepEffect DEF RomeMidnight
<1>3. QED
  BY <1>1, <1>2, Invariant, PTL DEF Spec, FollowsLifecycle, Lifecycle!Spec

\* A request that has decided a write leaves that state by its own commit, or
\* without a change of the row.
LEMMA CommitsByItself ==
  ASSUME IInv, [Next]_vars, NEW r \in Requests, Commits(r, OperatorWrites)
  PROVE  row' = row \/ OperatorCommits(r) \/ AdminCommits(r)
<1> USE DEF IInv
<1>1. pending[r].kind \in OperatorWrites /\ pending'[r].kind # pending[r].kind
  BY DEF Commits
<1>2. pending' # pending /\ pending' # Touched
  BY <1>1, WriteTyped
<1>3. pending[r] # Idle
  BY <1>1 DEF OperatorWrites, Idle
<1>4. ASSUME NEW q \in Requests, OperatorCommits(q) \/ AdminCommits(q)
      PROVE  q = r
  <2>1. CASE Misses(q)
    BY <1>1, <2>1 DEF Misses, TypeOK
  <2>2. CASE ~Misses(q)
    <3>1. pending' = [Touched EXCEPT ![q] = After(q)]
      BY <1>4, <2>2, CommitEffect DEF Lands
    <3>2. q # r => pending'[r] = Touched[r]
      BY <3>1, WriteTyped
    <3>3. QED
      BY <1>1, <3>2, WriteTyped
  <2>3. QED
    BY <2>1, <2>2
<1>5. ASSUME NEW q \in Requests, OperatorDecides(q) \/ AdminDecides(q)
      PROVE  row' = row
  BY <1>5 DEF OperatorDecides, AdminDecides, Decide, world, OperatorUpdate, OperatorDelete,
       OperatorRequestTest, OperatorSuspend, OperatorCancel, OperatorRepublish,
       OperatorRequestRepublish, AdminApprove, AdminRequestChanges, AdminSuspend,
       AdminCancel, AdminRepublish, AdminRejectRepublish
<1>6. ASSUME NEW q \in Requests, refreshAll(q) \/ RequestFails(q)
      PROVE  row' = row
  BY <1>6 DEF refreshAll, RequestFails, world
<1>7. CASE UNCHANGED vars
  BY <1>7 DEF vars
<1>8. ASSUME NEW dateFrom \in Days, NEW dateTo \in EndDates, NEW benefit \in Benefits,
             NEW placed \in Placements, CreateOpportunity(dateFrom, dateTo, benefit, placed)
      PROVE  FALSE
  BY <1>2, <1>8 DEF CreateOpportunity
<1>9. CASE RevokeOperator
  BY <1>2, <1>9 DEF RevokeOperator
<1>10. CASE CreateProfile \/ RefreshView \/ RomeMidnight \/ UtcMidnight
  BY <1>10 DEF CreateProfile, RefreshView, RomeMidnight, UtcMidnight
<1>11. CASE ApplyScheduledSuspension \/ EnqueuePublishedMessage
  BY <1>2, <1>11 DEF ApplyScheduledSuspension, EnqueuePublishedMessage
<1>12. QED
  BY <1>4, <1>5, <1>6, <1>7, <1>8, <1>9, <1>10, <1>11 DEF Next, System

\* An operator's commit changes what the operator is entitled to.
LEMMA OperatorEntitled ==
  ASSUME IInv, [Next]_vars, NEW r \in Requests, Commits(r, OperatorWrites)
  PROVE  row' = row \/ \E new \in Row : row' = ResetNotified(row, new) /\ Entitled(r, new)
<1>1. CASE row' = row
  BY <1>1
<1>2. CASE OperatorCommits(r) \/ AdminCommits(r)
  BY <1>2, CommitEffect DEF IInv, Misses, Lands
<1>3. QED
  BY <1>1, <1>2, CommitsByItself

\* No operator request cancels or moves a suspension the department has
\* scheduled, however long the request was in flight.
THEOREM DepartmentScheduleStays == Spec => DepartmentScheduleHolds
<1>1. ASSUME IInv, [Next]_vars, NEW r \in Requests, Commits(r, OperatorWrites),
             row.suspendFrom # NoDate, row.suspendedBy = "department"
      PROVE  row'.suspendFrom = row.suspendFrom /\ row'.suspendedBy = "department"
  <2>1. CASE row' = row
    BY <1>1, <2>1
  <2>2. ASSUME NEW new \in Row, row' = ResetNotified(row, new), Entitled(r, new)
        PROVE  row'.suspendFrom = row.suspendFrom /\ row'.suspendedBy = "department"
    <3>1. new.suspendFrom = row.suspendFrom /\ new.suspendedBy = "department"
      BY <1>1, <2>2 DEF Entitled, Commits
    <3>2. QED
      BY <1>1, <2>2, <3>1, TriggerOnlyClears DEF IInv, TypeOK
  <2>3. QED
    BY <1>1, <2>1, <2>2, OperatorEntitled
<1>2. IInv /\ [Next]_vars =>
        [(\E r \in Requests : Commits(r, OperatorWrites))
           /\ row.suspendFrom # NoDate /\ row.suspendedBy = "department"
         => row'.suspendFrom = row.suspendFrom /\ row'.suspendedBy = "department"]_vars
  BY <1>1
<1>3. QED
  BY <1>2, Invariant, PTL DEF Spec, DepartmentScheduleHolds

\* An edit lands on the version it was decided on: the status it leaves is the
\* one it found, or review.
THEOREM EditsKeepStatus == Spec => EditKeepsStatus
<1>1. ASSUME IInv, [Next]_vars, NEW r \in Requests, Commits(r, {"update"})
      PROVE  row'.status \in {row.status, "test_pending"}
  <2>1. Commits(r, OperatorWrites) /\ pending[r].kind = "update"
    BY <1>1 DEF Commits, OperatorWrites
  <2>2. CASE row' = row
    BY <2>2
  <2>3. ASSUME NEW new \in Row, row' = ResetNotified(row, new), Entitled(r, new)
        PROVE  row'.status \in {row.status, "test_pending"}
    <3>1. new.status \in {row.status, "test_pending"}
      BY <2>1, <2>3 DEF Entitled
    <3>2. QED
      BY <1>1, <2>3, <3>1, TriggerOnlyClears DEF IInv, TypeOK
  <2>4. QED
    BY <1>1, <2>1, <2>2, <2>3, OperatorEntitled
<1>2. IInv /\ [Next]_vars =>
        [(\E r \in Requests : Commits(r, {"update"}))
           => row'.status \in {row.status, "test_pending"}]_vars
  BY <1>1
<1>3. QED
  BY <1>2, Invariant, PTL DEF Spec, EditKeepsStatus

\* A deletion takes what citizens see away only if another request wrote the
\* row, or a day began, after it had looked.
THEOREM LiveAreSpared == Spec => DeletionsSpareTheLive
<1>1. ASSUME IInv, NEW r \in Requests, Commits(r, {"delete"}), Visible(row, today)
      PROVE  ~pending[r].fresh \/ pending[r].readOn < today
  <2>1. pending[r].kind = "delete"
    BY <1>1 DEF Commits
  <2>2. today \in Int /\ pending[r].readOn \in Int
    BY <1>1 DEF IInv, TypeOK, Request, Days, NoDate
  <2>3. QED
    BY <1>1, <2>1, <2>2 DEF IInv, DecisionsHold
<1>2. IInv /\ [Next]_vars =>
        [\A r \in Requests :
           Commits(r, {"delete"}) /\ row'.status = "deleted" /\ Visible(row, today)
           => ~pending[r].fresh \/ pending[r].readOn < today]_vars
  BY <1>1
<1>3. QED
  BY <1>2, Invariant, PTL DEF Spec, DeletionsSpareTheLive

(***************************************************************************)
(* What Places assumes of an opportunity.  Its state, as Places sees it:   *)
(***************************************************************************)
SeenEdits == [r \in Requests |-> AsEdit(pending[r])]
SeenSubmissions == [r \in Requests |-> AsSubmission(pending[r])]
SeenOpportunity == [o \in {"row"} |-> AsOpportunity]

\* A request that is no edit or submission is nothing to Places; a write of the
\* row makes an edit stale and a submission overtaken.
LEMMA RequestSeen ==
  ASSUME NEW p
  PROVE  /\ p.kind # "update" => AsEdit(p) = PlacesView!NoEdit
         /\ p.kind # "requestTest" => AsSubmission(p) = PlacesView!NoSubmission
         /\ p.kind = "update" =>
              AsEdit(p) = [opportunity |-> "row", fresh |-> p.fresh,
                           to |-> [status |-> p.status, nationalTerritory |-> p.placed,
                                   placeIds |-> {}]]
         /\ p.kind = "requestTest" =>
              AsSubmission(p) = [opportunity |-> "row", from |-> p.status, changed |-> ~p.fresh]
BY DEF AsEdit, AsSubmission, PlacesView!NoEdit, PlacesView!NoSubmission, PlacesView!Absent

\* What an edit and a submission have read, once the row is written.
LEMMA StaleEdit ==
  ASSUME NEW e, NEW f \in BOOLEAN, NEW to, e = [opportunity |-> "row", fresh |-> f, to |-> to]
  PROVE  [e EXCEPT !.fresh = FALSE] = [opportunity |-> "row", fresh |-> FALSE, to |-> to]
<1> DEFINE Edit == [opportunity : {"row"}, fresh : BOOLEAN, to : {to}]
           x == [e EXCEPT !.fresh = FALSE]
           y == [opportunity |-> "row", fresh |-> FALSE, to |-> to]
<1>1. e \in Edit
  OBVIOUS
<1>2. x \in Edit /\ x.opportunity = "row" /\ x.fresh = FALSE /\ x.to = to
  BY <1>1
<1>3. y \in Edit /\ y.opportunity = "row" /\ y.fresh = FALSE /\ y.to = to
  OBVIOUS
<1>4. x = y
  <2> HIDE DEF x, y
  <2> QED
    BY <1>2, <1>3
<1>5. QED
  BY <1>4

LEMMA OvertakenSubmission ==
  ASSUME NEW s, NEW c \in BOOLEAN, NEW from, s = [opportunity |-> "row", from |-> from, changed |-> c]
  PROVE  [s EXCEPT !.changed = TRUE] = [opportunity |-> "row", from |-> from, changed |-> TRUE]
<1> DEFINE Submission == [opportunity : {"row"}, from : {from}, changed : BOOLEAN]
           x == [s EXCEPT !.changed = TRUE]
           y == [opportunity |-> "row", from |-> from, changed |-> TRUE]
<1>1. s \in Submission
  OBVIOUS
<1>2. x \in Submission /\ x.opportunity = "row" /\ x.from = from /\ x.changed = TRUE
  BY <1>1
<1>3. y \in Submission /\ y.opportunity = "row" /\ y.from = from /\ y.changed = TRUE
  OBVIOUS
<1>4. x = y
  <2> HIDE DEF x, y
  <2> QED
    BY <1>2, <1>3
<1>5. QED
  BY <1>4

LEMMA TouchedSeen ==
  ASSUME TypeOK
  PROVE  /\ PlacesView!EditsMiss("row") = [r \in Requests |-> AsEdit(Touched[r])]
         /\ PlacesView!SubmissionsMiss({"row"}) = [r \in Requests |-> AsSubmission(Touched[r])]
<1>1. ASSUME NEW r \in Requests
      PROVE  /\ Touched[r].kind = pending[r].kind /\ Touched[r].fresh = FALSE
             /\ Touched[r].status = pending[r].status /\ Touched[r].placed = pending[r].placed
  BY DEF TypeOK, Touched, Request
<1>2. ASSUME NEW r \in Requests
      PROVE  AsEdit(Touched[r]) = IF AsEdit(pending[r]).opportunity = "row"
                                  THEN [AsEdit(pending[r]) EXCEPT !.fresh = FALSE]
                                  ELSE AsEdit(pending[r])
  <2>1. CASE pending[r].kind = "update"
    <3> DEFINE to == [status |-> pending[r].status, nationalTerritory |-> pending[r].placed,
                      placeIds |-> {}]
    <3>1. AsEdit(pending[r]) = [opportunity |-> "row", fresh |-> pending[r].fresh, to |-> to]
      BY <2>1 DEF AsEdit
    <3>2. AsEdit(Touched[r]) = [opportunity |-> "row", fresh |-> FALSE, to |-> to]
      BY <1>1, <2>1 DEF AsEdit
    <3> HIDE DEF to
    <3>3. [AsEdit(pending[r]) EXCEPT !.fresh = FALSE]
            = [opportunity |-> "row", fresh |-> FALSE, to |-> to]
      <4> DEFINE e == AsEdit(pending[r])
      <4>1. e = [opportunity |-> "row", fresh |-> pending[r].fresh, to |-> to]
            /\ pending[r].fresh \in BOOLEAN
        BY <3>1 DEF TypeOK, Request
      <4> HIDE DEF e
      <4>2. [e EXCEPT !.fresh = FALSE] = [opportunity |-> "row", fresh |-> FALSE, to |-> to]
        BY <4>1, StaleEdit
      <4>3. QED
        BY <4>2 DEF e
    <3>4. AsEdit(pending[r]).opportunity = "row"
      BY <3>1
    <3>5. QED
      BY <3>2, <3>3, <3>4
  <2>2. CASE pending[r].kind # "update"
    BY <1>1, <2>2 DEF AsEdit
  <2>3. QED
    BY <2>1, <2>2
<1>3. ASSUME NEW r \in Requests
      PROVE  AsSubmission(Touched[r]) = IF AsSubmission(pending[r]).opportunity \in {"row"}
                                        THEN [AsSubmission(pending[r]) EXCEPT !.changed = TRUE]
                                        ELSE AsSubmission(pending[r])
  <2>1. CASE pending[r].kind = "requestTest"
    <3>1. AsSubmission(pending[r])
            = [opportunity |-> "row", from |-> pending[r].status, changed |-> ~pending[r].fresh]
      BY <2>1 DEF AsSubmission
    <3>2. AsSubmission(Touched[r])
            = [opportunity |-> "row", from |-> pending[r].status, changed |-> TRUE]
      BY <1>1, <2>1 DEF AsSubmission
    <3>3. [AsSubmission(pending[r]) EXCEPT !.changed = TRUE]
            = [opportunity |-> "row", from |-> pending[r].status, changed |-> TRUE]
      <4> DEFINE s == AsSubmission(pending[r])
                 from == pending[r].status
                 c == ~pending[r].fresh
      <4>1. s = [opportunity |-> "row", from |-> from, changed |-> c] /\ c \in BOOLEAN
        BY <3>1 DEF TypeOK, Request
      <4> HIDE DEF s, from, c
      <4>2. [s EXCEPT !.changed = TRUE] = [opportunity |-> "row", from |-> from, changed |-> TRUE]
        BY <4>1, OvertakenSubmission
      <4>3. QED
        BY <4>2 DEF s, from
    <3>4. AsSubmission(pending[r]).opportunity = "row"
      BY <3>1
    <3>5. QED
      BY <3>2, <3>3, <3>4
  <2>2. CASE pending[r].kind # "requestTest"
    BY <1>1, <2>2 DEF AsSubmission
  <2>3. QED
    BY <2>1, <2>2
<1>4. QED
  BY <1>2, <1>3 DEF PlacesView!EditsMiss, PlacesView!SubmissionsMiss

\* The mapped state is that of one opportunity and no place.
LEMMA WriteSeen ==
  ASSUME NEW new,
         row'.status = new.status, row'.placed = new.placed
  PROVE  PlacesView!Writes("row", [status |-> new.status, nationalTerritory |-> new.placed,
                                   placeIds |-> {}])
BY DEF PlacesView!Writes, PlacesView!DeletionsMiss, AsOpportunity

\* A write that moves the status and makes what the others read stale is a move.
LEMMA MoveSeen ==
  ASSUME TypeOK, NEW new \in Row, row' = ResetNotified(row, new),
         new.placed = row.placed, <<row.status, new.status>> \in PlacesView!Moves,
         \A q \in Requests : \/ pending'[q] = Touched[q]
                             \/ /\ pending[q].kind \notin {"update", "requestTest"}
                                /\ pending'[q].kind \in {"idle", "refresh"}
  PROVE  PlacesView!MoveStatus("row", new.status)
<1>1. row'.status = new.status /\ row'.placed = row.placed
  BY DEF TypeOK, Row, ResetNotified
<1>2. ASSUME NEW q \in Requests
      PROVE  /\ AsEdit(pending'[q]) = AsEdit(Touched[q])
             /\ AsSubmission(pending'[q]) = AsSubmission(Touched[q])
  BY WriteTyped, RequestSeen
<1>3. /\ SeenEdits' = PlacesView!EditsMiss("row")
      /\ SeenSubmissions' = PlacesView!SubmissionsMiss({"row"})
  BY <1>2, TouchedSeen DEF SeenEdits, SeenSubmissions
<1>4. PlacesView!Writes("row", [AsOpportunity EXCEPT !.status = new.status])
  <2>1. [AsOpportunity EXCEPT !.status = new.status]
          = [status |-> new.status, nationalTerritory |-> row.placed, placeIds |-> {}]
    BY DEF AsOpportunity
  <2>2. QED
    BY <1>1, <2>1, WriteSeen
<1>5. SeenOpportunity["row"].status = row.status
  BY DEF SeenOpportunity, AsOpportunity
<1>6. QED
  BY <1>3, <1>4, <1>5 DEF PlacesView!MoveStatus, SeenEdits, SeenSubmissions, SeenOpportunity, AsOpportunity

\* Places takes no notice of a step that keeps the status, the placement and what
\* edits and submissions have read.
LEMMA UnseenStep ==
  ASSUME row'.status = row.status, row'.placed = row.placed,
         \A q \in Requests : \/ pending'[q] = pending[q]
                             \/ /\ pending[q].kind \notin {"update", "requestTest"}
                                /\ pending'[q].kind \notin {"update", "requestTest"}
  PROVE  UNCHANGED <<SeenOpportunity, SeenEdits, SeenSubmissions>>
<1>1. ASSUME NEW q \in Requests
      PROVE  /\ AsEdit(pending'[q]) = AsEdit(pending[q])
             /\ AsSubmission(pending'[q]) = AsSubmission(pending[q])
  BY RequestSeen
<1>2. QED
  BY <1>1 DEF SeenOpportunity, AsOpportunity, SeenEdits, SeenSubmissions

\* A request that is reset to idle fails as the edit or submission it is.
LEMMA EndSeen ==
  ASSUME TypeOK, NEW r \in Requests, pending' = [pending EXCEPT ![r] = Idle], row' = row
  PROVE  PlacesView!Next \/ UNCHANGED <<SeenOpportunity, SeenEdits, SeenSubmissions>>
<1> DEFINE p == pending[r]
<1>1. Idle.kind = "idle" /\ pending'[r] = Idle /\ \A q \in Requests \ {r} : pending'[q] = pending[q]
  BY DEF Idle, TypeOK
<1>2. UNCHANGED SeenOpportunity
  BY DEF SeenOpportunity, AsOpportunity
<1>3. CASE p.kind = "update"
  <2>a. /\ AsEdit(pending'[r]) = PlacesView!NoEdit
        /\ AsSubmission(pending'[r]) = AsSubmission(pending[r])
    BY <1>1, <1>3, RequestSeen
  <2>b. ASSUME NEW q \in Requests
        PROVE  /\ AsEdit(pending'[q]) = IF q = r THEN PlacesView!NoEdit ELSE AsEdit(pending[q])
               /\ AsSubmission(pending'[q]) = AsSubmission(pending[q])
    BY <1>1, <2>a
  <2>c. SeenEdits' = [SeenEdits EXCEPT ![r] = PlacesView!NoEdit]
    BY <2>b DEF SeenEdits
  <2>1. SeenEdits' = [SeenEdits EXCEPT ![r] = PlacesView!NoEdit] /\ SeenSubmissions' = SeenSubmissions
    BY <2>b, <2>c DEF SeenSubmissions
  <2>2. SeenEdits[r].opportunity # "none"
    BY <1>3, RequestSeen DEF SeenEdits
  <2>3. PlacesView!EditFails(r)
    BY <1>2, <2>1, <2>2 DEF PlacesView!EditFails, SeenOpportunity, SeenEdits, SeenSubmissions
  <2>4. QED
    BY <2>3 DEF PlacesView!Next
<1>4. CASE p.kind = "requestTest"
  <2>a. /\ AsSubmission(pending'[r]) = PlacesView!NoSubmission
        /\ AsEdit(pending'[r]) = AsEdit(pending[r])
    BY <1>1, <1>4, RequestSeen
  <2>b. ASSUME NEW q \in Requests
        PROVE  /\ AsSubmission(pending'[q]) = IF q = r THEN PlacesView!NoSubmission ELSE AsSubmission(pending[q])
               /\ AsEdit(pending'[q]) = AsEdit(pending[q])
    BY <1>1, <2>a
  <2>c. SeenSubmissions' = [SeenSubmissions EXCEPT ![r] = PlacesView!NoSubmission]
    BY <2>b DEF SeenSubmissions
  <2>1. SeenSubmissions' = [SeenSubmissions EXCEPT ![r] = PlacesView!NoSubmission] /\ SeenEdits' = SeenEdits
    BY <2>b, <2>c DEF SeenEdits
  <2>2. SeenSubmissions[r].opportunity # "none"
    BY <1>4, RequestSeen DEF SeenSubmissions
  <2>3. PlacesView!SubmissionFails(r)
    BY <1>2, <2>1, <2>2
       DEF PlacesView!SubmissionFails, SeenOpportunity, SeenEdits, SeenSubmissions
  <2>4. QED
    BY <2>3 DEF PlacesView!Next
<1>5. CASE p.kind \notin {"update", "requestTest"}
  BY <1>1, <1>5, UnseenStep
<1>6. QED
  BY <1>3, <1>4, <1>5

\* A new opportunity finds no edit or submission that could still land.
LEMMA CreateSeen ==
  ASSUME IInv, NEW dateFrom \in Days, NEW dateTo \in EndDates, NEW benefit \in Benefits,
         NEW placed \in Placements, CreateOpportunity(dateFrom, dateTo, benefit, placed)
  PROVE  PlacesView!CreateOpportunity("row", placed, {})
<1> USE DEF IInv
<1>1. /\ row.status = "absent" /\ pending' = pending
      /\ row'.status = "draft" /\ row'.placed = placed
  BY DEF CreateOpportunity, TypeOK, Row
<1>2. ASSUME NEW r \in Requests
      PROVE  pending[r].kind \in {"update", "requestTest"} => Touched[r] = pending[r]
  <2>1. pending[r].kind \in {"update", "requestTest"} => pending[r].fresh = FALSE
    BY <1>1 DEF DecisionsHold, TypeOK, Request
  <2>2. Touched[r] = [pending[r] EXCEPT !.fresh = FALSE]
    BY WriteTyped
  <2>3. QED
    BY <2>1, <2>2 DEF TypeOK, Request
<1>3. ASSUME NEW r \in Requests
      PROVE  /\ AsEdit(Touched[r]) = AsEdit(pending[r])
             /\ AsSubmission(Touched[r]) = AsSubmission(pending[r])
  BY <1>2, WriteTyped, RequestSeen
<1>4. /\ SeenEdits' = PlacesView!EditsMiss("row")
      /\ SeenSubmissions' = PlacesView!SubmissionsMiss({"row"})
  BY <1>1, <1>3, TouchedSeen DEF SeenEdits, SeenSubmissions
<1>5. PlacesView!Writes("row", [status |-> "draft", nationalTerritory |-> placed, placeIds |-> {}])
  <2> DEFINE new == [status |-> "draft", placed |-> placed]
  <2>1. row'.status = new.status /\ row'.placed = new.placed
    BY <1>1
  <2>2. PlacesView!Writes("row", [status |-> new.status, nationalTerritory |-> new.placed,
                                  placeIds |-> {}])
    BY <2>1, WriteSeen
  <2>3. QED
    BY <2>2
<1>6. SeenOpportunity["row"].status = "absent"
  BY <1>1 DEF SeenOpportunity, AsOpportunity
<1>7. QED
  BY <1>4, <1>5, <1>6
     DEF PlacesView!CreateOpportunity, SeenEdits, SeenSubmissions, SeenOpportunity

\* An edit and a submission decide as Places has it; the rest it does not see.
LEMMA DecideSeen ==
  ASSUME IInv, NEW r \in Requests, OperatorDecides(r) \/ AdminDecides(r)
  PROVE  PlacesView!Next \/ UNCHANGED <<SeenOpportunity, SeenEdits, SeenSubmissions>>
<1> USE DEF IInv
<1>1. ASSUME NEW request, Decide(r, request)
      PROVE  /\ row' = row /\ UNCHANGED SeenOpportunity
             /\ pending[r].kind = "idle" /\ pending'[r] = request
             /\ \A q \in Requests \ {r} : pending'[q] = pending[q]
  BY <1>1 DEF Decide, Idle, TypeOK, SeenOpportunity, AsOpportunity
<1>2. ASSUME NEW request, Decide(r, request), request.kind \notin {"update", "requestTest"}
      PROVE  UNCHANGED <<SeenOpportunity, SeenEdits, SeenSubmissions>>
  BY <1>1, <1>2, UnseenStep
<1>3. ASSUME NEW dateFrom \in Days, NEW dateTo \in EndDates, NEW benefit \in Benefits,
             NEW placed \in Placements, OperatorUpdate(r, dateFrom, dateTo, benefit, placed)
      PROVE  PlacesView!OperatorUpdate(r, "row", placed, {})
  <2> DEFINE status == DisplayStatus(row, today)
             to == IF BindingChange(status, benefit) THEN "test_pending" ELSE row.status
  <2>1. PICK request : /\ Decide(r, request) /\ request.kind = "update"
                       /\ request.status = to /\ request.placed = placed /\ request.fresh = TRUE
    BY <1>3 DEF OperatorUpdate
  <2>2. status \in Replaceable
    BY <1>3 DEF OperatorUpdate
  <2>3. row.status \in PlacesView!Replaceable /\ to \in PlacesView!Replaced(row.status)
    BY <2>2 DEF DisplayStatus, Replaceable, BindingChange, PlacesView!Replaceable,
                PlacesView!Replaced, TypeOK, Row, Status
  <2> HIDE DEF to
  <2>4. AsEdit(request) = [opportunity |-> "row", fresh |-> TRUE,
                           to |-> [status |-> to, nationalTerritory |-> placed, placeIds |-> {}]]
    BY <2>1, RequestSeen
  <2>5. /\ SeenEdits' = [SeenEdits EXCEPT ![r] = AsEdit(request)]
        /\ SeenSubmissions' = SeenSubmissions
        /\ SeenEdits[r] = PlacesView!NoEdit
        /\ SeenOpportunity' = SeenOpportunity
    BY <1>1, <2>1, RequestSeen DEF SeenEdits, SeenSubmissions
  <2>6. SeenOpportunity["row"].status = row.status
    BY DEF SeenOpportunity, AsOpportunity
  <2>7. QED
    BY <2>3, <2>4, <2>5, <2>6
       DEF PlacesView!OperatorUpdate, SeenEdits, SeenSubmissions, SeenOpportunity
<1>4. CASE OperatorRequestTest(r)
  <2> DEFINE request == [Write("requestTest") EXCEPT !.status = row.status, !.fresh = TRUE]
  <2>1. /\ Decide(r, request) /\ request.kind = "requestTest"
        /\ request.status = row.status /\ request.fresh = TRUE
    BY <1>4 DEF OperatorRequestTest, Write, Idle
  <2> HIDE DEF request
  <2>2. row.status \in {"draft", "test_rejected"} /\ row.placed
    BY <1>4 DEF OperatorRequestTest
  <2>3. AsSubmission(request) = [opportunity |-> "row", from |-> row.status, changed |-> FALSE]
    BY <2>1, RequestSeen
  <2>4. /\ SeenSubmissions' = [SeenSubmissions EXCEPT ![r] = AsSubmission(request)]
        /\ SeenEdits' = SeenEdits
        /\ SeenSubmissions[r] = PlacesView!NoSubmission
        /\ SeenOpportunity' = SeenOpportunity
    BY <1>1, <2>1, RequestSeen DEF SeenEdits, SeenSubmissions
  <2>5. SeenOpportunity["row"].status = row.status /\ SeenOpportunity["row"].nationalTerritory
    BY <2>2 DEF SeenOpportunity, AsOpportunity
  <2>6. PlacesView!OperatorRequestTest(r, "row")
    BY <2>2, <2>3, <2>4, <2>5
       DEF PlacesView!OperatorRequestTest, PlacesView!Placed, SeenEdits, SeenSubmissions,
           SeenOpportunity
  <2>7. QED
    BY <2>6 DEF PlacesView!Next
<1>5. ASSUME NEW kind \in (OperatorWrites \cup AdminWrites) \ {"update", "requestTest"},
             \/ Decide(r, Write(kind)) \/ Decide(r, WriteThenRefresh(kind))
      PROVE  UNCHANGED <<SeenOpportunity, SeenEdits, SeenSubmissions>>
  BY <1>2, <1>5 DEF Write, WriteThenRefresh, Idle
<1>6. ASSUME NEW kind \in {"operatorSuspend", "adminSuspend"}, NEW day \in Days,
             Decide(r, Suspension(kind, day))
      PROVE  UNCHANGED <<SeenOpportunity, SeenEdits, SeenSubmissions>>
  BY <1>2, <1>6 DEF Suspension, Write, WriteThenRefresh, Idle
<1>7. ASSUME NEW dateFrom \in Days \cup {NoDate}, AdminApprove(r, dateFrom)
      PROVE  UNCHANGED <<SeenOpportunity, SeenEdits, SeenSubmissions>>
  <2> DEFINE request == [Write("approve") EXCEPT !.dateFrom = dateFrom,
                                                 !.refresh = row.dateFrom <= today]
  <2>1. Decide(r, request) /\ request.kind = "approve"
    BY <1>7 DEF AdminApprove, Write, Idle
  <2> HIDE DEF request
  <2>2. QED
    BY <1>2, <2>1
<1>8. CASE OperatorDelete(r)
  <2> DEFINE request == [Write("delete") EXCEPT !.fresh = TRUE, !.readOn = today]
  <2>1. Decide(r, request) /\ request.kind = "delete"
    BY <1>8 DEF OperatorDelete, Write, Idle
  <2> HIDE DEF request
  <2>2. QED
    BY <1>2, <2>1
<1>9. \A dateFrom \in Days, dateTo \in EndDates, benefit \in Benefits, placed \in Placements :
        OperatorUpdate(r, dateFrom, dateTo, benefit, placed) => PlacesView!Next
  BY <1>3, InputsAssumption DEF PlacesView!Next
<1>10. QED
  BY <1>4, <1>5, <1>6, <1>7, <1>8, <1>9
     DEF OperatorDecides, AdminDecides, OperatorSuspend, OperatorCancel,
         OperatorRepublish, OperatorRequestRepublish, AdminRequestChanges, AdminSuspend,
         AdminCancel, AdminRepublish, AdminRejectRepublish, OperatorWrites, AdminWrites

\* A commit misses, lands as the edit or submission it is, or moves the status.
LEMMA CommitSeen ==
  ASSUME IInv, NEW r \in Requests, OperatorCommits(r) \/ AdminCommits(r)
  PROVE  PlacesView!Next \/ UNCHANGED <<SeenOpportunity, SeenEdits, SeenSubmissions>>
<1> USE DEF IInv
<1> DEFINE p == pending[r]
<1>1. CASE Misses(r)
  BY <1>1, EndSeen DEF Misses
<1>2. CASE ~Misses(r)
  <2>1. PICK new \in Row : Lands(r, new) /\ Seen(r, new)
    BY <1>2, CommitEffect
  <2>2. row'.status = new.status /\ row'.placed = new.placed
    BY <2>1 DEF Lands, TypeOK, Row, ResetNotified
  <2>3. /\ pending'[r] = After(r) /\ After(r).kind \in {"idle", "refresh"}
        /\ \A q \in Requests \ {r} : pending'[q] = Touched[q]
    BY <2>1, WriteTyped DEF Lands
  <2>4. AsEdit(pending'[r]) = PlacesView!NoEdit /\ AsSubmission(pending'[r]) = PlacesView!NoSubmission
    BY <2>3, RequestSeen
  <2>5. Touched[r].kind = p.kind
    BY WriteTyped
  <2>6. CASE p.kind = "update"
    <3>1. p.fresh /\ new.status = p.status /\ new.placed = p.placed
      BY <2>1, <2>6 DEF Seen
    <3>2. SeenEdits[r] = [opportunity |-> "row", fresh |-> p.fresh,
                          to |-> [status |-> new.status, nationalTerritory |-> new.placed,
                                  placeIds |-> {}]]
      BY <2>6, <3>1, RequestSeen DEF SeenEdits
    <3>3. SeenEdits' = [PlacesView!EditsMiss("row") EXCEPT ![r] = PlacesView!NoEdit]
      BY <2>3, <2>4, TouchedSeen DEF SeenEdits
    <3>4. AsSubmission(Touched[r]) = PlacesView!NoSubmission
      BY <2>5, <2>6, RequestSeen
    <3>5. SeenSubmissions' = PlacesView!SubmissionsMiss({"row"})
      BY <2>3, <2>4, <3>4, TouchedSeen DEF SeenSubmissions
    <3>6. PlacesView!Writes("row", SeenEdits[r].to)
      BY <2>2, <3>2, WriteSeen
    <3>7. PlacesView!updateByIdAndOperatorId(r)
      BY <3>1, <3>2, <3>3, <3>5, <3>6
         DEF PlacesView!updateByIdAndOperatorId, SeenEdits, SeenSubmissions
    <3>8. QED
      BY <3>7 DEF PlacesView!Next
  <2>7. CASE p.kind = "requestTest"
    <3>1. row.status = p.status /\ new.status = "test_pending" /\ new.placed = row.placed
      BY <2>1, <2>7 DEF Seen
    <3>2. SeenSubmissions[r].opportunity = "row" /\ SeenSubmissions[r].from = row.status
      BY <2>7, <3>1, RequestSeen DEF SeenSubmissions
    <3>3. SeenSubmissions' =
            [PlacesView!SubmissionsMiss({"row"}) EXCEPT ![r] = PlacesView!NoSubmission]
      BY <2>3, <2>4, TouchedSeen DEF SeenSubmissions
    <3>4. AsEdit(Touched[r]) = PlacesView!NoEdit
      BY <2>5, <2>7, RequestSeen
    <3>5. SeenEdits' = PlacesView!EditsMiss("row")
      BY <2>3, <2>4, <3>4, TouchedSeen DEF SeenEdits
    <3>6. PlacesView!Writes("row", [AsOpportunity EXCEPT !.status = "test_pending"])
      <4>1. [AsOpportunity EXCEPT !.status = "test_pending"]
              = [status |-> new.status, nationalTerritory |-> new.placed, placeIds |-> {}]
        BY <3>1 DEF AsOpportunity
      <4>2. QED
        BY <2>2, <4>1, WriteSeen
    <3>7. SeenOpportunity["row"] = AsOpportunity /\ AsOpportunity.status = row.status
      BY DEF SeenOpportunity, AsOpportunity
    <3>8. PlacesView!updateStatusByIdAndOperatorId(r)
      BY <3>2, <3>3, <3>5, <3>6, <3>7
         DEF PlacesView!updateStatusByIdAndOperatorId, SeenEdits, SeenSubmissions, SeenOpportunity
    <3>9. QED
      BY <3>8 DEF PlacesView!Next
  <2>8. CASE p.kind \notin {"update", "requestTest"}
    <3>1. new.placed = row.placed /\ <<row.status, new.status>> \in PlacesView!Moves
      BY <2>1, <2>8 DEF Seen
    <3>2. PlacesView!MoveStatus("row", new.status)
      BY <2>1, <2>3, <2>8, <3>1, MoveSeen DEF Lands
    <3>3. new.status \in PlacesView!Status
      BY DEF Row, Status, PlacesView!Status
    <3>4. QED
      BY <3>2, <3>3 DEF PlacesView!Next
  <2>9. QED
    BY <2>6, <2>7, <2>8
<1>3. QED
  BY <1>1, <1>2

\* The suspension of what is published, by the revocation or the cron job.
LEMMA SuspensionSeen ==
  ASSUME IInv, RevokeOperator \/ ApplyScheduledSuspension
  PROVE  PlacesView!Next \/ UNCHANGED <<SeenOpportunity, SeenEdits, SeenSubmissions>>
<1> USE DEF IInv
<1>1. CASE row' = row /\ pending' = pending
  BY <1>1, UnseenStep
<1>2. ASSUME row.status = "published", pending' = Touched,
             NEW new \in Row, row' = ResetNotified(row, new),
             new.status = "suspended", new.placed = row.placed
      PROVE  PlacesView!Next
  <2>1. <<row.status, new.status>> \in PlacesView!Moves
    BY <1>2 DEF PlacesView!Moves
  <2>2. PlacesView!MoveStatus("row", new.status)
    BY <1>2, <2>1, MoveSeen
  <2>3. QED
    BY <1>2, <2>2 DEF PlacesView!Next, PlacesView!Status
<1>3. CASE RevokeOperator /\ row.status = "published"
  <2> DEFINE new == [row EXCEPT !.status = "suspended", !.suspendFrom = NoDate,
                                !.suspendedBy = "department"]
  <2>1. new \in Row /\ new.status = "suspended" /\ new.placed = row.placed
    BY DEF TypeOK, Row, Status, Actor
  <2>2. row' = ResetNotified(row, new) /\ pending' = Touched
    BY <1>3 DEF RevokeOperator
  <2> HIDE DEF new
  <2>3. QED
    BY <1>2, <1>3, <2>1, <2>2
<1>4. CASE ApplyScheduledSuspension
  <2> DEFINE new == [row EXCEPT !.status = "suspended", !.suspendFrom = NoDate]
  <2>1. new \in Row /\ new.status = "suspended" /\ new.placed = row.placed
    BY DEF TypeOK, Row, Status
  <2>2. row' = ResetNotified(row, new) /\ pending' = Touched /\ row.status = "published"
    BY <1>4 DEF ApplyScheduledSuspension, SuspensionDue
  <2> HIDE DEF new
  <2>3. QED
    BY <1>2, <2>1, <2>2
<1>5. QED
  BY <1>1, <1>3, <1>4 DEF RevokeOperator

\* Whatever happens to one opportunity is, for the places component, something it
\* has accounted for.
THEOREM ImplementsPlaces == Spec => ActsAsPlacesAssume
<1>1. Init => PlacesView!Init
  <2> SUFFICES ASSUME Init PROVE PlacesView!Init
    OBVIOUS
  <2>1. Idle.kind = "idle"
    BY DEF Idle
  <2>2. AsEdit(Idle) = PlacesView!NoEdit /\ AsSubmission(Idle) = PlacesView!NoSubmission
    BY <2>1, RequestSeen
  <2>3. AsOpportunity = PlacesView!Absent
    BY DEF Init, AsOpportunity, PlacesView!Absent
  <2>4. QED
    BY <2>2, <2>3 DEF Init, PlacesView!Init
<1>2. ASSUME IInv, [Next]_vars
      PROVE  PlacesView!Next \/ UNCHANGED <<SeenOpportunity, SeenEdits, SeenSubmissions>>
  <2> USE <1>2 DEF IInv
  <2>1. CASE UNCHANGED vars
    BY <2>1, UnseenStep DEF vars
  <2>2. ASSUME NEW dateFrom \in Days, NEW dateTo \in EndDates, NEW benefit \in Benefits,
               NEW placed \in Placements, CreateOpportunity(dateFrom, dateTo, benefit, placed)
        PROVE  PlacesView!Next
    BY <2>2, CreateSeen, InputsAssumption DEF PlacesView!Next
  <2>3. ASSUME NEW r \in Requests, refreshAll(r) \/ RequestFails(r)
        PROVE  PlacesView!Next \/ UNCHANGED <<SeenOpportunity, SeenEdits, SeenSubmissions>>
    BY <2>3, EndSeen DEF refreshAll, RequestFails
  <2>4. CASE CreateProfile \/ RefreshView \/ RomeMidnight \/ UtcMidnight
    BY <2>4, UnseenStep DEF CreateProfile, RefreshView, RomeMidnight, UtcMidnight
  <2>5. CASE EnqueuePublishedMessage
    <3>1. row'.status = row.status /\ row'.placed = row.placed /\ pending' = pending
      BY <2>5 DEF EnqueuePublishedMessage, ResetNotified, TypeOK, Row
    <3>2. QED
      BY <3>1, UnseenStep
  <2>6. QED
    BY <2>1, <2>2, <2>3, <2>4, <2>5, DecideSeen, CommitSeen, SuspensionSeen DEF Next, System
<1>3. IInv /\ [Next]_vars => [PlacesView!Next]_(PlacesView!vars)
  BY <1>2 DEF PlacesView!vars, SeenOpportunity, SeenEdits, SeenSubmissions
<1>4. QED
  BY <1>1, <1>3, Invariant, PTL DEF Spec, ActsAsPlacesAssume, PlacesView!Spec
(***************************************************************************)
(* What the editor of the portal counts with.                              *)
(***************************************************************************)
\* The editor sees a published or suspended row as on offer, and any other by its
\* stored status; what has no schedule stays what it is on every day.
LEMMA ShownOf ==
  ASSUME NEW ro \in Row, NEW day \in Days
  PROVE  /\ ro.status \in {"published", "suspended"} => Shown(ro, day).status \in OfferShown
         /\ ro.status \notin {"published", "suspended"} => Shown(ro, day).status = ro.status
         /\ Shown(ro, day).scheduled = (ro.suspendFrom # NoDate)
         /\ ro.suspendFrom = NoDate =>
              Shown(ro, day) = [status |-> IF ro.status = "suspended" THEN "published"
                                           ELSE ro.status,
                                scheduled |-> FALSE]
<1>1. ~(NoDate > day)
  BY CalendarAssumption DEF Days, NoDate
<1>2. /\ ro.status # "published" => DisplayStatus(ro, day) = ro.status
      /\ ro.status = "published" =>
           DisplayStatus(ro, day) \in {"scheduled", "scheduled_suspension", "published"}
      /\ ro.status = "published" /\ ro.suspendFrom = NoDate =>
           DisplayStatus(ro, day) \in {"scheduled", "published"}
  BY <1>1 DEF DisplayStatus
<1>3. ro.status \in Status /\ "scheduled" \notin Status
  BY DEF Row, Status
<1>4. /\ Shown(ro, day).status =
           IF DisplayStatus(ro, day) \in {"scheduled", "suspended"} THEN "published"
           ELSE DisplayStatus(ro, day)
      /\ Shown(ro, day).scheduled = (ro.suspendFrom # NoDate)
      /\ Shown(ro, day) = [status |-> Shown(ro, day).status,
                           scheduled |-> Shown(ro, day).scheduled]
  BY DEF Shown
<1>5. ro.status \in {"published", "suspended"} => Shown(ro, day).status \in OfferShown
  BY <1>2, <1>4 DEF OfferShown
<1>6. ro.status \notin {"published", "suspended"} => Shown(ro, day).status = ro.status
  <2> SUFFICES ASSUME ro.status \notin {"published", "suspended"}
               PROVE  Shown(ro, day).status = ro.status
    OBVIOUS
  <2>1. DisplayStatus(ro, day) = ro.status
    BY <1>2
  <2>2. ro.status \notin {"scheduled", "suspended"}
    BY <1>3
  <2>3. QED
    BY <1>4, <2>1, <2>2
<1>7. ASSUME ro.suspendFrom = NoDate
      PROVE  Shown(ro, day).status = (IF ro.status = "suspended" THEN "published" ELSE ro.status)
  <2>1. CASE ro.status \in {"published", "suspended"}
    BY <1>2, <1>4, <1>7, <2>1
  <2>2. QED
    BY <1>6, <2>1
<1>8. ASSUME ro.suspendFrom = NoDate
      PROVE  Shown(ro, day) = [status |-> IF ro.status = "suspended" THEN "published"
                                           ELSE ro.status,
                                scheduled |-> FALSE]
  <2>1. Shown(ro, day).scheduled = FALSE
    BY <1>4, <1>8
  <2>2. QED
    BY <1>4, <1>7, <1>8, <2>1
<1>9. QED
  BY <1>4, <1>5, <1>6, <1>8

\* A step that nobody has to read the row again after leaves its status, its
\* schedule and its benefit alone.
LEMMA FreshSeesStatus ==
  ASSUME IInv, [Next]_vars, NEW r \in Requests,
         pending[r].kind = "update", pending[r].fresh, pending'[r].fresh
  PROVE  /\ row'.status = row.status /\ row'.benefit = row.benefit
         /\ row'.suspendFrom = row.suspendFrom
<1> USE DEF IInv
<1>1. row \in Row /\ row.status # "absent"
  BY DEF TypeOK, DecisionsHold
<1>2. ~Touched[r].fresh /\ \A q \in Requests : ~After(q).fresh
  <2>1. pending[r] \in Request /\ Touched[r] = [pending[r] EXCEPT !.fresh = FALSE]
    BY WriteTyped DEF TypeOK
  <2>2. ~Touched[r].fresh
    BY <2>1 DEF Request
  <2>3. ~Idle.fresh /\ ~Write("refresh").fresh
    BY DEF Idle, Write
  <2>4. QED
    BY <2>2, <2>3 DEF After
<1>3. pending' # Touched
  BY <1>2
<1>4. ASSUME NEW q \in Requests, OperatorCommits(q) \/ AdminCommits(q)
      PROVE  row' = row
  <2>1. ASSUME NEW new \in Row, Lands(q, new)
        PROVE  FALSE
    <3>1. pending'[r] = IF q = r THEN After(q) ELSE Touched[r]
      BY <2>1, WriteTyped DEF Lands
    <3>2. QED
      BY <1>2, <3>1
  <2>2. QED
    BY <1>4, <2>1, CommitEffect DEF Misses
<1>5. ASSUME NEW q \in Requests, OperatorDecides(q) \/ AdminDecides(q)
      PROVE  row' = row
  BY <1>5 DEF OperatorDecides, AdminDecides, Decide, world, OperatorUpdate, OperatorDelete,
       OperatorRequestTest, OperatorSuspend, OperatorCancel, OperatorRepublish,
       OperatorRequestRepublish, AdminApprove, AdminRequestChanges, AdminSuspend,
       AdminCancel, AdminRepublish, AdminRejectRepublish
<1>6. ASSUME NEW q \in Requests, refreshAll(q) \/ RequestFails(q)
      PROVE  row' = row
  BY <1>6 DEF refreshAll, RequestFails, world
<1>7. ASSUME NEW dateFrom \in Days, NEW dateTo \in EndDates, NEW benefit \in Benefits,
             NEW placed \in Placements, CreateOpportunity(dateFrom, dateTo, benefit, placed)
      PROVE  FALSE
  BY <1>1, <1>7 DEF CreateOpportunity
<1>8. CASE RevokeOperator \/ ApplyScheduledSuspension
  BY <1>3, <1>8 DEF RevokeOperator, ApplyScheduledSuspension
<1>9. CASE EnqueuePublishedMessage
  BY <1>1, <1>9 DEF EnqueuePublishedMessage, ResetNotified, Row
<1>10. CASE CreateProfile \/ RefreshView \/ RomeMidnight \/ UtcMidnight \/ UNCHANGED vars
  BY <1>10 DEF CreateProfile, RefreshView, RomeMidnight, UtcMidnight, vars
<1>11. QED
  BY <1>4, <1>5, <1>6, <1>7, <1>8, <1>9, <1>10 DEF Next, System

\* The writers of an opportunity are those its editor counts with, and the version
\* it echoes tells what they changed.
THEOREM ActsAsEditorCounts == Spec => ActsAsEditorAssumes
<1> DEFINE from == Shown(row, today)
           to == Shown(row', today')
           same == row'.benefit = row.benefit
<1>1. ASSUME IInv, [Next]_vars
      PROVE  /\ row \in Row /\ row' \in Row /\ today \in Days /\ today' \in Days
             /\ row.suspendFrom # NoDate => row.status = "published"
             /\ row'.suspendFrom # NoDate => row'.status = "published"
  <2>1. TypeOK' /\ SoundRow(row)'
    BY <1>1, InvariantStep DEF IInv
  <2>2. row' \in Row /\ today' \in Days
    BY <2>1 DEF TypeOK
  <2>3. row'.suspendFrom # NoDate => row'.status = "published"
    BY <2>1 DEF SoundRow
  <2>4. QED
    BY <1>1, <2>2, <2>3 DEF IInv, TypeOK, SoundRow
<1>2. ASSUME IInv, [Next]_vars
      PROVE  /\ row.status \in {"published", "suspended"} => from.status \in OfferShown
             /\ row.status \notin {"published", "suspended"} =>
                  from = [status |-> row.status, scheduled |-> FALSE]
             /\ row'.status \in {"published", "suspended"} => to.status \in OfferShown
             /\ row'.status \notin {"published", "suspended"} =>
                  to = [status |-> row'.status, scheduled |-> FALSE]
  <2> HIDE DEF from, to
  <2>1. /\ row.status \in {"published", "suspended"} => from.status \in OfferShown
        /\ row'.status \in {"published", "suspended"} => to.status \in OfferShown
    BY <1>1, <1>2, ShownOf DEF from, to
  <2>2. row.status \notin {"published", "suspended"} =>
          from = [status |-> row.status, scheduled |-> FALSE]
    BY <1>1, <1>2, ShownOf DEF from
  <2>3. row'.status \notin {"published", "suspended"} =>
          to = [status |-> row'.status, scheduled |-> FALSE]
    BY <1>1, <1>2, ShownOf DEF to
  <2>4. QED
    BY <2>1, <2>2, <2>3
<1>3. ASSUME IInv, [Next]_vars, row'.status = row.status, row'.suspendFrom = row.suspendFrom
      PROVE  SameUntilADate(from, to)
  <2>1. CASE row.suspendFrom = NoDate
    BY <1>1, <1>3, <2>1, ShownOf DEF SameUntilADate
  <2>2. CASE row.suspendFrom # NoDate
    <3>1. row.status = "published" /\ row'.status = "published"
      BY <1>1, <1>3, <2>2
    <3>2. from.status \in OfferShown /\ to.status \in OfferShown
      BY <1>2, <1>3, <3>1
    <3>3. from.scheduled = TRUE /\ to.scheduled = TRUE
      BY <1>1, <1>3, <2>2, ShownOf
    <3>4. QED
      BY <3>2, <3>3 DEF SameUntilADate
  <2>3. QED
    BY <2>1, <2>2
<1>4. ASSUME IInv, [Next]_vars, row.status # "absent", row'.status # "deleted"
      PROVE  EditorMove(from, to, same)
  <2>1. CASE row'.status = row.status /\ same
    BY <1>2, <1>4, <2>1 DEF EditorMove
  <2>2. ASSUME NEW new \in Row, row' = ResetNotified(row, new), Moves(new)
        PROVE  EditorMove(from, to, same)
    <3>1. /\ row'.status = new.status /\ row'.benefit = new.benefit
          /\ row'.suspendFrom = new.suspendFrom
      BY <1>1, <1>4, <2>2, TriggerOnlyClears
    <3>2. CASE /\ row.status \in {"test_pending", "test_rejected"} /\ row'.status = "published"
               /\ same /\ row'.suspendFrom = NoDate
      <4>1. to = [status |-> "published", scheduled |-> FALSE]
        BY <1>1, <1>4, <3>2, ShownOf
      <4>2. from = [status |-> row.status, scheduled |-> FALSE]
        BY <1>2, <1>4, <3>2
      <4> HIDE DEF from, to
      <4>3. QED
        BY <3>2, <4>1, <4>2 DEF EditorMove
    <3>3. CASE /\ row.status \in {"published", "suspended"} /\ row'.status = "test_pending"
               /\ ~same /\ row.suspendFrom = NoDate
      <4>1. from = [status |-> "published", scheduled |-> FALSE]
        BY <1>1, <1>4, <3>3, ShownOf
      <4>2. to = [status |-> "test_pending", scheduled |-> FALSE]
        BY <1>2, <1>4, <3>3
      <4> HIDE DEF from, to
      <4>3. QED
        BY <3>3, <4>1, <4>2 DEF EditorMove
    <3>4. CASE /\ row.status \in {"draft", "test_rejected", "test_pending"}
               /\ row'.status \in {"draft", "test_rejected", "test_pending"}
      <4>1. /\ from = [status |-> row.status, scheduled |-> FALSE]
            /\ to = [status |-> row'.status, scheduled |-> FALSE]
        BY <1>2, <1>4, <3>4
      <4> HIDE DEF from, to
      <4>2. QED
        BY <2>2, <3>1, <3>4, <4>1 DEF Moves, EditorMove
    <3>5. CASE {row.status, row'.status} \subseteq {"published", "suspended"} /\ same
      BY <1>2, <1>4, <3>5 DEF EditorMove
    <3>6. QED
      BY <1>4, <2>1, <2>2, <3>1, <3>2, <3>3, <3>4, <3>5 DEF Moves
  <2>3. QED
    BY <1>4, <2>1, <2>2, StepEffect DEF RomeMidnight
<1>5. ASSUME IInv, [Next]_vars, NEW r \in Requests,
             pending[r].kind = "update", pending[r].fresh, pending'[r].fresh
      PROVE  same /\ SameUntilADate(from, to)
  BY <1>3, <1>5, FreshSeesStatus
<1>6. IInv /\ [Next]_vars =>
        [LET before == Shown(row, today)
             after == Shown(row', today') IN
         /\ row.status # "absent" /\ row'.status # "deleted" =>
              EditorMove(before, after, row'.benefit = row.benefit)
         /\ \A r \in Requests :
              pending[r].kind = "update" /\ pending[r].fresh /\ pending'[r].fresh =>
                row'.benefit = row.benefit /\ SameUntilADate(before, after)]_vars
  BY <1>4, <1>5
<1>7. QED
  BY <1>6, Invariant, PTL DEF Spec, ActsAsEditorAssumes
===============================================================================
