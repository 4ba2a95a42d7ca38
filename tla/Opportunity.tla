------------------------------ MODULE Opportunity ------------------------------
(***************************************************************************)
(* One opportunity row of the ced-portal-be database and everything that   *)
(* writes it: the operator and department use cases, the revocation        *)
(* cascade, the pg_cron job that applies scheduled suspensions, the job    *)
(* that announces a publication, and the materialized view citizens        *)
(* search.                                                                 *)
(*                                                                         *)
(* Every use case is two database round trips.  The first reads the row    *)
(* and decides (the actions named after a use case); the second is one     *)
(* UPDATE whose WHERE clause repeats part of what was decided (the actions *)
(* named after a repository method).  Other requests, the cron jobs and    *)
(* midnight may come in between.  A third, best-effort step refreshes the  *)
(* view.  A request can be lost before any of its steps.                   *)
(*                                                                         *)
(* Days are numbers.  Publication dates are Europe/Rome calendar days      *)
(* (today); suspension dates are compared with the UTC day (utcToday),     *)
(* which changes after the Roman one.                                      *)
(***************************************************************************)
EXTENDS Integers

CONSTANTS
  Requests,    \* the requests the portal serves at the same time
  MaxDay,      \* bound: the last day of the modelled calendar
  Benefits,    \* the benefits an opportunity can offer
  EndDates,    \* the dateTo values clients send, NoDate for none
  Placements   \* whether clients send a place or national territory

NoDate == 0
Days == 1..MaxDay

ASSUME CalendarAssumption == MaxDay \in Nat \ {0} /\ EndDates \subseteq Days \cup {NoDate}
ASSUME InputsAssumption == Benefits # {} /\ Placements \subseteq BOOLEAN

VARIABLES
  row,         \* the opportunity and its benefits
  hasProfile,  \* the operator has a profile row
  revoked,     \* the operator row is revoked
  pending,     \* what each request in flight has decided to write
  listed,      \* opportunity_materialized_view holds the opportunity
  today,       \* the Europe/Rome date
  utcToday     \* the UTC date

vars == <<row, hasProfile, revoked, pending, listed, today, utcToday>>
world == <<hasProfile, revoked, listed, today, utcToday>>

Status == {"absent", "draft", "test_pending", "test_rejected", "published",
           "suspended", "deleted"}

Actor == {"none", "operator", "department"}

Row == [status : Status, dateFrom : Days, dateTo : Days \cup {NoDate},
        suspendFrom : Days \cup {NoDate}, suspendedBy : Actor,
        republishAsked : BOOLEAN, benefit : Benefits, placed : BOOLEAN,
        notified : BOOLEAN]

OperatorWrites == {"update", "delete", "requestTest", "operatorSuspend",
                   "operatorCancel", "operatorRepublish", "requestRepublish"}
AdminWrites == {"approve", "requestChanges", "adminSuspend", "adminCancel",
                "adminRepublish", "rejectRepublish"}

(***************************************************************************)
(* A request in flight.  status, dates, benefit and placed are arguments   *)
(* of the UPDATE it is about to run; refresh says that it will refresh the *)
(* views; fresh that nobody has set updated_at since the request read the  *)
(* row.  Only the update use case looks at that, by the expectedUpdatedAt  *)
(* of its client; of submissions and deletions fresh is kept for the       *)
(* properties alone, and so is readOn, the day a deletion was decided.     *)
(***************************************************************************)
Request == [kind : {"idle", "refresh"} \cup OperatorWrites \cup AdminWrites,
            status : Status, dateFrom : Days \cup {NoDate}, dateTo : Days \cup {NoDate},
            suspendFrom : Days \cup {NoDate}, benefit : Benefits, placed : BOOLEAN,
            fresh : BOOLEAN, refresh : BOOLEAN, readOn : Days \cup {NoDate}]

AnyBenefit == CHOOSE b \in Benefits : TRUE

Idle == [kind |-> "idle", status |-> "absent", dateFrom |-> NoDate, dateTo |-> NoDate,
         suspendFrom |-> NoDate, benefit |-> AnyBenefit, placed |-> FALSE,
         fresh |-> FALSE, refresh |-> FALSE, readOn |-> NoDate]

Write(kind) == [Idle EXCEPT !.kind = kind]
WriteThenRefresh(kind) == [Idle EXCEPT !.kind = kind, !.refresh = TRUE]

(***************************************************************************)
(* Derived data.                                                           *)
(***************************************************************************)
Visible(r, day) ==
  /\ r.status = "published"
  /\ r.dateFrom <= day
  /\ r.dateTo = NoDate \/ day <= r.dateTo

\* What the use cases see in place of the stored status.
DisplayStatus(r, day) ==
  IF r.status # "published" THEN r.status
  ELSE IF r.dateFrom > day THEN "scheduled"
  ELSE IF r.suspendFrom > day THEN "scheduled_suspension"
  ELSE "published"

ResetWhenHidden(old, new) == [new EXCEPT !.notified = new.notified /\ Visible(new, today)]
ResetAlways(old, new) == [new EXCEPT !.notified = FALSE]
ResetOnEdit(old, new) ==
  [new EXCEPT !.notified = new.notified /\ Visible(old, today) /\ Visible(new, today)
                             /\ new.dateTo = old.dateTo]

\* BEFORE UPDATE trigger: outside the visibility window, or on entering it,
\* the opportunity is not notified.
ResetNotified(old, new) ==
  [new EXCEPT !.notified = new.notified /\ Visible(old, today) /\ Visible(new, today)]

(***************************************************************************)
(* The two halves of a use case.                                           *)
(***************************************************************************)
Decide(r, request) ==
  /\ pending[r] = Idle
  /\ pending' = [pending EXCEPT ![r] = request]
  /\ UNCHANGED <<row, world>>

\* A slip: updated_at stays what it is.
TouchesNothing == pending

\* Every writer of the row sets updated_at, so what other requests have read is
\* stale from then on.
Touched == [q \in Requests |-> [pending[q] EXCEPT !.fresh = FALSE]]

After(r) == IF pending[r].refresh THEN Write("refresh") ELSE Idle

\* The CHECKs of the table.
PassesChecks(new) ==
  /\ new.suspendFrom # NoDate => new.status = "published"
  /\ new.republishAsked => new.status = "suspended"

\* UPDATE ... WHERE guard: no row matched means a ConflictError, a row that does
\* not pass the checks a GenericError.
CompareAndSet(r, kind, guard, new) ==
  /\ pending[r].kind = kind
  /\ \/ /\ guard /\ PassesChecks(new)
        /\ row' = ResetNotified(row, new)
        /\ pending' = [Touched EXCEPT ![r] = After(r)]
     \/ /\ ~(guard /\ PassesChecks(new))
        /\ row' = row
        /\ pending' = [pending EXCEPT ![r] = Idle]
  /\ UNCHANGED world

(***************************************************************************)
(* The rows the view selects.                                              *)
(***************************************************************************)
RefreshedView == Visible(row, today) /\ hasProfile

(***************************************************************************)
(* The UPDATEs' common parts.                                              *)
(***************************************************************************)
\* Cancelling a schedule clears its author too.
Unscheduled == [row EXCEPT !.suspendFrom = NoDate, !.suspendedBy = "none"]

Republished == [row EXCEPT !.status = "published", !.suspendFrom = NoDate,
                           !.suspendedBy = "none", !.republishAsked = FALSE]

DueWhileVisible ==
  Visible(row, today) /\ row.suspendFrom # NoDate /\ row.suspendFrom <= utcToday

SuspensionDue == row.status = "published" /\ row.suspendFrom # NoDate /\ row.suspendFrom <= utcToday

(***************************************************************************)
(* Slips the checks must catch: each is the definition it is named after   *)
(* with one guard, assignment or reset lost.  No action of Next uses them. *)
(***************************************************************************)
cancelAnyone(r) ==
  CompareAndSet(r, "operatorCancel", row.status = "published" /\ row.suspendFrom # NoDate,
    Unscheduled)

cancelAnyStatus(r) ==
  CompareAndSet(r, "operatorCancel", row.suspendedBy = "operator", Unscheduled)

approveAnything(r) ==
  LET p == pending[r] IN
  CompareAndSet(r, "approve", row.status # "absent",
    [row EXCEPT !.status = "published",
                !.dateFrom = IF p.dateFrom = NoDate THEN @ ELSE p.dateFrom])

approveOverwritingDate(r) ==
  CompareAndSet(r, "approve", row.status \in {"test_pending", "test_rejected"},
    [row EXCEPT !.status = "published", !.dateFrom = pending[r].dateFrom])

AppliedWithoutTouch ==
  /\ SuspensionDue
  /\ row' = ResetNotified(row, [row EXCEPT !.status = "suspended", !.suspendFrom = NoDate])
  /\ pending' = pending
  /\ UNCHANGED world

RefreshAddingRows ==
  /\ listed' = (listed \/ RefreshedView)
  /\ UNCHANGED <<row, hasProfile, revoked, pending, today, utcToday>>

(***************************************************************************)
(* Creation, profile.                                                      *)
(***************************************************************************)
CreateOpportunity(dateFrom, dateTo, benefit, placed) ==
  /\ row.status = "absent"
  /\ row' = [row EXCEPT !.status = "draft", !.dateFrom = dateFrom, !.dateTo = dateTo,
                        !.benefit = benefit, !.placed = placed]
  /\ UNCHANGED <<pending, world>>

CreateProfile ==
  /\ ~hasProfile
  /\ hasProfile' = TRUE
  /\ UNCHANGED <<row, revoked, pending, listed, today, utcToday>>

(***************************************************************************)
(* Operator use cases.  The operator's read excludes deleted rows.         *)
(***************************************************************************)
BindingChange(status, benefit) ==
  status \in {"scheduled", "published", "suspended"} /\ benefit # row.benefit

Replaceable == {"draft", "test_rejected", "scheduled", "published", "suspended"}

OperatorUpdate(r, dateFrom, dateTo, benefit, placed) ==
  LET status == DisplayStatus(row, today) IN
  /\ status \in Replaceable
  /\ status = "published" => /\ dateTo = NoDate \/ dateTo > today
                             /\ dateFrom = row.dateFrom
  /\ Decide(r, [kind |-> "update",
                status |-> IF BindingChange(status, benefit) THEN "test_pending" ELSE row.status,
                dateFrom |-> dateFrom, dateTo |-> dateTo, suspendFrom |-> NoDate,
                benefit |-> benefit, placed |-> placed, fresh |-> TRUE,
                refresh |-> status = "published" \/ (status = "scheduled" /\ dateFrom <= today),
                readOn |-> NoDate])

updateByIdAndOperatorId(r) ==
  LET p == pending[r] IN
  CompareAndSet(r, "update", p.fresh,
    [row EXCEPT !.status = p.status, !.dateFrom = p.dateFrom, !.dateTo = p.dateTo,
                !.benefit = p.benefit, !.placed = p.placed,
                !.republishAsked = @ /\ p.status = "suspended"])

\* A slip: the stored status is looked at in place of the derived one.
DeletePublished(r) ==
  /\ row.status \in {"draft", "published", "suspended", "test_rejected"}
  /\ Decide(r, [Write("delete") EXCEPT !.fresh = TRUE, !.readOn = today])

OperatorDelete(r) ==
  /\ DisplayStatus(row, today) \in {"draft", "scheduled", "suspended", "test_rejected"}
  /\ Decide(r, [Write("delete") EXCEPT !.fresh = TRUE, !.readOn = today])

deleteByIdAndOperatorId(r) ==
  CompareAndSet(r, "delete", row.status \in {"draft", "published", "suspended", "test_rejected"},
    [row EXCEPT !.status = "deleted", !.republishAsked = FALSE])

OperatorRequestTest(r) ==
  /\ row.status \in {"draft", "test_rejected"}
  /\ row.placed
  /\ hasProfile
  /\ Decide(r, [Write("requestTest") EXCEPT !.status = row.status, !.fresh = TRUE])

\* Its expectedStatus is the status read.
updateStatusByIdAndOperatorId(r) ==
  CompareAndSet(r, "requestTest", row.status = pending[r].status,
    [row EXCEPT !.status = "test_pending"])

\* A date after the UTC day schedules the suspension, any other is immediate.
Suspension(kind, day) ==
  IF day > utcToday THEN [Write(kind) EXCEPT !.suspendFrom = day] ELSE WriteThenRefresh(kind)

OperatorSuspend(r, day) ==
  /\ DisplayStatus(row, today) = "published"
  /\ row.suspendFrom = NoDate
  /\ Decide(r, Suspension("operatorSuspend", day))

suspendByIdAndOperatorId(r) ==
  LET day == pending[r].suspendFrom IN
  CompareAndSet(r, "operatorSuspend", row.status = "published" /\ row.suspendFrom = NoDate,
    IF day = NoDate THEN [row EXCEPT !.status = "suspended", !.suspendedBy = "operator"]
                    ELSE [row EXCEPT !.suspendFrom = day, !.suspendedBy = "operator"])

OperatorCancel(r) ==
  /\ row.status # "deleted"
  /\ row.suspendFrom # NoDate
  /\ row.suspendedBy = "operator"
  /\ Decide(r, Write("operatorCancel"))

cancelScheduledSuspensionByIdAndOperatorId(r) ==
  CompareAndSet(r, "operatorCancel",
    row.status = "published" /\ row.suspendFrom # NoDate /\ row.suspendedBy = "operator",
    Unscheduled)

OperatorRepublish(r) ==
  /\ row.status = "suspended"
  /\ row.suspendedBy = "operator"
  /\ row.dateTo = NoDate \/ row.dateTo > today
  /\ Decide(r, WriteThenRefresh("operatorRepublish"))

\* The WHERE clause repeats the status, not the author of the suspension.
republishByIdAndOperatorId(r) ==
  CompareAndSet(r, "operatorRepublish", row.status = "suspended", Republished)

OperatorRequestRepublish(r) ==
  /\ row.status = "suspended"
  /\ row.suspendedBy = "department"
  /\ ~row.republishAsked
  /\ Decide(r, Write("requestRepublish"))

requestRepublishByIdAndOperatorId(r) ==
  CompareAndSet(r, "requestRepublish",
    row.status = "suspended" /\ row.suspendedBy = "department" /\ ~row.republishAsked,
    [row EXCEPT !.republishAsked = TRUE])

(***************************************************************************)
(* Department use cases.                                                   *)
(***************************************************************************)
\* The department may move dateFrom (NoDate: it does not); the refresh is
\* decided on the dateFrom read.
AdminApprove(r, dateFrom) ==
  /\ row.status \in {"test_pending", "test_rejected"}
  /\ Decide(r, [Write("approve") EXCEPT !.dateFrom = dateFrom,
                                        !.refresh = row.dateFrom <= today])

updateStatusById(r) ==
  LET p == pending[r] IN
  CompareAndSet(r, "approve", row.status \in {"test_pending", "test_rejected"},
    [row EXCEPT !.status = "published",
                !.dateFrom = IF p.dateFrom = NoDate THEN @ ELSE p.dateFrom])

AdminRequestChanges(r) ==
  /\ row.status = "test_pending"
  /\ Decide(r, Write("requestChanges"))

requestChangesById(r) ==
  CompareAndSet(r, "requestChanges", row.status = "test_pending",
    [row EXCEPT !.status = "test_rejected"])

\* A pending schedule does not stop the department.
AdminSuspend(r, day) ==
  /\ DisplayStatus(row, today) \in {"published", "scheduled_suspension"}
  /\ Decide(r, Suspension("adminSuspend", day))

suspendById(r) ==
  LET day == pending[r].suspendFrom IN
  CompareAndSet(r, "adminSuspend", row.status = "published",
    [row EXCEPT !.status = IF day = NoDate THEN "suspended" ELSE @,
                !.suspendFrom = day, !.suspendedBy = "department"])

AdminCancel(r) ==
  /\ row.suspendFrom # NoDate
  /\ Decide(r, Write("adminCancel"))

cancelScheduledSuspensionById(r) ==
  CompareAndSet(r, "adminCancel", row.status = "published" /\ row.suspendFrom # NoDate,
    Unscheduled)

AdminRepublish(r) ==
  /\ row.status = "suspended"
  /\ Decide(r, WriteThenRefresh("adminRepublish"))

republishById(r) ==
  CompareAndSet(r, "adminRepublish", row.status = "suspended", Republished)

AdminRejectRepublish(r) ==
  /\ row.status = "suspended"
  /\ row.republishAsked
  /\ Decide(r, Write("rejectRepublish"))

rejectRepublishById(r) ==
  CompareAndSet(r, "rejectRepublish", row.status = "suspended" /\ row.republishAsked,
    [row EXCEPT !.republishAsked = FALSE])

\* The revocation of the operator suspends what it has published, in one
\* transaction; its refresh is one more RefreshView.
RevokeOperator ==
  /\ ~revoked
  /\ revoked' = TRUE
  /\ IF row.status = "published"
     THEN /\ row' = ResetNotified(row, [row EXCEPT !.status = "suspended",
                                          !.suspendFrom = NoDate, !.suspendedBy = "department"])
          /\ pending' = Touched
     ELSE UNCHANGED <<row, pending>>
  /\ UNCHANGED <<hasProfile, listed, today, utcToday>>

(***************************************************************************)
(* Views, jobs, calendar.                                                  *)
(***************************************************************************)
\* The 15-minute pg_cron job.
RefreshView ==
  /\ listed' = RefreshedView
  /\ UNCHANGED <<row, hasProfile, revoked, pending, today, utcToday>>

\* A use case's own refresh; its failure is swallowed (see RequestFails).
refreshAll(r) ==
  /\ pending[r].kind = "refresh"
  /\ pending' = [pending EXCEPT ![r] = Idle]
  /\ listed' = RefreshedView
  /\ UNCHANGED <<row, hasProfile, revoked, today, utcToday>>

\* A query fails or the process stops: the request ends where it is.
RequestFails(r) ==
  /\ pending[r] # Idle
  /\ pending' = [pending EXCEPT ![r] = Idle]
  /\ UNCHANGED <<row, world>>

\* The daily pg_cron job (00:05 UTC).
ApplyScheduledSuspension ==
  /\ SuspensionDue
  /\ row' = ResetNotified(row, [row EXCEPT !.status = "suspended", !.suspendFrom = NoDate])
  /\ pending' = Touched
  /\ UNCHANGED world

\* Enqueues the "published" email and sets publishing_notified_at; updated_at
\* does not move.
EnqueuePublishedMessage ==
  /\ ~row.notified
  /\ Visible(row, today)
  /\ hasProfile
  /\ listed
  /\ row' = ResetNotified(row, [row EXCEPT !.notified = TRUE])
  /\ UNCHANGED <<pending, world>>

RomeMidnight ==
  /\ today = utcToday
  /\ today < MaxDay
  /\ today' = today + 1
  /\ UNCHANGED <<row, hasProfile, revoked, pending, listed, utcToday>>

UtcMidnight ==
  /\ utcToday < today
  /\ utcToday' = today
  /\ UNCHANGED <<row, hasProfile, revoked, pending, listed, today>>

(***************************************************************************)
(* Specification.                                                          *)
(***************************************************************************)
Init ==
  /\ row = [status |-> "absent", dateFrom |-> 1, dateTo |-> NoDate,
            suspendFrom |-> NoDate, suspendedBy |-> "none", republishAsked |-> FALSE,
            benefit |-> AnyBenefit, placed |-> FALSE, notified |-> FALSE]
  /\ hasProfile = FALSE
  /\ revoked = FALSE
  /\ pending = [r \in Requests |-> Idle]
  /\ listed = FALSE
  /\ today = 1
  /\ utcToday = 1

OperatorDecides(r) ==
  \/ \E dateFrom \in Days, dateTo \in EndDates, benefit \in Benefits, placed \in Placements :
       OperatorUpdate(r, dateFrom, dateTo, benefit, placed)
  \/ OperatorDelete(r)
  \/ OperatorRequestTest(r)
  \/ \E day \in Days : OperatorSuspend(r, day)
  \/ OperatorCancel(r)
  \/ OperatorRepublish(r)
  \/ OperatorRequestRepublish(r)

AdminDecides(r) ==
  \/ \E dateFrom \in Days \cup {NoDate} : AdminApprove(r, dateFrom)
  \/ AdminRequestChanges(r)
  \/ \E day \in Days : AdminSuspend(r, day)
  \/ AdminCancel(r)
  \/ AdminRepublish(r)
  \/ AdminRejectRepublish(r)

OperatorCommits(r) ==
  \/ updateByIdAndOperatorId(r)
  \/ deleteByIdAndOperatorId(r)
  \/ updateStatusByIdAndOperatorId(r)
  \/ suspendByIdAndOperatorId(r)
  \/ cancelScheduledSuspensionByIdAndOperatorId(r)
  \/ republishByIdAndOperatorId(r)
  \/ requestRepublishByIdAndOperatorId(r)

AdminCommits(r) ==
  \/ updateStatusById(r)
  \/ requestChangesById(r)
  \/ suspendById(r)
  \/ cancelScheduledSuspensionById(r)
  \/ republishById(r)
  \/ rejectRepublishById(r)

System ==
  \/ RefreshView
  \/ ApplyScheduledSuspension
  \/ EnqueuePublishedMessage
  \/ RomeMidnight
  \/ UtcMidnight

Next ==
  \/ \E dateFrom \in Days, dateTo \in EndDates, benefit \in Benefits, placed \in Placements :
       CreateOpportunity(dateFrom, dateTo, benefit, placed)
  \/ CreateProfile
  \/ RevokeOperator
  \/ \E r \in Requests :
       OperatorDecides(r) \/ AdminDecides(r) \/ OperatorCommits(r) \/ AdminCommits(r)
         \/ refreshAll(r) \/ RequestFails(r)
  \/ System

Spec == Init /\ [][Next]_vars

(***************************************************************************)
(* The database runs its cron jobs and time passes; nobody has to send a   *)
(* request, and a request in flight may never end.                         *)
(***************************************************************************)
Fairness ==
  /\ WF_vars(RefreshView)
  /\ WF_vars(ApplyScheduledSuspension)
  /\ WF_vars(EnqueuePublishedMessage)
  /\ WF_vars(RomeMidnight)
  /\ WF_vars(UtcMidnight)

FairSpec == Spec /\ Fairness

(***************************************************************************)
(* Refinement.                                                             *)
(***************************************************************************)
Lifecycle == INSTANCE OpportunityLifecycle WITH status <- row.status, offer <- row.benefit

\* Every interleaving of use cases, jobs and lost requests moves the status
\* and the benefit only as the lifecycle allows: in particular no edit
\* decided on an older version changes a benefit under review or on offer.
FollowsLifecycle == Lifecycle!Spec

\* What Places sees of this opportunity: its status, whether it has a place or
\* the national territory, and the edits and submissions in flight.
AsOpportunity == [status |-> row.status, nationalTerritory |-> row.placed, placeIds |-> {}]

AsEdit(p) ==
  IF p.kind = "update"
  THEN [opportunity |-> "row", fresh |-> p.fresh,
        to |-> [status |-> p.status, nationalTerritory |-> p.placed, placeIds |-> {}]]
  ELSE [opportunity |-> "none", fresh |-> FALSE,
        to |-> [status |-> "absent", nationalTerritory |-> FALSE, placeIds |-> {}]]

AsSubmission(p) ==
  IF p.kind = "requestTest"
  THEN [opportunity |-> "row", from |-> p.status, changed |-> ~p.fresh]
  ELSE [opportunity |-> "none", from |-> "absent", changed |-> FALSE]

PlacesView ==
  INSTANCE Places
    WITH PlaceIds <- {}, Opportunities <- {"row"}, Deletions <- {}, None <- "none",
         Edits <- Requests, Submissions <- Requests,
         place <- [p \in {} |-> "none"], opportunity <- [o \in {"row"} |-> AsOpportunity],
         deletion <- [d \in {} |-> "no"],
         edit <- [r \in Requests |-> AsEdit(pending[r])],
         submission <- [r \in Requests |-> AsSubmission(pending[r])]

\* The places component knows the other writers of an opportunity only as moves of
\* its status that make what requests have read stale: every use case, job and
\* cascade here is such a move, so none writes behind the back of an edit.
ActsAsPlacesAssume == PlacesView!Spec

\* What the portal's editor tells apart: scheduled, published and suspended are
\* one to it, and a suspension is scheduled or not.
Shown(r, day) ==
  LET status == DisplayStatus(r, day) IN
  [status |-> IF status \in {"scheduled", "suspended"} THEN "published" ELSE status,
   scheduled |-> r.suspendFrom # NoDate]

OfferShown == {"published", "scheduled_suspension"}

\* What the calendar alone does to it.
SameUntilADate(from, to) ==
  \/ from = to
  \/ from.scheduled /\ to.scheduled /\ {from.status, to.status} \subseteq OfferShown

\* The moves of an opportunity that the editor counts with: a save, a
\* submission, a decision of the department, a suspension or what lifts it.
EditorMove(from, to, sameBenefit) ==
  \/ from = to /\ (sameBenefit \/ from.status \in {"draft", "test_rejected"})
  \/ sameBenefit /\ {from.status, to.status} \subseteq OfferShown
  \/ /\ ~from.scheduled /\ ~to.scheduled
     /\ \/ /\ sameBenefit
           /\ \/ from.status \in {"draft", "test_rejected"} /\ to.status = "test_pending"
              \/ from.status \in {"test_pending", "test_rejected"} /\ to.status = "published"
              \/ from.status = "test_pending" /\ to.status = "test_rejected"
        \/ ~sameBenefit /\ from.status = "published" /\ to.status = "test_pending"

\* OpportunityEditor counts with these writers of the row and no others, and with
\* versions that tell: as long as nobody has set updated_at the benefit is the one
\* read, and so is the status, unless the date of a scheduled suspension has come.
\* Deletions are left to the refusal of what comes after them.
ActsAsEditorAssumes ==
  [][LET from == Shown(row, today)
         to == Shown(row', today') IN
     /\ row.status # "absent" /\ row'.status # "deleted" =>
          EditorMove(from, to, row'.benefit = row.benefit)
     /\ \A r \in Requests :
          pending[r].kind = "update" /\ pending[r].fresh /\ pending'[r].fresh =>
            row'.benefit = row.benefit /\ SameUntilADate(from, to)]_vars

(***************************************************************************)
(* Invariants.                                                             *)
(***************************************************************************)
\* Types; the first day is a NOT NULL column, which an edit always sends.
TypeOK ==
  /\ row \in Row
  /\ \A r \in Requests : pending[r].kind = "update" => pending[r].dateFrom # NoDate
  /\ hasProfile \in BOOLEAN
  /\ revoked \in BOOLEAN
  /\ pending \in [Requests -> Request]
  /\ listed \in BOOLEAN
  /\ today \in Days
  /\ utcToday \in Days

\* A suspension, applied or scheduled, always has an author: without one
\* neither OperatorRepublish nor OperatorRequestRepublish could ever lift it.
SuspensionHasAuthor ==
  row.status = "suspended" \/ row.suspendFrom # NoDate => row.suspendedBy # "none"

\* A suspended opportunity has no schedule left behind: republished, it would
\* be suspended again by the next cron run.
NoScheduleOnceSuspended == row.status = "suspended" => row.suspendFrom = NoDate

\* A republication request is open only on a department suspension, so that
\* the department can always answer it.
RequestIsAnswerable ==
  row.republishAsked => row.status = "suspended" /\ row.suspendedBy = "department"

\* Whoever suspended the opportunity, somebody can lift the suspension, in one
\* step that leaves nothing behind: in whatever order edits, schedules, cron
\* runs, the department and a revocation came.
SuspensionsCanBeLifted == SuspensionHasAuthor /\ NoScheduleOnceSuspended /\ RequestIsAnswerable

\* Nothing is under review, on offer or suspended without the operator's
\* profile, which the view and the announcement are joined with.
ReviewedWithProfile ==
  row.status \in {"test_pending", "test_rejected", "published", "suspended"} => hasProfile

\* The announcement flag belongs to a window that has been entered.
NotifiedWindowEntered ==
  row.notified => row.status = "published" /\ row.dateFrom <= today

\* What requests in flight have decided stays sound for as long as their
\* UPDATE can still land: an edit whose version is current asks for the status
\* it found, or for review of another benefit; a submission comes from an
\* editable status of an operator with a profile; a deletion that nobody
\* overtook since this morning is of something citizens do not see.
DecisionsHold ==
  \A r \in Requests :
    LET p == pending[r] IN
    /\ p.kind = "update" /\ p.fresh =>
         \/ p.status = row.status /\ row.status \in {"draft", "test_rejected"}
         \/ p.status = row.status /\ row.status \in {"published", "suspended"}
              /\ p.benefit = row.benefit
         \/ p.status = "test_pending" /\ row.status \in {"published", "suspended"}
              /\ p.benefit # row.benefit
    /\ p.kind = "requestTest" =>
         /\ p.status \in {"draft", "test_rejected"} /\ hasProfile
         /\ p.fresh => p.status = row.status
    /\ p.kind = "delete" =>
         /\ p.readOn <= today
         /\ p.fresh /\ p.readOn = today => ~Visible(row, today)

(***************************************************************************)
(* Action properties.                                                      *)
(***************************************************************************)
\* Every visibility window starts unannounced, however it is entered
\* (approval, republication, an edit of the dates, midnight): the job emails
\* again on each re-entry.
EntersUnannounced ==
  [][~Visible(row, today) /\ Visible(row', today') => ~row'.notified]_vars

\* While the opportunity stays visible the flag stays: no edit, schedule or
\* cancellation makes the job send the email of this window twice.
AnnouncedOncePerWindow ==
  [][row.notified /\ Visible(row, today) /\ Visible(row', today') => row'.notified]_vars

\* Request r runs its UPDATE.
Commits(r, kinds) == pending[r].kind \in kinds /\ pending'[r].kind # pending[r].kind

\* Operators cannot cancel a suspension the department has scheduled, even
\* when it overwrote the operator's own while the cancellation was in flight.
DepartmentScheduleHolds ==
  [][(\E r \in Requests : Commits(r, OperatorWrites))
       /\ row.suspendFrom # NoDate /\ row.suspendedBy = "department"
     => row'.suspendFrom = row.suspendFrom /\ row'.suspendedBy = "department"]_vars

\* An edit is decided on one version of the row and never lands on another:
\* what it leaves as status is the status it found, or review.
EditKeepsStatus ==
  [][(\E r \in Requests : Commits(r, {"update"})) => row'.status \in {row.status, "test_pending"}]_vars

\* "Opportunity must be suspended before deletion": a deletion takes what citizens
\* see away only if another request wrote the row, or a day began, after it had
\* looked.
DeletionsSpareTheLive ==
  [][\A r \in Requests :
       Commits(r, {"delete"}) /\ row'.status = "deleted" /\ Visible(row, today)
       => ~pending[r].fresh \/ pending[r].readOn < today]_vars

(***************************************************************************)
(* Rules the code states and its races break.                              *)
(***************************************************************************)
\* "Only the department can republish a department-suspended opportunity."
DepartmentSuspensionHolds ==
  [][(\E r \in Requests : Commits(r, OperatorWrites))
       /\ row.status = "suspended" /\ row.suspendedBy = "department"
     => row'.status # "published"]_vars

(***************************************************************************)
(* Liveness.                                                               *)
(***************************************************************************)
\* The view never stays wrong for good: what is published appears in it after
\* its first day begins, and what is hidden, by whatever path, disappears.
ViewConverges == []<>(listed <=> RefreshedView)

\* An opportunity that stays visible is announced.
EventuallyAnnounced == Visible(row, today) /\ hasProfile ~> row.notified \/ ~Visible(row, today)

\* A scheduled suspension is applied, unless someone lifts it or the
\* opportunity leaves publication before.
ScheduleApplied ==
  row.status = "published" /\ row.suspendFrom # NoDate
    ~> row.status # "published" \/ row.suspendFrom = NoDate
===============================================================================
