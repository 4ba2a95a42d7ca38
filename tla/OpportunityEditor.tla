--------------------------- MODULE OpportunityEditor ---------------------------
(***************************************************************************)
(* The page of ced-portal-fe in which an operator creates and edits an     *)
(* opportunity, and the row it edits while colleagues and the department   *)
(* write it too.                                                           *)
(*                                                                         *)
(* The page holds two copies of the opportunity.  The form is filled once  *)
(* per visit from the detail in the query cache, and typed into; the       *)
(* detail is fetched again whenever a mutation of the tab ends, well or    *)
(* badly, while the page is open.  A save sends the content of the form    *)
(* and the updatedAt of the detail, and what the operator is told before   *)
(* confirming is worked out from the detail too.  The form is in a store   *)
(* that outlives the page.                                                 *)
(*                                                                         *)
(* "published" stands for scheduled, published and suspended, which edits  *)
(* treat alike; scheduled says that a suspension is scheduled, come or to  *)
(* come.  A version is an updated_at.  A content is named by the version   *)
(* that wrote it; the benefit is the part of it that a review is needed    *)
(* for.  One tab is modelled: those of colleagues do to the row what       *)
(* ColleagueSaves and ColleagueSubmits do.                                 *)
(***************************************************************************)
EXTENDS Naturals

CONSTANTS
  Benefits,    \* the benefits an opportunity can offer
  MaxVersion,  \* bound: writes of the row
  MaxDrafts    \* bound: drafts created from one form

ASSUME EditorAssumption ==
  Benefits # {} /\ MaxVersion \in Nat \ {0} /\ MaxDrafts \in Nat \ {0}

VARIABLES
  row,       \* the opportunity in the database
  detail,    \* the detail in the tab's query cache
  fetching,  \* a fetch of the detail is wanted or in flight
  page,      \* what the page is open for
  hydrated,  \* this visit has filled the form from the detail
  form,      \* the form in the store
  saving,    \* the save in flight
  asking,    \* the request for approval in flight
  drafts,    \* history: drafts created from the present form
  sure       \* history: nothing came back or is in flight since it was filled

vars == <<row, detail, fetching, page, hydrated, form, saving, asking, drafts, sure>>
visit == <<page, hydrated, drafts, sure>>

Status == {"draft", "test_pending", "test_rejected", "published", "scheduled_suspension"}
OnOffer == {"published", "scheduled_suspension"}
Versions == 1..MaxVersion

Row == [status : Status, scheduled : BOOLEAN, version : Versions, content : Versions,
        benefit : Benefits]

AnyBenefit == CHOOSE b \in Benefits : TRUE

\* The query has no data.
NoDetail == [status |-> "none", scheduled |-> FALSE, version |-> 0, content |-> 0,
             benefit |-> AnyBenefit]

\* of: what the form describes, another opportunity included.
Form == [of : {"nothing", "new", "row", "other"}, content : 0..MaxVersion, benefit : Benefits]

Filled(of, content, benefit) == [of |-> of, content |-> content, benefit |-> benefit]
EmptyForm == Filled("nothing", 0, AnyBenefit)

\* A PUT or a POST under way: the arguments, what the operator was told, and
\* what the page knew on the click (status, base, sure).
Put == [kind : {"put"}, told : {"draft", "review", "immediate"}, status : Status,
        version : Versions, benefit : Benefits, base : 0..MaxVersion, sure : BOOLEAN]
Post == [kind : {"post"}, told : {"draft", "review"}, status : {"none"},
         version : {0}, benefit : Benefits, base : 0..MaxVersion, sure : BOOLEAN]

NoSave == [kind |-> "none", told |-> "draft", status |-> "none", version |-> 0,
           benefit |-> AnyBenefit, base |-> 0, sure |-> FALSE]

(***************************************************************************)
(* What the page says.                                                     *)
(***************************************************************************)
\* A slip: the benefits are not compared.
IsReviewRequiredByStatus == detail.status \in {"draft", "test_rejected"}

IsReviewRequired ==
  \/ detail.status \in {"draft", "test_rejected"}
  \/ detail.status = "published" /\ form.benefit # detail.benefit

(***************************************************************************)
(* The server.                                                             *)
(***************************************************************************)
Replaceable == row.status \in {"draft", "test_rejected", "published"}

\* A slip: no WHERE on the version.
CanReplaceAnyVersion == Replaceable

\* A CHECK of the table: what has a suspension scheduled does not go to review.
PassesCheck(benefit) == row.scheduled => benefit = row.benefit

\* resolveReplace and the UPDATE on the version the client echoes; a date may
\* come between the two.
CanReplace ==
  /\ Replaceable \/ (row.status = "scheduled_suspension" /\ saving.status = "published")
  /\ saving.version = row.version
  /\ PassesCheck(saving.benefit)

Replaced ==
  [status |-> IF row.status \in OnOffer /\ saving.benefit # row.benefit
              THEN "test_pending" ELSE row.status,
   scheduled |-> row.scheduled, version |-> row.version + 1,
   content |-> row.version + 1, benefit |-> saving.benefit]

CanSubmit == row.status \in {"draft", "test_rejected"}
Submitted == [row EXCEPT !.status = "test_pending", !.version = row.version + 1]

(***************************************************************************)
(* The tab's query cache.                                                  *)
(***************************************************************************)
\* A mutation that ends invalidates the detail: an open page fetches it again,
\* otherwise it is dropped, once a fetch under way is through.
Invalidates ==
  /\ fetching' = (fetching \/ page = "edit")
  /\ detail' = IF fetching \/ page = "edit" THEN detail ELSE NoDetail

Fetches ==
  /\ fetching
  /\ fetching' = FALSE
  /\ \/ detail' = row
     \/ detail' = detail   \* the fetch failed: the data stays
  /\ UNCHANGED <<row, form, saving, asking, visit>>

\* The detail is fetched for another page of the tab.
IsViewed ==
  /\ page = "closed" /\ ~fetching
  /\ fetching' = TRUE
  /\ UNCHANGED <<row, detail, form, saving, asking, visit>>

\* Unused for a minute, or invalidated from another page.
Expires ==
  /\ page # "edit" /\ ~fetching /\ detail # NoDetail
  /\ detail' = NoDetail
  /\ UNCHANGED <<row, fetching, form, saving, asking, visit>>

\* So does a suspension, its cancellation or a republication that the operator
\* asked for on the page left for this one.
ActionEnds ==
  /\ sure' = FALSE
  /\ Invalidates
  /\ UNCHANGED <<row, form, saving, asking, page, hydrated, drafts>>

(***************************************************************************)
(* Navigation.                                                             *)
(***************************************************************************)
OpensForEdit ==
  /\ page = "closed"
  /\ page' = "edit"
  /\ hydrated' = FALSE
  /\ sure' = FALSE
  /\ fetching' = (fetching \/ detail = NoDetail)
  /\ UNCHANGED <<row, detail, form, saving, asking, drafts>>

OpensForCreation ==
  /\ page = "closed"
  /\ page' = "create"
  /\ hydrated' = FALSE
  /\ form' = EmptyForm
  /\ drafts' = 0
  /\ sure' = FALSE
  /\ UNCHANGED <<row, detail, fetching, saving, asking>>

\* Leaving the page leaves the form as it is.
Leaves ==
  /\ page # "closed"
  /\ page' = "closed"
  /\ UNCHANGED <<row, detail, fetching, hydrated, form, saving, asking, drafts, sure>>

\* The page was opened for another opportunity, and left.
EditsAnother(benefit) ==
  /\ page = "closed"
  /\ form' = Filled("other", 0, benefit)
  /\ drafts' = 0
  /\ sure' = FALSE
  /\ UNCHANGED <<row, detail, fetching, page, hydrated, saving, asking>>

(***************************************************************************)
(* Filling the form.                                                       *)
(***************************************************************************)
\* Once per visit, when the detail and the operator's places are there; the
\* places may come late, or never.  A caregiver's benefit taken for that of the
\* beneficiary is replaced by it.
Hydrates(benefit) ==
  /\ page = "edit" /\ ~hydrated /\ detail # NoDetail
  /\ hydrated' = TRUE
  /\ form' = Filled("row", detail.content, benefit)
  /\ drafts' = 0
  /\ sure' = (~fetching /\ saving = NoSave /\ asking = "nothing")
  /\ UNCHANGED <<row, detail, fetching, page, saving, asking>>

\* A form begun anew is another form.
Begins ==
  /\ page = "create" /\ form.of = "nothing"
  /\ form' = Filled("new", 0, AnyBenefit)
  /\ drafts' = 0
  /\ sure' = (saving = NoSave /\ asking = "nothing")
  /\ UNCHANGED <<row, detail, fetching, page, hydrated, saving, asking>>

Types(benefit) ==
  /\ page # "closed" /\ form.of # "nothing"
  /\ form' = [form EXCEPT !.benefit = benefit]
  /\ UNCHANGED <<row, detail, fetching, saving, asking, visit>>

(***************************************************************************)
(* Saving: the draft button, and the confirmation at the end of the wizard *)
(* which is disabled while an approval is asked for.                       *)
(***************************************************************************)
Told(clicked) ==
  IF clicked = "draft" THEN "draft"
  ELSE IF page = "create" \/ IsReviewRequired THEN "review" ELSE "immediate"

\* A slip: a version that was never read is sent.
SavesUnread == TRUE

\* An edit needs the version to echo.
CanSave == page = "create" \/ (page = "edit" /\ detail # NoDetail)

\* An empty form is refused as invalid.
Saves(clicked) ==
  /\ saving = NoSave /\ form.of # "nothing"
  /\ clicked = "confirm" => asking = "nothing"
  /\ page # "closed" /\ CanSave
  /\ saving' = [kind |-> IF page = "create" THEN "post" ELSE "put", told |-> Told(clicked),
                status |-> IF page = "create" THEN "none" ELSE detail.status,
                version |-> IF page = "create" THEN 0 ELSE detail.version,
                benefit |-> form.benefit, base |-> form.content,
                sure |-> sure /\ asking = "nothing" /\ (page = "edit" => hydrated)]
  /\ UNCHANGED <<row, detail, fetching, form, asking, visit>>

ClearsForm ==
  /\ form' = EmptyForm
  /\ drafts' = 0

\* The handler goes on to ask for approval, or ends the visit.
AsksFor(target) == asking' = target /\ UNCHANGED <<form, page>>
EndsVisit == asking' = asking /\ page' = "closed" /\ ClearsForm

PutSucceeds ==
  /\ saving.kind = "put" /\ CanReplace /\ row.version < MaxVersion
  /\ row' = Replaced
  /\ IF saving.told # "draft" /\ saving.status \in {"draft", "test_rejected"}
     THEN AsksFor("row") /\ drafts' = drafts
     ELSE EndsVisit
  /\ saving' = NoSave /\ sure' = FALSE
  /\ Invalidates
  /\ UNCHANGED hydrated

\* A conflict or a status that is not replaceable; the server, or the way to it,
\* failed; or the answer is lost.
PutFails ==
  /\ saving.kind = "put"
  /\ \/ row' = row
     \/ CanReplace /\ row.version < MaxVersion /\ row' = Replaced
  /\ saving' = NoSave /\ sure' = FALSE
  /\ Invalidates
  /\ UNCHANGED <<page, hydrated, form, asking, drafts>>

\* createOpportunity invalidates nothing.
PostSucceeds ==
  /\ saving.kind = "post" /\ drafts < MaxDrafts
  /\ IF saving.told = "draft"
     THEN EndsVisit
     ELSE AsksFor("new") /\ drafts' = drafts + 1
  /\ saving' = NoSave
  /\ UNCHANGED <<row, detail, fetching, hydrated, sure>>

\* Refused, or the answer is lost, and with it whether there is a draft.
PostFails ==
  /\ saving.kind = "post"
  /\ \/ UNCHANGED <<drafts, sure>>
     \/ sure' = FALSE /\ drafts' \in {drafts, drafts + 1} \cap 0..MaxDrafts
  /\ saving' = NoSave
  /\ UNCHANGED <<row, detail, fetching, page, hydrated, form, asking>>

(***************************************************************************)
(* Asking for approval.  What it is asked for is named by its id alone.    *)
(***************************************************************************)
\* After the approval of a new opportunity, granted or not, the form is reset.
AskEnds ==
  /\ asking' = "nothing"
  /\ sure' = FALSE
  /\ IF asking = "new" THEN ClearsForm ELSE UNCHANGED <<form, drafts>>
  /\ Invalidates
  /\ UNCHANGED <<hydrated, saving>>

Submits ==
  \/ asking = "row" /\ CanSubmit /\ row.version < MaxVersion /\ row' = Submitted
  \/ asking = "new" /\ row' = row

AskSucceeds ==
  /\ Submits
  /\ page' = "closed"
  /\ AskEnds

\* Only a conflict ends the visit.
AskConflicts ==
  /\ asking # "nothing" /\ row' = row
  /\ page' = "closed"
  /\ AskEnds

AskFails ==
  /\ \/ Submits
     \/ asking # "nothing" /\ row' = row
  /\ page' = page
  /\ AskEnds

(***************************************************************************)
(* Everybody else: colleagues, the department, the cron job that applies   *)
(* suspensions.  Each write sets updated_at.                               *)
(***************************************************************************)
Writes(new) ==
  /\ row.version < MaxVersion
  /\ row' = [new EXCEPT !.version = row.version + 1]
  /\ UNCHANGED <<detail, fetching, form, saving, asking, visit>>

\* A colleague's save too may have been decided before a date came.
ColleagueSaves(benefit) ==
  /\ Replaceable \/ row.status = "scheduled_suspension"
  /\ PassesCheck(benefit)
  /\ Writes([row EXCEPT !.status = IF row.status \in OnOffer /\ benefit # row.benefit
                                   THEN "test_pending" ELSE @,
                        !.content = row.version + 1, !.benefit = benefit])

ColleagueSubmits ==
  /\ CanSubmit
  /\ Writes([row EXCEPT !.status = "test_pending"])

DepartmentDecides(status) ==
  /\ \/ status = "published" /\ row.status \in {"test_pending", "test_rejected"}
     \/ status = "test_rejected" /\ row.status = "test_pending"
  /\ Writes([row EXCEPT !.status = status])

\* Suspension, its cancellation, republication.
Suspends(status, scheduled) ==
  /\ row.status \in OnOffer /\ status \in OnOffer
  /\ status = "scheduled_suspension" => scheduled
  /\ Writes([row EXCEPT !.status = status, !.scheduled = scheduled])

\* The status shown follows the calendar, the version does not: the date of a
\* scheduled suspension comes, or the first day of an opportunity that has one.
DateArrives ==
  /\ row.scheduled
  /\ \E status \in OnOffer : row' = [row EXCEPT !.status = status]
  /\ UNCHANGED <<detail, fetching, form, saving, asking, visit>>

(***************************************************************************)
(* The specification.                                                      *)
(***************************************************************************)
Init ==
  /\ \E b \in Benefits : row = [status |-> "draft", scheduled |-> FALSE, version |-> 1,
                              content |-> 1, benefit |-> b]
  /\ detail = NoDetail /\ fetching = FALSE
  /\ page = "closed" /\ hydrated = FALSE
  /\ form = EmptyForm
  /\ saving = NoSave /\ asking = "nothing"
  /\ drafts = 0 /\ sure = FALSE

Page ==
  \/ OpensForEdit \/ OpensForCreation \/ Leaves
  \/ Begins
  \/ \E b \in Benefits : Hydrates(b) \/ EditsAnother(b) \/ Types(b)
  \/ Saves("draft") \/ Saves("confirm")

Answers ==
  \/ PutSucceeds \/ PutFails \/ PostSucceeds \/ PostFails
  \/ AskSucceeds \/ AskConflicts \/ AskFails
  \/ Fetches \/ IsViewed \/ Expires \/ ActionEnds

Others ==
  \/ \E b \in Benefits : ColleagueSaves(b)
  \/ ColleagueSubmits
  \/ \E s \in Status : DepartmentDecides(s) \/ \E scheduled \in BOOLEAN : Suspends(s, scheduled)
  \/ DateArrives

Next == Page \/ Answers \/ Others

Spec == Init /\ [][Next]_vars

(***************************************************************************)
(* Properties.                                                             *)
(***************************************************************************)
\* Types of the row, the detail, the form and the requests in flight.
TypeOK ==
  /\ row \in Row
  /\ detail \in Row \cup {NoDetail}
  /\ fetching \in BOOLEAN
  /\ page \in {"closed", "edit", "create"}
  /\ hydrated \in BOOLEAN
  /\ form \in Form
  /\ saving \in Put \cup Post \cup {NoSave}
  /\ asking \in {"nothing", "row", "new"}
  /\ drafts \in 0..MaxDrafts
  /\ sure \in BOOLEAN

\* This step carries out the save in flight.
Puts == saving.kind = "put" /\ saving' = NoSave /\ row' # row
Posts == saving.kind = "post" /\ saving' = NoSave

\* A save never replaces a content other than the one its form was filled from,
\* whoever wrote it, unless something came back to the tab, or was under way,
\* since the form was filled, or the form was not filled at all.  Then it does:
\* a refused save has the detail fetched again and the form is left as it was,
\* so that the next attempt carries the version of what it has never shown.
FirstSaveSeesAll == [][Puts /\ saving.sure => saving.base = row.content]_vars

\* What the operator was told is what a save does, if it is not refused: in
\* particular when the date of a scheduled suspension has come in between.
\* "Applied at once" leaves the status alone; "for review" ends under review or
\* goes on to ask for it, unless the answer was lost; a "draft" keeps its status
\* unless the opportunity is on offer.
SavesDoAsTold ==
  [][Puts =>
      /\ saving.told = "immediate" => row'.status = row.status
      /\ saving.told = "review" =>
           row'.status = "test_pending" \/ asking' = "row" \/ PutFails
      /\ saving.told = "draft" => row'.status = row.status \/ row.status \in OnOffer]_vars

\* A form becomes one draft, unless an answer was lost or the draft button was
\* pressed while the approval of the draft it became was being asked for.
OneDraftPerForm == [][Posts /\ saving.sure => drafts = 0]_vars

================================================================================
