--------------------------------- MODULE Places ---------------------------------
(***************************************************************************)
(* The places of an operator of ced-portal-be and its opportunities, which *)
(* link to them: the creation and deletion of a place, and the requests    *)
(* that decide from the links or change them.                              *)
(*                                                                         *)
(* The deletion of a place looks for an opportunity it is the only place   *)
(* of, and then deletes it with its links; the submission of an            *)
(* opportunity looks at its links, and then writes its status.  Neither    *)
(* look is repeated in the WHERE clause of the write, and the deletion of  *)
(* a link does not touch updated_at.                                       *)
(*                                                                         *)
(* The views that a deletion or an edit refreshes are in Opportunity.      *)
(***************************************************************************)
CONSTANTS
  PlaceIds,       \* the places; an id is never used twice
  Opportunities,  \* the opportunities
  Deletions,      \* requests to delete a place
  Edits,          \* requests to edit an opportunity
  Submissions,    \* requests to test an opportunity
  None            \* no place, no opportunity

ASSUME NoneAssumption == None \notin PlaceIds \cup Opportunities

VARIABLES
  place,        \* which places there are
  opportunity,  \* status, territory and links of each opportunity
  deletion,     \* the state of each request to delete a place
  edit,         \* the state of each edit
  submission    \* the state of each submission

vars == <<place, opportunity, deletion, edit, submission>>

Status == {"absent", "draft", "test_pending", "test_rejected", "published", "suspended",
           "deleted"}

Opportunity ==
  [status : Status, nationalTerritory : BOOLEAN, placeIds : SUBSET PlaceIds]

(***************************************************************************)
(* The requests.  An edit is fresh while updated_at is the client's        *)
(* expectedUpdatedAt.  changed is no part of the code: the opportunities   *)
(* written since the request looked at them.                               *)
(***************************************************************************)
Deletion == [step : {"no", "found", "checked"}, place : PlaceIds \cup {None},
             changed : SUBSET Opportunities]

Edit == [opportunity : Opportunities \cup {None}, to : Opportunity, fresh : BOOLEAN]

Submission == [opportunity : Opportunities \cup {None}, from : Status, changed : BOOLEAN]

Absent == [status |-> "absent", nationalTerritory |-> FALSE, placeIds |-> {}]
NoDeletion == [step |-> "no", place |-> None, changed |-> {}]
NoEdit == [opportunity |-> None, to |-> Absent, fresh |-> FALSE]
NoSubmission == [opportunity |-> None, from |-> "absent", changed |-> FALSE]

Existing == {p \in PlaceIds : place[p] = "there"}

Placed(o) == opportunity[o].nationalTerritory \/ opportunity[o].placeIds # {}

\* test_passed is never stored.
blockingStatuses == {"published", "suspended", "test_pending"}

existsWithSolePlace(p) ==
  \E o \in Opportunities :
    /\ opportunity[o].placeIds = {p}
    /\ ~opportunity[o].nationalTerritory
    /\ opportunity[o].status \in blockingStatuses

(***************************************************************************)
(* What the requests under way do not know of a write of an opportunity,   *)
(* or of a deletion of links.                                              *)
(***************************************************************************)
DeletionsMiss(O) ==
  [d \in Deletions |->
    IF deletion[d].step = "checked" THEN [deletion[d] EXCEPT !.changed = @ \cup O]
    ELSE deletion[d]]

EditsMiss(o) ==
  [e \in Edits |-> IF edit[e].opportunity = o THEN [edit[e] EXCEPT !.fresh = FALSE] ELSE edit[e]]

SubmissionsMiss(O) ==
  [s \in Submissions |->
    IF submission[s].opportunity \in O THEN [submission[s] EXCEPT !.changed = TRUE]
    ELSE submission[s]]

(***************************************************************************)
(* Places.                                                                 *)
(***************************************************************************)
CreatePlace(p) ==
  /\ place[p] = "none"
  /\ place' = [place EXCEPT ![p] = "there"]
  /\ UNCHANGED <<opportunity, deletion, edit, submission>>

getById(d, p) ==
  /\ deletion[d].step = "no"
  /\ place[p] = "there"
  /\ deletion' = [deletion EXCEPT ![d] = [step |-> "found", place |-> p, changed |-> {}]]
  /\ UNCHANGED <<place, opportunity, edit, submission>>

\* A slip: only what citizens see is looked at.
checksListedOnly(d) ==
  /\ deletion[d].step = "found"
  /\ deletion' = [deletion EXCEPT ![d] =
       IF \E o \in Opportunities : /\ opportunity[o].placeIds = {deletion[d].place}
                                   /\ ~opportunity[o].nationalTerritory
                                   /\ opportunity[o].status = "published"
       THEN NoDeletion ELSE [@ EXCEPT !.step = "checked"]]
  /\ UNCHANGED <<place, opportunity, edit, submission>>

checksSolePlace(d) ==
  /\ deletion[d].step = "found"
  /\ deletion' = [deletion EXCEPT ![d] =
       IF existsWithSolePlace(deletion[d].place) THEN NoDeletion
       ELSE [@ EXCEPT !.step = "checked"]]
  /\ UNCHANGED <<place, opportunity, edit, submission>>

\* The links go with the place; the opportunities' updated_at stays.
deleteByIdAndOperatorId(d) ==
  LET p == deletion[d].place
      linked == {o \in Opportunities : p \in opportunity[o].placeIds}
  IN
  /\ deletion[d].step = "checked"
  /\ place' = [place EXCEPT ![p] = "gone"]
  /\ opportunity' = [o \in Opportunities |-> [opportunity[o] EXCEPT !.placeIds = @ \ {p}]]
  /\ deletion' = [DeletionsMiss(linked) EXCEPT ![d] = NoDeletion]
  /\ submission' = SubmissionsMiss(linked)
  /\ UNCHANGED edit

DeletionFails(d) ==
  /\ deletion[d].step # "no"
  /\ deletion' = [deletion EXCEPT ![d] = NoDeletion]
  /\ UNCHANGED <<place, opportunity, edit, submission>>

(***************************************************************************)
(* Opportunities.  A link to a place that is gone breaks its foreign key   *)
(* and undoes the transaction.                                             *)
(***************************************************************************)
Writes(o, new) ==
  /\ opportunity' = [opportunity EXCEPT ![o] = new]
  /\ deletion' = DeletionsMiss({o})

CreateOpportunity(o, nationalTerritory, placeIds) ==
  /\ opportunity[o].status = "absent"
  /\ placeIds \subseteq Existing
  /\ Writes(o, [status |-> "draft", nationalTerritory |-> nationalTerritory,
                placeIds |-> placeIds])
  /\ edit' = EditsMiss(o)
  /\ submission' = SubmissionsMiss({o})
  /\ UNCHANGED place

Replaceable == {"draft", "test_rejected", "published", "suspended"}

\* A slip: an amended opportunity keeps a trace of its approval.
ReplacedAsPassed(status) ==
  IF status \in {"published", "suspended"} THEN {status, "test_passed"} ELSE {status}

\* A change of the benefit sends what was approved back to review, without the
\* look of a submission at the places.
Replaced(status) ==
  IF status \in {"published", "suspended"} THEN {status, "test_pending"} ELSE {status}

OperatorUpdate(e, o, nationalTerritory, placeIds) ==
  /\ edit[e] = NoEdit
  /\ opportunity[o].status \in Replaceable
  /\ placeIds \subseteq Existing
  /\ \E status \in Replaced(opportunity[o].status) :
       edit' = [edit EXCEPT ![e] =
         [opportunity |-> o, fresh |-> TRUE,
          to |-> [status |-> status, nationalTerritory |-> nationalTerritory,
                  placeIds |-> placeIds]]]
  /\ UNCHANGED <<place, opportunity, deletion, submission>>

updateByIdAndOperatorId(e) ==
  LET o == edit[e].opportunity IN
  /\ o # None
  /\ edit[e].fresh
  /\ edit[e].to.placeIds \subseteq Existing
  /\ Writes(o, edit[e].to)
  /\ edit' = [EditsMiss(o) EXCEPT ![e] = NoEdit]
  /\ submission' = SubmissionsMiss({o})
  /\ UNCHANGED place

EditFails(e) ==
  /\ edit[e].opportunity # None
  /\ edit' = [edit EXCEPT ![e] = NoEdit]
  /\ UNCHANGED <<place, opportunity, deletion, submission>>

\* A slip: the places are not looked at.
OperatorRequestAnyTest(s, o) ==
  /\ submission[s] = NoSubmission
  /\ opportunity[o].status \in {"draft", "test_rejected"}
  /\ submission' = [submission EXCEPT ![s] =
       [opportunity |-> o, from |-> opportunity[o].status, changed |-> FALSE]]
  /\ UNCHANGED <<place, opportunity, deletion, edit>>

OperatorRequestTest(s, o) ==
  /\ submission[s] = NoSubmission
  /\ opportunity[o].status \in {"draft", "test_rejected"}
  /\ Placed(o)
  /\ submission' = [submission EXCEPT ![s] =
       [opportunity |-> o, from |-> opportunity[o].status, changed |-> FALSE]]
  /\ UNCHANGED <<place, opportunity, deletion, edit>>

updateStatusByIdAndOperatorId(s) ==
  LET o == submission[s].opportunity IN
  /\ o # None
  /\ opportunity[o].status = submission[s].from
  /\ Writes(o, [opportunity[o] EXCEPT !.status = "test_pending"])
  /\ edit' = EditsMiss(o)
  /\ submission' = [SubmissionsMiss({o}) EXCEPT ![s] = NoSubmission]
  /\ UNCHANGED place

SubmissionFails(s) ==
  /\ submission[s].opportunity # None
  /\ submission' = [submission EXCEPT ![s] = NoSubmission]
  /\ UNCHANGED <<place, opportunity, deletion, edit>>

\* The statuses that reviews, suspensions, republications and deletions write,
\* each over a status it expects (of the published only those to come are deleted).
\* Schedules, their cancellation and republication requests leave the status.
Moves ==
  {<<"test_pending", "test_rejected">>, <<"test_pending", "published">>,
   <<"test_rejected", "published">>, <<"published", "suspended">>,
   <<"suspended", "published">>, <<"published", "published">>, <<"suspended", "suspended">>}
  \cup ({"draft", "test_rejected", "published", "suspended"} \X {"deleted"})

MoveStatus(o, to) ==
  /\ <<opportunity[o].status, to>> \in Moves
  /\ Writes(o, [opportunity[o] EXCEPT !.status = to])
  /\ edit' = EditsMiss(o)
  /\ submission' = SubmissionsMiss({o})
  /\ UNCHANGED place

Init ==
  /\ place = [p \in PlaceIds |-> "none"]
  /\ opportunity = [o \in Opportunities |-> Absent]
  /\ deletion = [d \in Deletions |-> NoDeletion]
  /\ edit = [e \in Edits |-> NoEdit]
  /\ submission = [s \in Submissions |-> NoSubmission]

Next ==
  \/ \E p \in PlaceIds : CreatePlace(p)
  \/ \E d \in Deletions :
       \/ \E p \in PlaceIds : getById(d, p)
       \/ checksSolePlace(d) \/ deleteByIdAndOperatorId(d) \/ DeletionFails(d)
  \/ \E o \in Opportunities, nationalTerritory \in BOOLEAN, placeIds \in SUBSET PlaceIds :
       \/ CreateOpportunity(o, nationalTerritory, placeIds)
       \/ \E e \in Edits : OperatorUpdate(e, o, nationalTerritory, placeIds)
  \/ \E e \in Edits : updateByIdAndOperatorId(e) \/ EditFails(e)
  \/ \E s \in Submissions :
       \/ \E o \in Opportunities : OperatorRequestTest(s, o)
       \/ updateStatusByIdAndOperatorId(s) \/ SubmissionFails(s)
  \/ \E o \in Opportunities, to \in Status : MoveStatus(o, to)

Spec == Init /\ [][Next]_vars

(***************************************************************************)
(* Properties.                                                             *)
(***************************************************************************)
\* Every part of the state has its type.
TypeOK ==
  /\ place \in [PlaceIds -> {"none", "there", "gone"}]
  /\ opportunity \in [Opportunities -> Opportunity]
  /\ deletion \in [Deletions -> Deletion]
  /\ edit \in [Edits -> Edit]
  /\ submission \in [Submissions -> Submission]

\* No opportunity links to a place that is gone, also when the place goes between
\* an edit's look at the places and its write.
LinksExist == \A o \in Opportunities : opportunity[o].placeIds \subseteq Existing

Stranded(o) == opportunity[o].status \in blockingStatuses /\ ~Placed(o)

\* A deletion of a place strands an opportunity that is on offer, suspended or
\* under review only if another request wrote it, or took a link of it, after the
\* deletion had looked.
DeletionsStrandOnlyChanged ==
  [][\A d \in Deletions, o \in Opportunities :
       /\ deletion[d].step = "checked" /\ deletion'[d].step = "no"
       /\ opportunity[o].placeIds # {} /\ Stranded(o)'
       => o \in deletion[d].changed]_vars

\* "Opportunity must have at least one place or be valid on the national territory
\* to request testing": a submission that nobody overtook has not been left without
\* either.
SubmissionsArePlaced ==
  [][\A s \in Submissions, o \in Opportunities :
       /\ submission[s].opportunity = o /\ submission'[s].opportunity = None
       /\ opportunity' # opportunity
       => submission[s].changed \/ Placed(o)']_vars
===============================================================================
