------------------------------- MODULE PlacesProof -------------------------------
(***************************************************************************)
(* Proofs about Places, for any number of places, opportunities and        *)
(* requests.                                                               *)
(*                                                                         *)
(* The two properties of requests speak of the step that writes.  The      *)
(* invariant says what a request under way still knows of the              *)
(* opportunities that nobody wrote since it looked.                        *)
(***************************************************************************)
EXTENDS Places, TLAPS

(***************************************************************************)
(* The inductive invariant.                                                *)
(***************************************************************************)
SolePlaceOf(o, p) ==
  /\ opportunity[o].placeIds = {p}
  /\ ~opportunity[o].nationalTerritory
  /\ opportunity[o].status \in blockingStatuses

\* What a deletion has checked.
ChecksHold ==
  \A d \in Deletions, o \in Opportunities :
    deletion[d].step = "checked" /\ o \notin deletion[d].changed
    => ~SolePlaceOf(o, deletion[d].place)

\* What a submission has seen.
LooksHold ==
  \A s \in Submissions, o \in Opportunities :
    submission[s].opportunity = o /\ ~submission[s].changed => Placed(o)

IInv == TypeOK /\ LinksExist /\ ChecksHold /\ LooksHold

(***************************************************************************)
(* The steps.                                                              *)
(***************************************************************************)
\* What requests miss leaves their type, and adds to what they do not know.
LEMMA Missed ==
  ASSUME TypeOK, NEW O \in SUBSET Opportunities
  PROVE  /\ DeletionsMiss(O) \in [Deletions -> Deletion]
         /\ \A d \in Deletions :
              /\ DeletionsMiss(O)[d].step = deletion[d].step
              /\ DeletionsMiss(O)[d].place = deletion[d].place
              /\ deletion[d].step = "checked" =>
                   DeletionsMiss(O)[d].changed = deletion[d].changed \cup O
         /\ SubmissionsMiss(O) \in [Submissions -> Submission]
         /\ \A s \in Submissions :
              /\ SubmissionsMiss(O)[s].opportunity = submission[s].opportunity
              /\ submission[s].opportunity \in O => SubmissionsMiss(O)[s].changed
              /\ submission[s].opportunity \notin O =>
                   SubmissionsMiss(O)[s].changed = submission[s].changed
<1>1. /\ \A d \in Deletions : deletion[d] \in Deletion
      /\ \A s \in Submissions : submission[s] \in Submission
  BY DEF TypeOK
<1>2. \A d \in Deletions :
        /\ DeletionsMiss(O)[d] \in Deletion
        /\ DeletionsMiss(O)[d].step = deletion[d].step
        /\ DeletionsMiss(O)[d].place = deletion[d].place
        /\ deletion[d].step = "checked" =>
             DeletionsMiss(O)[d].changed = deletion[d].changed \cup O
  BY <1>1 DEF DeletionsMiss, Deletion
<1>3. \A s \in Submissions :
        /\ SubmissionsMiss(O)[s] \in Submission
        /\ SubmissionsMiss(O)[s].opportunity = submission[s].opportunity
        /\ submission[s].opportunity \in O => SubmissionsMiss(O)[s].changed
        /\ submission[s].opportunity \notin O =>
             SubmissionsMiss(O)[s].changed = submission[s].changed
  BY <1>1 DEF SubmissionsMiss, Submission
<1> QED BY <1>2, <1>3 DEF DeletionsMiss, SubmissionsMiss

\* An edit that no longer is fresh has its type.
LEMMA EditsMissed ==
  ASSUME TypeOK, NEW o \in Opportunities
  PROVE  EditsMiss(o) \in [Edits -> Edit]
<1>1. \A e \in Edits : edit[e] \in Edit
  BY DEF TypeOK
<1> QED BY <1>1 DEF EditsMiss, Edit

\* Idle requests and absent opportunities have their types.
LEMMA IdleTypes ==
  NoDeletion \in Deletion /\ NoEdit \in Edit /\ NoSubmission \in Submission
  /\ Absent \in Opportunity
BY DEF NoDeletion, NoEdit, NoSubmission, Absent, Deletion, Edit, Submission, Opportunity, Status

\* A request that writes an opportunity, or was overtaken, knows what it knew of
\* the others.
LEMMA WriteStep ==
  ASSUME IInv, NEW o \in Opportunities, NEW new \in Opportunity, new.placeIds \subseteq Existing,
         Writes(o, new), place' = place, edit' \in [Edits -> Edit],
         submission' \in [Submissions -> Submission],
         \A s \in Submissions :
           \/ submission'[s].opportunity = None
           \/ submission'[s] = SubmissionsMiss({o})[s]
  PROVE  IInv'
<1>1. /\ opportunity' \in [Opportunities -> Opportunity]
      /\ opportunity'[o] = new
      /\ \A q \in Opportunities \ {o} : opportunity'[q] = opportunity[q]
      /\ deletion' = DeletionsMiss({o})
      /\ Existing' = Existing
  BY DEF IInv, TypeOK, Writes, Existing
<1>2. TypeOK'
  BY <1>1, Missed DEF IInv, TypeOK
<1>3. LinksExist'
  BY <1>1 DEF IInv, LinksExist
<1>4. ChecksHold'
  <2> SUFFICES ASSUME NEW d \in Deletions, NEW q \in Opportunities,
                      deletion'[d].step = "checked", q \notin deletion'[d].changed
               PROVE  ~SolePlaceOf(q, deletion[d].place)'
    BY DEF ChecksHold
  <2>1. /\ deletion[d].step = "checked" /\ deletion'[d].place = deletion[d].place
        /\ q # o /\ q \notin deletion[d].changed
    BY <1>1, Missed DEF IInv
  <2> QED BY <1>1, <2>1 DEF IInv, ChecksHold, SolePlaceOf
<1>5. LooksHold'
  <2> SUFFICES ASSUME NEW s \in Submissions, NEW q \in Opportunities,
                      submission'[s].opportunity = q, ~submission'[s].changed
               PROVE  Placed(q)'
    BY DEF LooksHold
  <2>1. submission'[s] = SubmissionsMiss({o})[s]
    BY NoneAssumption
  <2>2. submission[s].opportunity = q /\ q # o /\ ~submission[s].changed
    BY <2>1, Missed DEF IInv
  <2> QED BY <1>1, <2>2 DEF IInv, LooksHold, Placed
<1> QED BY <1>2, <1>3, <1>4, <1>5 DEF IInv

\* The writers of opportunities.
LEMMA WritersStep ==
  ASSUME IInv,
         \/ \E o \in Opportunities, nationalTerritory \in BOOLEAN, placeIds \in SUBSET PlaceIds :
              CreateOpportunity(o, nationalTerritory, placeIds)
         \/ \E e \in Edits : updateByIdAndOperatorId(e)
         \/ \E s \in Submissions : updateStatusByIdAndOperatorId(s)
         \/ \E o \in Opportunities, to \in Status : MoveStatus(o, to)
  PROVE  IInv'
<1>1. TypeOK /\ LinksExist
  BY DEF IInv
<1>2. ASSUME NEW o \in Opportunities, NEW to \in Status
      PROVE  /\ [opportunity[o] EXCEPT !.status = to] \in Opportunity
             /\ [opportunity[o] EXCEPT !.status = to].placeIds \subseteq Existing
  BY <1>1 DEF TypeOK, LinksExist, Opportunity
<1>3. CASE \E o \in Opportunities, nationalTerritory \in BOOLEAN, placeIds \in SUBSET PlaceIds :
             CreateOpportunity(o, nationalTerritory, placeIds)
  <2>1. PICK o \in Opportunities, nationalTerritory \in BOOLEAN, placeIds \in SUBSET PlaceIds :
               CreateOpportunity(o, nationalTerritory, placeIds)
    BY <1>3
  <2> DEFINE new == [status |-> "draft", nationalTerritory |-> nationalTerritory,
                     placeIds |-> placeIds]
  <2>2. new \in Opportunity /\ new.placeIds \subseteq Existing /\ Writes(o, new)
    BY <2>1 DEF CreateOpportunity, Opportunity, Status
  <2>3. place' = place /\ edit' = EditsMiss(o) /\ submission' = SubmissionsMiss({o})
    BY <2>1 DEF CreateOpportunity
  <2> HIDE DEF new
  <2> QED BY <1>1, <2>2, <2>3, Missed, EditsMissed, WriteStep
<1>4. CASE \E e \in Edits : updateByIdAndOperatorId(e)
  <2>1. PICK e \in Edits : updateByIdAndOperatorId(e)
    BY <1>4
  <2> DEFINE o == edit[e].opportunity
  <2>2. /\ o \in Opportunities /\ edit[e].to \in Opportunity
        /\ edit[e].to.placeIds \subseteq Existing /\ Writes(o, edit[e].to)
    BY <1>1, <2>1 DEF updateByIdAndOperatorId, TypeOK, Edit
  <2>3. /\ place' = place /\ edit' = [EditsMiss(o) EXCEPT ![e] = NoEdit]
        /\ submission' = SubmissionsMiss({o})
    BY <2>1 DEF updateByIdAndOperatorId
  <2> HIDE DEF o
  <2>4. edit' \in [Edits -> Edit]
    BY <1>1, <2>2, <2>3, EditsMissed, IdleTypes
  <2> QED BY <1>1, <2>2, <2>3, <2>4, Missed, WriteStep
<1>5. CASE \E s \in Submissions : updateStatusByIdAndOperatorId(s)
  <2>1. PICK s \in Submissions : updateStatusByIdAndOperatorId(s)
    BY <1>5
  <2> DEFINE o == submission[s].opportunity
             new == [opportunity[o] EXCEPT !.status = "test_pending"]
  <2>2. o \in Opportunities
    BY <1>1, <2>1 DEF updateStatusByIdAndOperatorId, TypeOK, Submission
  <2>3. new \in Opportunity /\ new.placeIds \subseteq Existing /\ Writes(o, new)
    BY <1>2, <2>1, <2>2 DEF updateStatusByIdAndOperatorId, Status
  <2>4. /\ place' = place /\ edit' = EditsMiss(o)
        /\ submission' = [SubmissionsMiss({o}) EXCEPT ![s] = NoSubmission]
    BY <2>1 DEF updateStatusByIdAndOperatorId
  <2> HIDE DEF new, o
  <2>5. /\ submission' \in [Submissions -> Submission]
        /\ \A z \in Submissions :
             submission'[z].opportunity = None \/ submission'[z] = SubmissionsMiss({o})[z]
    <3>1. SubmissionsMiss({o}) \in [Submissions -> Submission]
      BY <1>1, <2>2, Missed
    <3> QED BY <2>4, <3>1, IdleTypes DEF NoSubmission
  <2> QED BY <1>1, <2>2, <2>3, <2>4, <2>5, EditsMissed, WriteStep
<1>6. CASE \E o \in Opportunities, to \in Status : MoveStatus(o, to)
  <2>1. PICK o \in Opportunities, to \in Status : MoveStatus(o, to)
    BY <1>6
  <2> DEFINE new == [opportunity[o] EXCEPT !.status = to]
  <2>2. new \in Opportunity /\ new.placeIds \subseteq Existing
    BY <1>2
  <2>3. /\ Writes(o, new) /\ place' = place /\ edit' = EditsMiss(o)
        /\ submission' = SubmissionsMiss({o})
    BY <2>1 DEF MoveStatus
  <2> HIDE DEF new
  <2> QED BY <1>1, <2>2, <2>3, Missed, EditsMissed, WriteStep
<1> QED BY <1>3, <1>4, <1>5, <1>6

\* A place is created: links to it come later.
LEMMA CreatesPlaceStep == ASSUME IInv, NEW p \in PlaceIds, CreatePlace(p) PROVE IInv'
<1>1. /\ UNCHANGED <<opportunity, deletion, edit, submission>>
      /\ place' = [place EXCEPT ![p] = "there"]
  BY DEF CreatePlace
<1>2. TypeOK' /\ Existing \subseteq Existing'
  BY <1>1 DEF IInv, TypeOK, Existing
<1>3. LinksExist' /\ ChecksHold' /\ LooksHold'
  BY <1>1, <1>2 DEF IInv, LinksExist, ChecksHold, SolePlaceOf, LooksHold, Placed
<1> QED BY <1>2, <1>3 DEF IInv

\* A place is deleted with its links: whoever looked at them does not know.
LEMMA DeletesPlaceStep ==
  ASSUME IInv, NEW d \in Deletions, deleteByIdAndOperatorId(d)
  PROVE  IInv'
<1> DEFINE p == deletion[d].place
           linked == {o \in Opportunities : p \in opportunity[o].placeIds}
<1>1. /\ place' = [place EXCEPT ![p] = "gone"]
      /\ opportunity' = [o \in Opportunities |-> [opportunity[o] EXCEPT !.placeIds = @ \ {p}]]
      /\ deletion' = [DeletionsMiss(linked) EXCEPT ![d] = NoDeletion]
      /\ submission' = SubmissionsMiss(linked)
      /\ edit' = edit
  BY DEF deleteByIdAndOperatorId
<1>2. TypeOK /\ linked \in SUBSET Opportunities
  BY DEF IInv
<1>3. /\ \A o \in Opportunities :
           /\ opportunity'[o] \in Opportunity
           /\ opportunity'[o].placeIds = opportunity[o].placeIds \ {p}
      /\ \A o \in Opportunities \ linked : opportunity'[o] = opportunity[o]
  <2> SUFFICES ASSUME NEW o \in Opportunities
               PROVE  /\ opportunity'[o] \in Opportunity
                      /\ opportunity'[o].placeIds = opportunity[o].placeIds \ {p}
                      /\ o \notin linked => opportunity'[o] = opportunity[o]
    OBVIOUS
  <2>1. opportunity[o] \in Opportunity
    BY <1>2 DEF TypeOK
  <2>2. opportunity'[o] = [opportunity[o] EXCEPT !.placeIds = @ \ {p}]
    BY <1>1
  <2> HIDE DEF p
  <2> QED BY <2>1, <2>2 DEF Opportunity
<1>4. /\ deletion' \in [Deletions -> Deletion] /\ deletion'[d].step = "no"
      /\ \A e \in Deletions \ {d} : deletion'[e] = DeletionsMiss(linked)[e]
  <2>1. DeletionsMiss(linked) \in [Deletions -> Deletion]
    BY <1>2, Missed
  <2> HIDE DEF linked, p
  <2> QED BY <1>1, <2>1, IdleTypes DEF NoDeletion
<1> HIDE DEF p
<1>5. TypeOK'
  <2>1. opportunity' \in [Opportunities -> Opportunity]
    BY <1>1, <1>3
  <2>2. submission' \in [Submissions -> Submission]
    BY <1>1, <1>2, Missed
  <2> QED BY <1>1, <1>2, <1>4, <2>1, <2>2 DEF TypeOK
<1>6. LinksExist'
  <2>1. Existing \ {p} \subseteq Existing'
    BY <1>1, <1>2 DEF Existing, TypeOK
  <2> QED BY <1>3, <2>1 DEF IInv, LinksExist
<1> HIDE DEF linked
<1>7. ChecksHold'
  <2> SUFFICES ASSUME NEW e \in Deletions, NEW q \in Opportunities,
                      deletion'[e].step = "checked", q \notin deletion'[e].changed
               PROVE  ~SolePlaceOf(q, deletion[e].place)'
    BY DEF ChecksHold
  <2>1. e # d /\ deletion'[e] = DeletionsMiss(linked)[e]
    BY <1>4
  <2>2. /\ deletion[e].step = "checked" /\ deletion'[e].place = deletion[e].place
        /\ q \notin linked /\ q \notin deletion[e].changed
    BY <1>2, <2>1, Missed
  <2> QED BY <1>3, <2>2 DEF IInv, ChecksHold, SolePlaceOf
<1>8. LooksHold'
  <2> SUFFICES ASSUME NEW s \in Submissions, NEW q \in Opportunities,
                      submission'[s].opportunity = q, ~submission'[s].changed
               PROVE  Placed(q)'
    BY DEF LooksHold
  <2>1. submission[s].opportunity = q /\ q \notin linked /\ ~submission[s].changed
    BY <1>1, <1>2, Missed
  <2> QED BY <1>3, <2>1 DEF IInv, LooksHold, Placed
<1> QED BY <1>5, <1>6, <1>7, <1>8 DEF IInv

\* The steps of a deletion up to the last.
LEMMA DeletionStep ==
  ASSUME IInv, NEW d \in Deletions,
         (\E p \in PlaceIds : getById(d, p)) \/ checksSolePlace(d) \/ DeletionFails(d)
  PROVE  IInv'
<1>1. UNCHANGED <<place, opportunity, edit, submission>>
  BY DEF getById, checksSolePlace, DeletionFails
<1>2. TypeOK /\ deletion[d] \in Deletion
  BY DEF IInv, TypeOK
<1>3. /\ deletion' \in [Deletions -> Deletion]
      /\ \A e \in Deletions \ {d} : deletion'[e] = deletion[e]
      /\ deletion'[d].step = "checked" =>
           /\ deletion[d].step = "found" /\ ~existsWithSolePlace(deletion[d].place)
           /\ deletion'[d].place = deletion[d].place
  <2>1. CASE \E p \in PlaceIds : getById(d, p)
    <3>1. PICK p \in PlaceIds : getById(d, p)
      BY <2>1
    <3>2. [step |-> "found", place |-> p, changed |-> {}] \in Deletion
      BY DEF Deletion
    <3> QED BY <1>2, <3>1, <3>2 DEF getById, TypeOK
  <2>2. CASE checksSolePlace(d)
    <3>1. [deletion[d] EXCEPT !.step = "checked"] \in Deletion
      BY <1>2 DEF Deletion
    <3>2. CASE existsWithSolePlace(deletion[d].place)
      BY <1>2, <2>2, <3>2, IdleTypes DEF checksSolePlace, NoDeletion, TypeOK
    <3>3. CASE ~existsWithSolePlace(deletion[d].place)
      <4>1. deletion' = [deletion EXCEPT ![d] = [deletion[d] EXCEPT !.step = "checked"]]
        BY <1>2, <2>2, <3>3 DEF checksSolePlace, TypeOK
      <4>2. [deletion[d] EXCEPT !.step = "checked"].place = deletion[d].place
        BY <1>2 DEF Deletion
      <4> QED BY <1>2, <2>2, <3>1, <3>3, <4>1, <4>2 DEF checksSolePlace, TypeOK
    <3> QED BY <3>2, <3>3
  <2>3. CASE DeletionFails(d)
    BY <1>2, <2>3, IdleTypes DEF DeletionFails, NoDeletion, TypeOK
  <2> QED BY <2>1, <2>2, <2>3
<1>4. TypeOK' /\ LinksExist' /\ LooksHold'
  BY <1>1, <1>2, <1>3 DEF IInv, TypeOK, LinksExist, Existing, LooksHold, Placed
<1>5. ChecksHold'
  BY <1>1, <1>3 DEF IInv, ChecksHold, SolePlaceOf, existsWithSolePlace
<1> QED BY <1>4, <1>5 DEF IInv

\* The steps of edits and submissions that write no opportunity.
LEMMA ReadersStep ==
  ASSUME IInv,
         \/ \E o \in Opportunities, nationalTerritory \in BOOLEAN, placeIds \in SUBSET PlaceIds :
              \E e \in Edits : OperatorUpdate(e, o, nationalTerritory, placeIds)
         \/ \E e \in Edits : EditFails(e)
         \/ \E s \in Submissions :
              (\E o \in Opportunities : OperatorRequestTest(s, o)) \/ SubmissionFails(s)
  PROVE  IInv'
<1>1. UNCHANGED <<place, opportunity, deletion>>
  BY DEF OperatorUpdate, EditFails, OperatorRequestTest, SubmissionFails
<1>2. TypeOK
  BY DEF IInv
<1>3. edit' \in [Edits -> Edit]
  <2>1. CASE \E o \in Opportunities, nationalTerritory \in BOOLEAN, placeIds \in SUBSET PlaceIds :
               \E e \in Edits : OperatorUpdate(e, o, nationalTerritory, placeIds)
    <3>1. PICK o \in Opportunities, nationalTerritory \in BOOLEAN, placeIds \in SUBSET PlaceIds,
               e \in Edits : OperatorUpdate(e, o, nationalTerritory, placeIds)
      BY <2>1
    <3>2. opportunity[o].status \in Status
      BY <1>2 DEF TypeOK, Opportunity
    <3>3. PICK status \in Replaced(opportunity[o].status) :
            edit' = [edit EXCEPT ![e] =
              [opportunity |-> o, fresh |-> TRUE,
               to |-> [status |-> status, nationalTerritory |-> nationalTerritory,
                       placeIds |-> placeIds]]]
      BY <3>1 DEF OperatorUpdate
    <3>4. status \in Status
      BY <3>2, <3>3 DEF Replaced, Status
    <3>5. [opportunity |-> o, fresh |-> TRUE,
           to |-> [status |-> status, nationalTerritory |-> nationalTerritory,
                   placeIds |-> placeIds]] \in Edit
      BY <3>4 DEF Edit, Opportunity
    <3> QED BY <1>2, <3>3, <3>5 DEF TypeOK
  <2>2. CASE ~\E o \in Opportunities, nationalTerritory \in BOOLEAN, placeIds \in SUBSET PlaceIds :
                \E e \in Edits : OperatorUpdate(e, o, nationalTerritory, placeIds)
    BY <1>2, <2>2, IdleTypes DEF EditFails, OperatorRequestTest, SubmissionFails, TypeOK
  <2> QED BY <2>1, <2>2
<1>4. /\ submission' \in [Submissions -> Submission]
      /\ LooksHold'
  <2>1. CASE UNCHANGED submission
    BY <1>1, <1>2, <2>1 DEF IInv, LooksHold, Placed, TypeOK
  <2>2. ASSUME NEW s \in Submissions, NEW o \in Opportunities, OperatorRequestTest(s, o)
        PROVE  submission' \in [Submissions -> Submission] /\ LooksHold'
    <3>1. [opportunity |-> o, from |-> opportunity[o].status, changed |-> FALSE] \in Submission
      BY <1>2 DEF Submission, TypeOK, Opportunity
    <3> QED BY <1>1, <1>2, <2>2, <3>1 DEF OperatorRequestTest, IInv, LooksHold, Placed, TypeOK
  <2>3. ASSUME NEW s \in Submissions, SubmissionFails(s)
        PROVE  submission' \in [Submissions -> Submission] /\ LooksHold'
    BY <1>1, <1>2, <2>3, IdleTypes, NoneAssumption
    DEF SubmissionFails, IInv, LooksHold, Placed, TypeOK, NoSubmission
  <2> QED BY <2>1, <2>2, <2>3 DEF OperatorUpdate, EditFails
<1>5. TypeOK' /\ LinksExist' /\ ChecksHold'
  BY <1>1, <1>2, <1>3, <1>4 DEF IInv, TypeOK, LinksExist, Existing, ChecksHold, SolePlaceOf
<1> QED BY <1>4, <1>5 DEF IInv

\* Every step keeps the invariant.
LEMMA InvStep == ASSUME IInv, [Next]_vars PROVE IInv'
<1>1. CASE UNCHANGED vars
  BY <1>1 DEF vars, IInv, TypeOK, LinksExist, Existing, ChecksHold, SolePlaceOf, LooksHold, Placed
<1>2. CASE Next
  BY <1>2, WritersStep, CreatesPlaceStep, DeletesPlaceStep, DeletionStep, ReadersStep DEF Next
<1> QED BY <1>1, <1>2

\* The invariant holds in every state.
THEOREM Invariance == Spec => []IInv
<1>1. Init => IInv
  BY IdleTypes, NoneAssumption
  DEF Init, IInv, TypeOK, LinksExist, Absent, ChecksHold, NoDeletion, LooksHold, NoSubmission
<1>2. IInv /\ [Next]_vars => IInv'
  BY InvStep
<1> QED BY <1>1, <1>2, PTL DEF Spec

(***************************************************************************)
(* The theorems.                                                           *)
(***************************************************************************)
\* The state has its type.
THEOREM TypeCorrect == Spec => []TypeOK
<1>1. IInv => TypeOK
  BY DEF IInv
<1> QED BY <1>1, Invariance, PTL

\* No opportunity ever links to a place that is gone, however edits and deletions
\* of places interleave.
THEOREM LinksAreAlive == Spec => []LinksExist
<1>1. IInv => LinksExist
  BY DEF IInv
<1> QED BY <1>1, Invariance, PTL

\* The deletion of a place strands an active opportunity only if that one was
\* written, or lost another link, after the deletion had looked.
THEOREM DeletionsAreCareful == Spec => DeletionsStrandOnlyChanged
<1>1. IInv /\ [Next]_vars =>
        [\A d \in Deletions, o \in Opportunities :
           /\ deletion[d].step = "checked" /\ deletion'[d].step = "no"
           /\ opportunity[o].placeIds # {} /\ Stranded(o)'
           => o \in deletion[d].changed]_vars
  <2> SUFFICES ASSUME IInv, Next, NEW d \in Deletions, NEW o \in Opportunities,
                      deletion[d].step = "checked", deletion'[d].step = "no",
                      opportunity[o].placeIds # {}, Stranded(o)'
               PROVE  o \in deletion[d].changed
    OBVIOUS
  <2>1. TypeOK
    BY DEF IInv
  <2>2. ASSUME NEW q \in Opportunities, deletion' = DeletionsMiss({q}) PROVE FALSE
    BY <2>1, <2>2, Missed
  <2>3. CASE \E e \in Edits : updateByIdAndOperatorId(e)
    BY <2>1, <2>2, <2>3 DEF updateByIdAndOperatorId, Writes, TypeOK, Edit
  <2>4. CASE \E s \in Submissions : updateStatusByIdAndOperatorId(s)
    BY <2>1, <2>2, <2>4 DEF updateStatusByIdAndOperatorId, Writes, TypeOK, Submission
  <2>5. CASE \/ \E q \in Opportunities, to \in Status : MoveStatus(q, to)
             \/ \E q \in Opportunities, n \in BOOLEAN, P \in SUBSET PlaceIds :
                  CreateOpportunity(q, n, P)
    BY <2>2, <2>5 DEF MoveStatus, CreateOpportunity, Writes
  <2>6. CASE \E e \in Deletions : deleteByIdAndOperatorId(e)
    <3>1. PICK e \in Deletions : deleteByIdAndOperatorId(e)
      BY <2>6
    <3> DEFINE p == deletion[e].place
               linked == {q \in Opportunities : p \in opportunity[q].placeIds}
    <3>2. /\ deletion' = [DeletionsMiss(linked) EXCEPT ![e] = NoDeletion]
          /\ opportunity'[o] = [opportunity[o] EXCEPT !.placeIds = @ \ {p}]
      BY <3>1 DEF deleteByIdAndOperatorId
    <3>3. linked \in SUBSET Opportunities
      OBVIOUS
    <3> HIDE DEF linked, p
    <3>4. e = d
      BY <2>1, <3>2, <3>3, Missed
    <3>5. opportunity[o] \in Opportunity
      BY <2>1 DEF TypeOK
    <3>6. /\ opportunity[o].placeIds = {p}
          /\ ~opportunity[o].nationalTerritory /\ opportunity[o].status \in blockingStatuses
      BY <3>2, <3>5 DEF Stranded, Placed, Opportunity
    <3> QED BY <3>4, <3>6 DEF p, IInv, ChecksHold, SolePlaceOf
  <2>7. CASE \E e \in Deletions : DeletionFails(e)
    BY <2>7 DEF DeletionFails, Stranded, Placed
  <2>8. CASE \E e \in Deletions : checksSolePlace(e) \/ \E p \in PlaceIds : getById(e, p)
    BY <2>1, <2>8 DEF checksSolePlace, getById, TypeOK
  <2>9. CASE deletion' = deletion
    BY <2>9
  <2> QED
    BY <2>3, <2>4, <2>5, <2>6, <2>7, <2>8, <2>9
    DEF Next, CreatePlace, OperatorUpdate, EditFails, OperatorRequestTest, SubmissionFails
<1> QED BY <1>1, Invariance, PTL DEF Spec, DeletionsStrandOnlyChanged

\* A submission that nobody overtook is of an opportunity with a place or the
\* national territory.
THEOREM SubmissionsHavePlaces == Spec => SubmissionsArePlaced
<1>1. IInv /\ [Next]_vars =>
        [\A s \in Submissions, o \in Opportunities :
           /\ submission[s].opportunity = o /\ submission'[s].opportunity = None
           /\ opportunity' # opportunity
           => submission[s].changed \/ Placed(o)']_vars
  <2> SUFFICES ASSUME IInv, Next, NEW s \in Submissions, NEW o \in Opportunities,
                      submission[s].opportunity = o, submission'[s].opportunity = None,
                      opportunity' # opportunity, ~submission[s].changed
               PROVE  Placed(o)'
    OBVIOUS
  <2>1. TypeOK /\ o # None /\ Placed(o)
    BY NoneAssumption DEF IInv, LooksHold
  <2>2. ASSUME NEW O \in SUBSET Opportunities, submission' = SubmissionsMiss(O) PROVE FALSE
    BY <2>1, <2>2, Missed
  <2>3. CASE \E z \in Submissions : updateStatusByIdAndOperatorId(z)
    <3>1. PICK z \in Submissions : updateStatusByIdAndOperatorId(z)
      BY <2>3
    <3> DEFINE q == submission[z].opportunity
    <3>2. /\ q \in Opportunities
          /\ submission' = [SubmissionsMiss({q}) EXCEPT ![z] = NoSubmission]
          /\ opportunity' = [opportunity EXCEPT ![q] = [opportunity[q] EXCEPT
                                                         !.status = "test_pending"]]
      BY <2>1, <3>1 DEF updateStatusByIdAndOperatorId, Writes, TypeOK, Submission
    <3>3. opportunity[q] \in Opportunity /\ opportunity[o] \in Opportunity
      BY <2>1, <3>2 DEF TypeOK
    <3> QED BY <2>1, <3>2, <3>3 DEF Placed, Opportunity, TypeOK
  <2>4. CASE \E d \in Deletions : deleteByIdAndOperatorId(d)
    BY <2>2, <2>4 DEF deleteByIdAndOperatorId
  <2>5. CASE \E e \in Edits : updateByIdAndOperatorId(e)
    BY <2>1, <2>2, <2>5 DEF updateByIdAndOperatorId, TypeOK, Edit
  <2>6. CASE \/ \E q \in Opportunities, to \in Status : MoveStatus(q, to)
             \/ \E q \in Opportunities, n \in BOOLEAN, P \in SUBSET PlaceIds :
                  CreateOpportunity(q, n, P)
    BY <2>2, <2>6 DEF MoveStatus, CreateOpportunity
  <2> QED
    BY <2>3, <2>4, <2>5, <2>6
    DEF Next, CreatePlace, getById, checksSolePlace, DeletionFails, OperatorUpdate, EditFails,
        OperatorRequestTest, SubmissionFails
<1> QED BY <1>1, Invariance, PTL DEF Spec, SubmissionsArePlaced
================================================================================
