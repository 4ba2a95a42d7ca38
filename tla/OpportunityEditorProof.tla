------------------------ MODULE OpportunityEditorProof ------------------------
(***************************************************************************)
(* Proofs about OpportunityEditor, for any benefits and any number of      *)
(* writes and drafts.                                                      *)
(*                                                                         *)
(* The three action properties speak of a save when it is carried out; the *)
(* invariant says what the save in flight, the detail and the form have in *)
(* common with the row until then.  Versions are what ties them: a copy    *)
(* that has the version of the row agrees with it, whatever came between.  *)
(***************************************************************************)
EXTENDS OpportunityEditor, TLAPS

USE DEF OnOffer

\* A suspension is scheduled only of what is on offer.
RowFits ==
  /\ row.scheduled => row.status \in OnOffer
  /\ row.status = "scheduled_suspension" => row.scheduled

\* A status read, and the status of the row at the same version: they differ
\* when a date has come.
StillHas(status) ==
  \/ row.status = status
  \/ row.scheduled /\ {row.status, status} \subseteq OnOffer

\* The detail is an earlier row, or this one.
DetailIsOld ==
  detail # NoDetail =>
    /\ detail.version <= row.version
    /\ detail.version = row.version =>
         /\ detail.content = row.content
         /\ detail.benefit = row.benefit
         /\ StillHas(detail.status)

\* As long as nothing came back, the form and the detail are one copy.
FormIsOfDetail ==
  sure /\ hydrated /\ page = "edit" =>
    /\ ~fetching
    /\ detail # NoDetail
    /\ form.content = detail.content

\* What the operator was told, and what the form was filled from, are right for
\* as long as the save in flight can land.
SaveFitsRow ==
  saving.kind = "put" =>
    /\ saving.version <= row.version
    /\ saving.version = row.version =>
         /\ saving.sure => saving.base = row.content
         /\ StillHas(saving.status)
         /\ saving.told = "immediate" =>
              /\ saving.status \notin {"draft", "test_rejected"}
              /\ saving.status = "published" => saving.benefit = row.benefit
         /\ saving.told = "review" =>
              \/ saving.status \in {"draft", "test_rejected"}
              \/ saving.status = "published" /\ saving.benefit # row.benefit

\* The form has not become a draft, or the approval of that draft is under way.
NoDraftYet ==
  /\ sure /\ asking # "new" => drafts = 0
  /\ saving.kind = "post" /\ saving.sure => drafts = 0

\* What the copies of the row have in common with it.
CopiesFit ==
  /\ TypeOK
  /\ DetailIsOld
  /\ FormIsOfDetail
  /\ SaveFitsRow
  /\ NoDraftYet

IInv == RowFits /\ CopiesFit

(***************************************************************************)
(* The steps.                                                              *)
(***************************************************************************)
\* There is a benefit to leave in an empty form.
LEMMA AnyBenefitIsOne == AnyBenefit \in Benefits
  BY EditorAssumption DEF AnyBenefit

\* The blank form and the absent save have their types.
LEMMA BlankForms == EmptyForm \in Form /\ NoSave \in Put \cup Post \cup {NoSave}
  BY AnyBenefitIsOne, EditorAssumption DEF EmptyForm, Filled, Form

\* Below the bound on versions, what a save and a submission write is a row.
LEMMA RowsWritten ==
  ASSUME TypeOK, row.version < MaxVersion
  PROVE  /\ Submitted \in Row
         /\ saving.kind = "put" => Replaced \in Row
<1>1. Submitted \in Row
  <2>1. row.version + 1 \in Versions
    BY EditorAssumption DEF TypeOK, Row, Versions
  <2>2. QED
    BY <2>1 DEF TypeOK, Submitted, Row, Status
<1>2. ASSUME saving.kind = "put" PROVE Replaced \in Row
  BY <1>2, EditorAssumption DEF TypeOK, Replaced, Row, Versions, Status, Put, Post, NoSave
<1> QED BY <1>1, <1>2

\* Asking for approval either leaves the row alone or gives it a version.
LEMMA SubmissionsWrite ==
  ASSUME TypeOK, Submits \/ row' = row
  PROVE  row' = row \/ (row' = Submitted /\ row' \in Row /\ row'.version = row.version + 1)
<1>1. CASE row.version < MaxVersion /\ row' = Submitted
  <2>1. Submitted.version = row.version + 1
    BY DEF Submitted, TypeOK, Row
  <2>2. QED
    BY <1>1, <2>1, RowsWritten
<1>2. QED
  BY <1>1 DEF Submits

\* A copy stays as old as it is while nobody writes.
LEMMA CopiesStay ==
  ASSUME DetailIsOld, SaveFitsRow, UNCHANGED <<row, detail, saving>>
  PROVE  DetailIsOld' /\ SaveFitsRow'
BY DEF DetailIsOld, SaveFitsRow, StillHas

\* What the operator does on the page.
LEMMA PageStep == ASSUME IInv, Page PROVE CopiesFit'
<1>1. ASSUME OpensForEdit PROVE CopiesFit'
  <2>1. TypeOK'
    BY <1>1 DEF IInv, CopiesFit, TypeOK, OpensForEdit
  <2>2. DetailIsOld' /\ SaveFitsRow'
    BY <1>1, CopiesStay DEF IInv, CopiesFit, OpensForEdit
  <2>3. FormIsOfDetail'
    BY <1>1 DEF IInv, CopiesFit, FormIsOfDetail, OpensForEdit
  <2>4. NoDraftYet'
    BY <1>1 DEF IInv, CopiesFit, NoDraftYet, NoSave, OpensForEdit
  <2> QED BY <2>1, <2>2, <2>3, <2>4 DEF CopiesFit
<1>2. ASSUME OpensForCreation PROVE CopiesFit'
  <2>1. TypeOK'
    <3>1. form' \in Form
      BY <1>2, BlankForms, EditorAssumption DEF IInv, CopiesFit, TypeOK, OpensForCreation
    <3>2. drafts' \in 0..MaxDrafts
      BY <1>2, EditorAssumption DEF IInv, CopiesFit, TypeOK, OpensForCreation
    <3>3. /\ row' \in Row
         /\ detail' \in Row \cup {NoDetail}
         /\ saving' \in Put \cup Post \cup {NoSave}
      BY <1>2 DEF IInv, CopiesFit, TypeOK, OpensForCreation
    <3>4. fetching' \in BOOLEAN /\ hydrated' \in BOOLEAN /\ sure' \in BOOLEAN
      BY <1>2 DEF IInv, CopiesFit, TypeOK, OpensForCreation
    <3>5. page' \in {"closed", "edit", "create"} /\ asking' \in {"nothing", "row", "new"}
      BY <1>2 DEF IInv, CopiesFit, TypeOK, OpensForCreation
    <3> QED BY <3>1, <3>2, <3>3, <3>4, <3>5 DEF TypeOK
  <2>2. DetailIsOld' /\ SaveFitsRow'
    BY <1>2, CopiesStay DEF IInv, CopiesFit, OpensForCreation
  <2>3. FormIsOfDetail'
    BY <1>2 DEF IInv, CopiesFit, FormIsOfDetail, OpensForCreation, EmptyForm, Filled
  <2>4. NoDraftYet'
    BY <1>2 DEF IInv, CopiesFit, NoDraftYet, NoSave, OpensForCreation, EmptyForm, Filled
  <2> QED BY <2>1, <2>2, <2>3, <2>4 DEF CopiesFit
<1>3. ASSUME Leaves PROVE CopiesFit'
  <2>1. TypeOK'
    BY <1>3 DEF IInv, CopiesFit, TypeOK, Leaves
  <2>2. DetailIsOld' /\ SaveFitsRow'
    BY <1>3, CopiesStay DEF IInv, CopiesFit, Leaves
  <2>3. FormIsOfDetail'
    BY <1>3 DEF IInv, CopiesFit, FormIsOfDetail, Leaves
  <2>4. NoDraftYet'
    BY <1>3 DEF IInv, CopiesFit, NoDraftYet, NoSave, Leaves
  <2> QED BY <2>1, <2>2, <2>3, <2>4 DEF CopiesFit
<1>4. ASSUME NEW b \in Benefits, Hydrates(b) PROVE CopiesFit'
  <2>1. TypeOK'
    BY <1>4, AnyBenefitIsOne, EditorAssumption DEF IInv, CopiesFit, TypeOK, Row, Put,
       Post, NoSave, NoDetail, Form, Versions, Status, Hydrates, Filled
  <2>2. DetailIsOld' /\ SaveFitsRow'
    BY <1>4, CopiesStay DEF IInv, CopiesFit, Hydrates
  <2>3. FormIsOfDetail'
    BY <1>4 DEF IInv, CopiesFit, FormIsOfDetail, Hydrates, Filled
  <2>4. NoDraftYet'
    BY <1>4 DEF IInv, CopiesFit, NoDraftYet, NoSave, Hydrates, Filled
  <2> QED BY <2>1, <2>2, <2>3, <2>4 DEF CopiesFit
<1>5. ASSUME Begins PROVE CopiesFit'
  <2>1. TypeOK'
    BY <1>5, AnyBenefitIsOne, EditorAssumption DEF IInv, CopiesFit, TypeOK, Row, Put,
       Post, NoSave, NoDetail, Form, Versions, Status, Begins, Filled
  <2>2. DetailIsOld' /\ SaveFitsRow'
    BY <1>5, CopiesStay DEF IInv, CopiesFit, Begins
  <2>3. FormIsOfDetail'
    BY <1>5 DEF IInv, CopiesFit, FormIsOfDetail, Begins, Filled
  <2>4. NoDraftYet'
    BY <1>5 DEF IInv, CopiesFit, NoDraftYet, NoSave, Begins, Filled
  <2> QED BY <2>1, <2>2, <2>3, <2>4 DEF CopiesFit
<1>6. ASSUME NEW b \in Benefits, EditsAnother(b) PROVE CopiesFit'
  <2>1. TypeOK'
    <3>1. form' \in Form
      BY <1>6, BlankForms, EditorAssumption DEF IInv, CopiesFit, TypeOK, EditsAnother,
         Filled, Form
    <3>2. drafts' \in 0..MaxDrafts
      BY <1>6, EditorAssumption DEF IInv, CopiesFit, TypeOK, EditsAnother, Filled, Form
    <3>3. /\ row' \in Row
         /\ detail' \in Row \cup {NoDetail}
         /\ saving' \in Put \cup Post \cup {NoSave}
      BY <1>6 DEF IInv, CopiesFit, TypeOK, EditsAnother, Filled, Form
    <3>4. fetching' \in BOOLEAN /\ hydrated' \in BOOLEAN /\ sure' \in BOOLEAN
      BY <1>6 DEF IInv, CopiesFit, TypeOK, EditsAnother, Filled, Form
    <3>5. page' \in {"closed", "edit", "create"} /\ asking' \in {"nothing", "row", "new"}
      BY <1>6 DEF IInv, CopiesFit, TypeOK, EditsAnother, Filled, Form
    <3> QED BY <3>1, <3>2, <3>3, <3>4, <3>5 DEF TypeOK
  <2>2. DetailIsOld' /\ SaveFitsRow'
    BY <1>6, CopiesStay DEF IInv, CopiesFit, EditsAnother
  <2>3. FormIsOfDetail'
    BY <1>6 DEF IInv, CopiesFit, FormIsOfDetail, EditsAnother, Filled
  <2>4. NoDraftYet'
    BY <1>6 DEF IInv, CopiesFit, NoDraftYet, NoSave, EditsAnother, Filled
  <2> QED BY <2>1, <2>2, <2>3, <2>4 DEF CopiesFit
<1>7. ASSUME NEW b \in Benefits, Types(b) PROVE CopiesFit'
  <2>1. TypeOK'
    BY <1>7, AnyBenefitIsOne, EditorAssumption DEF IInv, CopiesFit, TypeOK, Row, Put,
       Post, NoSave, NoDetail, Form, Versions, Status, Types, visit
  <2>2. DetailIsOld' /\ SaveFitsRow'
    BY <1>7, CopiesStay DEF IInv, CopiesFit, Types, visit
  <2>3. FormIsOfDetail'
    BY <1>7 DEF IInv, CopiesFit, FormIsOfDetail, Types, visit
  <2>4. NoDraftYet'
    BY <1>7 DEF IInv, CopiesFit, NoDraftYet, NoSave, Types, visit
  <2> QED BY <2>1, <2>2, <2>3, <2>4 DEF CopiesFit
<1>8. ASSUME NEW clicked \in {"draft", "confirm"}, Saves(clicked) PROVE CopiesFit'
  <2>1. TypeOK'
    BY <1>8, AnyBenefitIsOne, EditorAssumption DEF IInv, CopiesFit, TypeOK, Row, Put,
       Post, NoSave, NoDetail, Form, Versions, Status, Saves, Told, CanSave,
       IsReviewRequired, visit
  <2>2. DetailIsOld'
    BY <1>8 DEF IInv, CopiesFit, DetailIsOld, StillHas, Saves, Told, CanSave,
       IsReviewRequired, visit
  <2>3. FormIsOfDetail'
    BY <1>8 DEF IInv, CopiesFit, FormIsOfDetail, Saves, Told, CanSave, IsReviewRequired,
       visit
  <2>4. SaveFitsRow'
    BY <1>8, AnyBenefitIsOne, EditorAssumption DEF IInv, CopiesFit, TypeOK, DetailIsOld,
       FormIsOfDetail, SaveFitsRow, StillHas, NoSave, NoDetail, Row, Versions,
       Saves, Told, CanSave, IsReviewRequired, visit
  <2>5. NoDraftYet'
    BY <1>8 DEF IInv, CopiesFit, NoDraftYet, NoSave, Saves, Told, CanSave,
       IsReviewRequired, visit
  <2> QED BY <2>1, <2>2, <2>3, <2>4, <2>5 DEF CopiesFit
<1> QED BY <1>1, <1>2, <1>3, <1>4, <1>5, <1>6, <1>7, <1>8 DEF Page

\* What comes back to the tab.
LEMMA AnswerStep == ASSUME IInv, Answers PROVE CopiesFit'
<1>1. ASSUME PutSucceeds PROVE CopiesFit'
  <2>1. TypeOK'
    <3>1. form' \in Form
      BY <1>1, BlankForms, EditorAssumption DEF IInv, CopiesFit, TypeOK, PutSucceeds,
         CanReplace, AsksFor, EndsVisit, ClearsForm, Invalidates
    <3>2. drafts' \in 0..MaxDrafts
      BY <1>1, EditorAssumption DEF IInv, CopiesFit, TypeOK, PutSucceeds, CanReplace,
         AsksFor, EndsVisit, ClearsForm, Invalidates
    <3>3. /\ row' \in Row
         /\ detail' \in Row \cup {NoDetail}
         /\ saving' \in Put \cup Post \cup {NoSave}
      BY <1>1, RowsWritten, BlankForms DEF IInv, CopiesFit, TypeOK, PutSucceeds,
         CanReplace, AsksFor, EndsVisit, ClearsForm, Invalidates
    <3>4. fetching' \in BOOLEAN /\ hydrated' \in BOOLEAN /\ sure' \in BOOLEAN
      BY <1>1 DEF IInv, CopiesFit, TypeOK, PutSucceeds, CanReplace, AsksFor, EndsVisit,
         ClearsForm, Invalidates
    <3>5. page' \in {"closed", "edit", "create"} /\ asking' \in {"nothing", "row", "new"}
      BY <1>1 DEF IInv, CopiesFit, TypeOK, PutSucceeds, CanReplace, AsksFor, EndsVisit,
         ClearsForm, Invalidates
    <3> QED BY <3>1, <3>2, <3>3, <3>4, <3>5 DEF TypeOK
  <2>2. DetailIsOld'
    BY <1>1, AnyBenefitIsOne, EditorAssumption DEF IInv, CopiesFit, TypeOK, DetailIsOld,
       StillHas, Row, Versions, NoDetail, PutSucceeds, CanReplace,
       Replaceable, Replaced, AsksFor, EndsVisit, ClearsForm, EmptyForm,
       Filled, Invalidates
  <2>3. FormIsOfDetail'
    BY <1>1 DEF IInv, CopiesFit, FormIsOfDetail, PutSucceeds, CanReplace, Replaceable,
       Replaced, AsksFor, EndsVisit, ClearsForm, EmptyForm, Filled,
       Invalidates
  <2>4. SaveFitsRow'
    BY <1>1 DEF IInv, CopiesFit, SaveFitsRow, StillHas, NoSave, PutSucceeds, CanReplace,
       Replaceable, Replaced, AsksFor, EndsVisit, ClearsForm, EmptyForm,
       Filled, Invalidates
  <2>5. NoDraftYet'
    BY <1>1 DEF IInv, CopiesFit, NoDraftYet, NoSave, PutSucceeds, CanReplace,
       Replaceable, Replaced, AsksFor, EndsVisit, ClearsForm, EmptyForm,
       Filled, Invalidates
  <2> QED BY <2>1, <2>2, <2>3, <2>4, <2>5 DEF CopiesFit
<1>2. ASSUME PutFails PROVE CopiesFit'
  <2>1. TypeOK'
    BY <1>2, RowsWritten DEF IInv, CopiesFit, TypeOK, PutFails, CanReplace, Invalidates
  <2>2. DetailIsOld'
    BY <1>2, AnyBenefitIsOne, EditorAssumption DEF IInv, CopiesFit, TypeOK, DetailIsOld,
       StillHas, Row, Versions, NoDetail, PutFails, CanReplace, Replaceable,
       Replaced, Invalidates
  <2>3. FormIsOfDetail'
    BY <1>2 DEF IInv, CopiesFit, FormIsOfDetail, PutFails, CanReplace, Replaceable,
       Replaced, Invalidates
  <2>4. SaveFitsRow'
    BY <1>2 DEF IInv, CopiesFit, SaveFitsRow, StillHas, NoSave, PutFails, CanReplace,
       Replaceable, Replaced, Invalidates
  <2>5. NoDraftYet'
    BY <1>2 DEF IInv, CopiesFit, NoDraftYet, NoSave, PutFails, CanReplace, Replaceable,
       Replaced, Invalidates
  <2> QED BY <2>1, <2>2, <2>3, <2>4, <2>5 DEF CopiesFit
<1>3. ASSUME PostSucceeds PROVE CopiesFit'
  <2>1. TypeOK'
    BY <1>3, AnyBenefitIsOne, EditorAssumption DEF IInv, CopiesFit, TypeOK, Row, Put,
       Post, NoSave, NoDetail, Form, Versions, Status, PostSucceeds, AsksFor,
       EndsVisit, ClearsForm, EmptyForm, Filled
  <2>2. DetailIsOld'
    BY <1>3 DEF IInv, CopiesFit, DetailIsOld, StillHas, PostSucceeds, AsksFor, EndsVisit,
       ClearsForm, EmptyForm, Filled
  <2>3. FormIsOfDetail'
    BY <1>3 DEF IInv, CopiesFit, FormIsOfDetail, PostSucceeds, AsksFor, EndsVisit,
       ClearsForm, EmptyForm, Filled
  <2>4. SaveFitsRow'
    BY <1>3 DEF IInv, CopiesFit, SaveFitsRow, StillHas, NoSave, PostSucceeds, AsksFor,
       EndsVisit, ClearsForm, EmptyForm, Filled
  <2>5. NoDraftYet'
    BY <1>3 DEF IInv, CopiesFit, NoDraftYet, NoSave, PostSucceeds, AsksFor, EndsVisit,
       ClearsForm, EmptyForm, Filled
  <2> QED BY <2>1, <2>2, <2>3, <2>4, <2>5 DEF CopiesFit
<1>4. ASSUME PostFails PROVE CopiesFit'
  <2>1. TypeOK'
    BY <1>4 DEF IInv, CopiesFit, TypeOK, PostFails
  <2>2. DetailIsOld'
    BY <1>4 DEF IInv, CopiesFit, DetailIsOld, StillHas, PostFails
  <2>3. FormIsOfDetail'
    BY <1>4 DEF IInv, CopiesFit, FormIsOfDetail, PostFails
  <2>4. SaveFitsRow'
    BY <1>4 DEF IInv, CopiesFit, SaveFitsRow, StillHas, NoSave, PostFails
  <2>5. NoDraftYet'
    BY <1>4 DEF IInv, CopiesFit, NoDraftYet, NoSave, PostFails
  <2> QED BY <2>1, <2>2, <2>3, <2>4, <2>5 DEF CopiesFit
<1>5. ASSUME AskSucceeds PROVE CopiesFit'
  <2>1. TypeOK'
    <3>1. form' \in Form
      BY <1>5, BlankForms, EditorAssumption DEF IInv, CopiesFit, TypeOK, AskSucceeds,
         Submits, AskEnds, ClearsForm, Invalidates
    <3>2. drafts' \in 0..MaxDrafts
      BY <1>5, EditorAssumption DEF IInv, CopiesFit, TypeOK, AskSucceeds, Submits,
         AskEnds, ClearsForm, Invalidates
    <3>3. /\ row' \in Row
         /\ detail' \in Row \cup {NoDetail}
         /\ saving' \in Put \cup Post \cup {NoSave}
      BY <1>5, RowsWritten DEF IInv, CopiesFit, TypeOK, AskSucceeds, Submits, AskEnds,
         ClearsForm, Invalidates
    <3>4. fetching' \in BOOLEAN /\ hydrated' \in BOOLEAN /\ sure' \in BOOLEAN
      BY <1>5 DEF IInv, CopiesFit, TypeOK, AskSucceeds, Submits, AskEnds, ClearsForm,
         Invalidates
    <3>5. page' \in {"closed", "edit", "create"} /\ asking' \in {"nothing", "row", "new"}
      BY <1>5 DEF IInv, CopiesFit, TypeOK, AskSucceeds, Submits, AskEnds, ClearsForm,
         Invalidates
    <3> QED BY <3>1, <3>2, <3>3, <3>4, <3>5 DEF TypeOK
  <2>2. DetailIsOld'
    <3>1. row' = row \/ row'.version = row.version + 1
      BY <1>5, SubmissionsWrite DEF IInv, CopiesFit, AskSucceeds
    <3>2. QED
      BY <1>5, <3>1, AnyBenefitIsOne DEF IInv, CopiesFit, TypeOK, DetailIsOld,
         StillHas, Put, Post, NoSave, Row, Versions, NoDetail, AskSucceeds, AskEnds, Invalidates
  <2>3. FormIsOfDetail'
    BY <1>5 DEF IInv, CopiesFit, FormIsOfDetail, AskSucceeds, Submits, CanSubmit,
       Submitted, AskEnds, ClearsForm, EmptyForm, Filled, Invalidates
  <2>4. SaveFitsRow'
    <3>1. row' = row \/ row'.version = row.version + 1
      BY <1>5, SubmissionsWrite DEF IInv, CopiesFit, AskSucceeds
    <3>2. QED
      BY <1>5, <3>1, AnyBenefitIsOne DEF IInv, CopiesFit, TypeOK, SaveFitsRow,
         StillHas, Put, Post, NoSave, Row, Versions, NoDetail, AskSucceeds, AskEnds, Invalidates
  <2>5. NoDraftYet'
    BY <1>5 DEF IInv, CopiesFit, NoDraftYet, NoSave, AskSucceeds, Submits, CanSubmit,
       Submitted, AskEnds, ClearsForm, EmptyForm, Filled, Invalidates
  <2> QED BY <2>1, <2>2, <2>3, <2>4, <2>5 DEF CopiesFit
<1>6. ASSUME AskConflicts PROVE CopiesFit'
  <2>1. TypeOK'
    <3>1. form' \in Form /\ drafts' \in 0..MaxDrafts
      BY <1>6, BlankForms, EditorAssumption DEF IInv, CopiesFit, TypeOK, AskConflicts, AskEnds,
         ClearsForm
    <3>2. detail' \in Row \cup {NoDetail} /\ fetching' \in BOOLEAN
      BY <1>6 DEF IInv, CopiesFit, TypeOK, AskConflicts, AskEnds, Invalidates
    <3>3. QED
      BY <1>6, <3>1, <3>2 DEF IInv, CopiesFit, TypeOK, AskConflicts, AskEnds
  <2>2. DetailIsOld'
    BY <1>6 DEF IInv, CopiesFit, DetailIsOld, StillHas, AskConflicts, AskEnds,
       ClearsForm, EmptyForm, Filled, Invalidates
  <2>3. FormIsOfDetail'
    BY <1>6 DEF IInv, CopiesFit, FormIsOfDetail, AskConflicts, AskEnds, ClearsForm,
       EmptyForm, Filled, Invalidates
  <2>4. SaveFitsRow'
    BY <1>6 DEF IInv, CopiesFit, SaveFitsRow, StillHas, NoSave, AskConflicts, AskEnds,
       ClearsForm, EmptyForm, Filled, Invalidates
  <2>5. NoDraftYet'
    BY <1>6 DEF IInv, CopiesFit, NoDraftYet, NoSave, AskConflicts, AskEnds, ClearsForm,
       EmptyForm, Filled, Invalidates
  <2> QED BY <2>1, <2>2, <2>3, <2>4, <2>5 DEF CopiesFit
<1>7. ASSUME AskFails PROVE CopiesFit'
  <2>1. TypeOK'
    <3>1. form' \in Form
      BY <1>7, BlankForms, EditorAssumption DEF IInv, CopiesFit, TypeOK, AskFails,
         Submits, AskEnds, ClearsForm, Invalidates
    <3>2. drafts' \in 0..MaxDrafts
      BY <1>7, EditorAssumption DEF IInv, CopiesFit, TypeOK, AskFails, Submits, AskEnds,
         ClearsForm, Invalidates
    <3>3. /\ row' \in Row
         /\ detail' \in Row \cup {NoDetail}
         /\ saving' \in Put \cup Post \cup {NoSave}
      BY <1>7, RowsWritten DEF IInv, CopiesFit, TypeOK, AskFails, Submits, AskEnds,
         ClearsForm, Invalidates
    <3>4. fetching' \in BOOLEAN /\ hydrated' \in BOOLEAN /\ sure' \in BOOLEAN
      BY <1>7 DEF IInv, CopiesFit, TypeOK, AskFails, Submits, AskEnds, ClearsForm,
         Invalidates
    <3>5. page' \in {"closed", "edit", "create"} /\ asking' \in {"nothing", "row", "new"}
      BY <1>7 DEF IInv, CopiesFit, TypeOK, AskFails, Submits, AskEnds, ClearsForm,
         Invalidates
    <3> QED BY <3>1, <3>2, <3>3, <3>4, <3>5 DEF TypeOK
  <2>2. DetailIsOld'
    <3>1. row' = row \/ row'.version = row.version + 1
      BY <1>7, SubmissionsWrite DEF IInv, CopiesFit, AskFails
    <3>2. QED
      BY <1>7, <3>1, AnyBenefitIsOne DEF IInv, CopiesFit, TypeOK, DetailIsOld,
         StillHas, Put, Post, NoSave, Row, Versions, NoDetail, AskFails, AskEnds, Invalidates
  <2>3. FormIsOfDetail'
    BY <1>7 DEF IInv, CopiesFit, FormIsOfDetail, AskFails, Submits, CanSubmit, Submitted,
       AskEnds, ClearsForm, EmptyForm, Filled, Invalidates
  <2>4. SaveFitsRow'
    <3>1. row' = row \/ row'.version = row.version + 1
      BY <1>7, SubmissionsWrite DEF IInv, CopiesFit, AskFails
    <3>2. QED
      BY <1>7, <3>1, AnyBenefitIsOne DEF IInv, CopiesFit, TypeOK, SaveFitsRow,
         StillHas, Put, Post, NoSave, Row, Versions, NoDetail, AskFails, AskEnds, Invalidates
  <2>5. NoDraftYet'
    BY <1>7 DEF IInv, CopiesFit, NoDraftYet, NoSave, AskFails, Submits, CanSubmit,
       Submitted, AskEnds, ClearsForm, EmptyForm, Filled, Invalidates
  <2> QED BY <2>1, <2>2, <2>3, <2>4, <2>5 DEF CopiesFit
<1>8. ASSUME Fetches PROVE CopiesFit'
  <2>1. TypeOK'
    BY <1>8 DEF IInv, CopiesFit, TypeOK, Fetches, visit
  <2>2. DetailIsOld'
    BY <1>8, AnyBenefitIsOne, EditorAssumption DEF IInv, CopiesFit, TypeOK, DetailIsOld,
       StillHas, Row, Versions, NoDetail, Fetches, visit
  <2>3. FormIsOfDetail'
    BY <1>8 DEF IInv, CopiesFit, FormIsOfDetail, Fetches, visit
  <2>4. SaveFitsRow'
    BY <1>8 DEF IInv, CopiesFit, SaveFitsRow, StillHas, NoSave, Fetches, visit
  <2>5. NoDraftYet'
    BY <1>8 DEF IInv, CopiesFit, NoDraftYet, NoSave, Fetches, visit
  <2> QED BY <2>1, <2>2, <2>3, <2>4, <2>5 DEF CopiesFit
<1>9. ASSUME IsViewed PROVE CopiesFit'
  <2>1. TypeOK'
    BY <1>9 DEF IInv, CopiesFit, TypeOK, IsViewed, visit
  <2>2. DetailIsOld'
    BY <1>9 DEF IInv, CopiesFit, DetailIsOld, StillHas, IsViewed, visit
  <2>3. FormIsOfDetail'
    BY <1>9 DEF IInv, CopiesFit, FormIsOfDetail, IsViewed, visit
  <2>4. SaveFitsRow'
    BY <1>9 DEF IInv, CopiesFit, SaveFitsRow, StillHas, NoSave, IsViewed, visit
  <2>5. NoDraftYet'
    BY <1>9 DEF IInv, CopiesFit, NoDraftYet, NoSave, IsViewed, visit
  <2> QED BY <2>1, <2>2, <2>3, <2>4, <2>5 DEF CopiesFit
<1>10. ASSUME ActionEnds PROVE CopiesFit'
  <2>1. TypeOK'
    BY <1>10 DEF IInv, CopiesFit, TypeOK, ActionEnds, Invalidates
  <2>2. DetailIsOld'
    BY <1>10 DEF IInv, CopiesFit, DetailIsOld, StillHas, ActionEnds, Invalidates
  <2>3. FormIsOfDetail'
    BY <1>10 DEF FormIsOfDetail, ActionEnds
  <2>4. SaveFitsRow'
    BY <1>10 DEF IInv, CopiesFit, SaveFitsRow, StillHas, NoSave, ActionEnds, Invalidates
  <2>5. NoDraftYet'
    BY <1>10 DEF IInv, CopiesFit, NoDraftYet, NoSave, ActionEnds
  <2> QED BY <2>1, <2>2, <2>3, <2>4, <2>5 DEF CopiesFit
<1>11. ASSUME Expires PROVE CopiesFit'
  <2>1. TypeOK'
    BY <1>11 DEF IInv, CopiesFit, TypeOK, Expires, visit
  <2>2. DetailIsOld'
    BY <1>11 DEF IInv, CopiesFit, DetailIsOld, StillHas, Expires, visit
  <2>3. FormIsOfDetail'
    BY <1>11 DEF IInv, CopiesFit, FormIsOfDetail, Expires, visit
  <2>4. SaveFitsRow'
    BY <1>11 DEF IInv, CopiesFit, SaveFitsRow, StillHas, NoSave, Expires, visit
  <2>5. NoDraftYet'
    BY <1>11 DEF IInv, CopiesFit, NoDraftYet, NoSave, Expires, visit
  <2> QED BY <2>1, <2>2, <2>3, <2>4, <2>5 DEF CopiesFit
<1> QED BY <1>1, <1>2, <1>3, <1>4, <1>5, <1>6, <1>7, <1>8, <1>9, <1>10, <1>11 DEF Answers

\* A suspension stays scheduled of what is on offer.
LEMMA RowStaysFit == ASSUME IInv, [Next]_vars PROVE RowFits'
<1> USE DEF IInv, RowFits
<1>1. row \in Row
  BY DEF CopiesFit, TypeOK
<1>2. ASSUME CanReplace, row' = Replaced PROVE RowFits'
  BY <1>2 DEF CanReplace, PassesCheck, Replaced
<1>3. ASSUME Submits PROVE RowFits'
  <2>1. Submitted.status = "test_pending" /\ Submitted.scheduled = row.scheduled
    BY <1>1 DEF Submitted, Row
  <2>2. QED
    BY <1>3, <2>1 DEF Submits, CanSubmit
<1>4. ASSUME NEW b \in Benefits, ColleagueSaves(b) PROVE RowFits'
  BY <1>1, <1>4 DEF ColleagueSaves, Replaceable, PassesCheck, Writes, Row
<1>5. CASE ColleagueSubmits \/ \E s \in Status : DepartmentDecides(s)
  BY <1>1, <1>5 DEF ColleagueSubmits, CanSubmit, DepartmentDecides, Writes, Row
<1>6. ASSUME NEW s \in Status, NEW scheduled \in BOOLEAN, Suspends(s, scheduled) PROVE RowFits'
  BY <1>1, <1>6 DEF Suspends, Writes, Row
<1>7. CASE DateArrives
  BY <1>1, <1>7 DEF DateArrives, Row
<1>8. CASE Others
  BY <1>4, <1>5, <1>6, <1>7, <1>8 DEF Others
<1>9. CASE PutSucceeds \/ PutFails
  BY <1>2, <1>9 DEF PutSucceeds, PutFails
<1>10. CASE AskSucceeds \/ AskConflicts \/ AskFails
  BY <1>3, <1>10 DEF AskSucceeds, AskConflicts, AskFails
<1>11. CASE PostSucceeds \/ PostFails \/ Fetches \/ IsViewed \/ Expires \/ ActionEnds
  BY <1>11 DEF PostSucceeds, PostFails, Fetches, IsViewed, Expires, ActionEnds
<1>12. CASE Page
  BY <1>12 DEF Page, OpensForEdit, OpensForCreation, Leaves, Hydrates, Begins, EditsAnother,
         Types, Saves
<1>13. CASE UNCHANGED vars
  BY <1>13 DEF vars
<1> QED BY <1>8, <1>9, <1>10, <1>11, <1>12, <1>13 DEF Next, Answers

\* Whatever somebody else writes, no copy has the version it gets.
LEMMA WritesOutdate ==
  ASSUME CopiesFit, NEW new \in Row, Writes(new)
  PROVE  CopiesFit'
<1>1. /\ row.version \in Versions /\ row.version + 1 \in Versions
      /\ row.version + 1 > row.version
  BY EditorAssumption DEF CopiesFit, TypeOK, Row, Writes, Versions
<1>2. row' \in Row /\ row'.version = row.version + 1
  BY <1>1 DEF Writes, Row
<1>3. UNCHANGED <<detail, fetching, page, hydrated, form, saving, asking, drafts, sure>>
  BY DEF Writes, visit
<1>4. TypeOK'
  BY <1>2, <1>3 DEF CopiesFit, TypeOK
<1>5. DetailIsOld'
  <2>1. detail # NoDetail => detail.version \in Nat /\ detail.version <= row.version
    BY DEF CopiesFit, TypeOK, DetailIsOld, Row, Versions
  <2>2. detail # NoDetail => detail.version < row'.version
    BY <1>1, <1>2, <2>1 DEF Versions
  <2>3. detail # NoDetail => detail.version <= row'.version /\ detail.version # row'.version
    BY <1>1, <1>2, <2>1, <2>2 DEF Versions
  <2>4. QED
    BY <1>3, <2>3 DEF DetailIsOld, NoDetail
<1>6. SaveFitsRow'
  <2>1. saving.kind = "put" => saving.version \in Nat /\ saving.version <= row.version
    BY DEF CopiesFit, TypeOK, SaveFitsRow, Put, Post, NoSave, Versions
  <2>2. saving.kind = "put" => saving.version <= row'.version /\ saving.version # row'.version
    BY <1>1, <1>2, <2>1 DEF Versions
  <2>3. QED
    BY <1>3, <2>2 DEF SaveFitsRow
<1>7. FormIsOfDetail' /\ NoDraftYet'
  BY <1>3 DEF CopiesFit, FormIsOfDetail, NoDraftYet, NoDetail
<1>8. QED
  BY <1>4, <1>5, <1>6, <1>7 DEF CopiesFit

\* What everybody else does.
LEMMA OthersStep == ASSUME IInv, Others PROVE CopiesFit'
<1> USE DEF IInv
<1>1. row \in Row /\ row.version \in Versions
  BY DEF CopiesFit, TypeOK, Row
<1>2. ASSUME NEW b \in Benefits, ColleagueSaves(b) PROVE CopiesFit'
  <2> DEFINE status == IF row.status \in OnOffer /\ b # row.benefit
                       THEN "test_pending" ELSE row.status
             new == [row EXCEPT !.status = status, !.content = row.version + 1, !.benefit = b]
  <2>1. Writes(new)
    BY <1>2 DEF ColleagueSaves
  <2>2. row.version + 1 \in Versions /\ status \in Status
    BY <1>1, <2>1, EditorAssumption DEF Writes, Versions, Row, Status
  <2> HIDE DEF status
  <2>3. new \in Row
    BY <1>1, <2>2 DEF Row
  <2> HIDE DEF new
  <2>4. QED
    BY <2>1, <2>3, WritesOutdate
<1>3. CASE ColleagueSubmits
  <2>1. [row EXCEPT !.status = "test_pending"] \in Row
    BY <1>1 DEF Row, Status
  <2>2. QED
    BY <1>3, <2>1, WritesOutdate DEF ColleagueSubmits
<1>4. ASSUME NEW s \in Status, DepartmentDecides(s) PROVE CopiesFit'
  <2>1. [row EXCEPT !.status = s] \in Row
    BY <1>1 DEF Row
  <2>2. QED
    BY <1>4, <2>1, WritesOutdate DEF DepartmentDecides
<1>5. ASSUME NEW s \in Status, NEW scheduled \in BOOLEAN, Suspends(s, scheduled)
      PROVE  CopiesFit'
  <2>1. [row EXCEPT !.status = s, !.scheduled = scheduled] \in Row
    BY <1>1 DEF Row
  <2>2. QED
    BY <1>5, <2>1, WritesOutdate DEF Suspends
<1>6. ASSUME DateArrives PROVE CopiesFit'
  <2>1. PICK status \in OnOffer : row' = [row EXCEPT !.status = status]
    BY <1>6 DEF DateArrives
  <2>2. /\ row' \in Row /\ row'.status \in OnOffer /\ row'.scheduled /\ row.status \in OnOffer
        /\ row'.version = row.version /\ row'.content = row.content
        /\ row'.benefit = row.benefit
    BY <1>1, <1>6, <2>1 DEF DateArrives, RowFits, Row, Status
  <2>3. UNCHANGED <<detail, fetching, page, hydrated, form, saving, asking, drafts, sure>>
    BY <1>6 DEF DateArrives, visit
  <2>4. TypeOK'
    BY <2>2, <2>3 DEF CopiesFit, TypeOK
  <2>5. DetailIsOld'
    BY <1>6, <2>2, <2>3 DEF CopiesFit, DateArrives, DetailIsOld, StillHas, NoDetail
  <2>6. SaveFitsRow'
    BY <1>6, <2>2, <2>3 DEF CopiesFit, DateArrives, SaveFitsRow, StillHas
  <2>7. FormIsOfDetail' /\ NoDraftYet'
    BY <2>3 DEF CopiesFit, FormIsOfDetail, NoDraftYet, NoDetail
  <2>8. QED
    BY <2>4, <2>5, <2>6, <2>7 DEF CopiesFit
<1> QED BY <1>2, <1>3, <1>4, <1>5, <1>6 DEF Others

\* The invariant is preserved.
LEMMA InvStep == ASSUME IInv, [Next]_vars PROVE IInv'
<1>1. CASE Page
  BY <1>1, PageStep, RowStaysFit DEF IInv
<1>2. CASE Answers
  BY <1>2, AnswerStep, RowStaysFit DEF IInv
<1>3. CASE Others
  BY <1>3, OthersStep, RowStaysFit DEF IInv
<1>4. CASE UNCHANGED vars
  BY <1>4 DEF vars, IInv, RowFits, CopiesFit, TypeOK, DetailIsOld, FormIsOfDetail, SaveFitsRow, NoDraftYet,
              StillHas
<1> QED BY <1>1, <1>2, <1>3, <1>4 DEF Next

\* The invariant holds in every reachable state.
THEOREM Invariance == Spec => []IInv
<1>1. ASSUME Init PROVE IInv
  <2>1. row \in Row /\ row.status = "draft" /\ row.version = 1 /\ ~row.scheduled
    BY <1>1, EditorAssumption DEF Init, Row, Versions, Status
  <2>2. TypeOK
    <3>1. drafts \in 0..MaxDrafts
      BY <1>1, EditorAssumption DEF Init
    <3>2. form \in Form /\ saving \in Put \cup Post \cup {NoSave}
      BY <1>1, BlankForms DEF Init
    <3>3. detail = NoDetail /\ fetching = FALSE /\ hydrated = FALSE /\ sure = FALSE
      BY <1>1 DEF Init
    <3>4. page = "closed" /\ asking = "nothing"
      BY <1>1 DEF Init
    <3> QED BY <2>1, <3>1, <3>2, <3>3, <3>4 DEF TypeOK
  <2>3. DetailIsOld /\ FormIsOfDetail /\ SaveFitsRow /\ NoDraftYet
    BY <1>1 DEF Init, DetailIsOld, FormIsOfDetail, SaveFitsRow, NoDraftYet, NoSave
  <2> QED BY <2>1, <2>2, <2>3 DEF IInv, RowFits, CopiesFit
<1> QED BY <1>1, InvStep, PTL DEF Spec

(***************************************************************************)
(* Theorems.                                                               *)
(***************************************************************************)
\* The row, the detail, the form and the requests have their types.
THEOREM TypeCorrect == Spec => []TypeOK
<1>1. IInv => TypeOK
  BY DEF IInv, CopiesFit
<1> QED BY <1>1, Invariance, PTL

\* A step that carries out a save is the answer to it, and finds the row at the
\* version the save carries.
LEMMA PutsLand ==
  ASSUME IInv, Next, Puts
  PROVE  /\ PutSucceeds \/ PutFails
         /\ CanReplace
         /\ row' = Replaced
<1>1. PutSucceeds \/ PutFails
  <2>1. ~Page
    BY DEF Puts, Page, OpensForEdit, OpensForCreation, Leaves, Hydrates, Begins, EditsAnother,
           Types, Saves, visit
  <2>2. ~Others
    <3>1. Others => saving' = saving
      BY DEF Others, ColleagueSaves, ColleagueSubmits, DepartmentDecides, Suspends, DateArrives,
             Writes
    <3>2. QED
      BY <3>1 DEF Puts, NoSave
  <2>3. Answers
    BY <2>1, <2>2 DEF Next
  <2>4. ~PostSucceeds /\ ~PostFails /\ ~Fetches /\ ~IsViewed /\ ~Expires /\ ~ActionEnds
    BY DEF Puts, PostSucceeds, PostFails, Fetches, IsViewed, Expires, ActionEnds
  <2>5. ~AskSucceeds /\ ~AskConflicts /\ ~AskFails
    BY DEF Puts, NoSave, AskSucceeds, AskConflicts, AskFails, AskEnds
  <2> QED BY <2>3, <2>4, <2>5 DEF Answers
<1> QED BY <1>1 DEF Puts, PutSucceeds, PutFails

\* A save whose form was filled in this visit, with nothing come back since,
\* replaces the content the form was filled from.
THEOREM FirstSavesSeeAll == Spec => FirstSaveSeesAll
<1>1. ASSUME IInv, Next, Puts, saving.sure PROVE saving.base = row.content
  BY <1>1, PutsLand DEF Puts, IInv, CopiesFit, SaveFitsRow, CanReplace
<1>2. ASSUME IInv, [Next]_vars PROVE [Puts /\ saving.sure => saving.base = row.content]_vars
  BY <1>1, <1>2
<1> QED BY <1>2, Invariance, PTL DEF Spec, FirstSaveSeesAll

\* A save does what the operator was told before it.
THEOREM SavesKeepTheirWord == Spec => SavesDoAsTold
<1> DEFINE Kept ==
      /\ saving.told = "immediate" => row'.status = row.status
      /\ saving.told = "review" =>
           row'.status = "test_pending" \/ asking' = "row" \/ PutFails
      /\ saving.told = "draft" => row'.status = row.status \/ row.status \in OnOffer
<1>1. ASSUME IInv, Next, Puts PROVE Kept
  <2>1. /\ CanReplace
        /\ row' = Replaced
        /\ PutSucceeds \/ PutFails
    BY <1>1, PutsLand
  <2>2. SaveFitsRow /\ RowFits /\ saving.kind = "put" /\ saving.version = row.version
    BY <1>1, <2>1 DEF IInv, CopiesFit, Puts, CanReplace
  <2>3. row'.status = IF row.status \in OnOffer /\ saving.benefit # row.benefit
                      THEN "test_pending" ELSE row.status
    BY <2>1 DEF Replaced
  <2>4. CASE saving.told = "immediate"
    BY <2>1, <2>2, <2>3, <2>4 DEF SaveFitsRow, RowFits, StillHas, CanReplace, Replaceable, PassesCheck
  <2>5. CASE saving.told = "review"
    BY <2>1, <2>2, <2>3, <2>5 DEF SaveFitsRow, RowFits, StillHas, CanReplace, Replaceable, PassesCheck,
           PutSucceeds, AsksFor
  <2>6. CASE saving.told = "draft"
    BY <2>3, <2>6
  <2> QED BY <2>4, <2>5, <2>6
<1>2. ASSUME IInv, [Next]_vars PROVE [Puts => Kept]_vars
  BY <1>1, <1>2
<1> QED BY <1>2, Invariance, PTL DEF Spec, SavesDoAsTold

\* A form none of whose requests was left without an answer becomes one draft.
THEOREM FormsBecomeOneDraft == Spec => OneDraftPerForm
<1>1. IInv => (Posts /\ saving.sure => drafts = 0)
  BY DEF IInv, CopiesFit, NoDraftYet, Posts
<1>2. ASSUME IInv, [Next]_vars PROVE [Posts /\ saving.sure => drafts = 0]_vars
  BY <1>1, <1>2
<1> QED BY <1>2, Invariance, PTL DEF Spec, OneDraftPerForm

================================================================================
