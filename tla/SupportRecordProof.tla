--------------------------- MODULE SupportRecordProof ---------------------------
(***************************************************************************)
(* Proofs about SupportRecord, for any number of requests, of client keys  *)
(* and of INPS keys.                                                       *)
(***************************************************************************)
EXTENDS SupportRecord, TLAPS

(***************************************************************************)
(* The inductive invariant.                                                *)
(***************************************************************************)
\* How a request relates to the document, as long as its etag is current, and to
\* INPS.
Fits(q, document, application) ==
  /\ q.etag = "current" => document.exists
  /\ q.kind \in {"photo", "confirm"} =>
       /\ q.etag # "unset"
       /\ q.etag = "current" => document.idLavorazione = q.idLavorazione
  /\ q.at \in {"accepted", "rejected"} => q.kind \in Step
  /\ q.kind \in Step /\ q.at \in {"calling", "accepted", "rejected"} =>
       /\ q.key \in Keys
       /\ q.etag # "unset"
       /\ q.etag = "current" => /\ document.pendingStep = q.kind
                                /\ document.steps[q.kind] = Pending(q.client, q.key)
  /\ q.at = "accepted" => q.key \in application.served
  /\ q.kind = "check" => q.idLavorazione \in application.served \cup {NoKey}

\* A document names what INPS has created, and its pending step is pending.
DocumentFits(document, application) ==
  /\ document.idLavorazione # NoKey => document.idLavorazione \in application.served
  /\ document.pendingStep # "none" => document.steps[document.pendingStep].status = "PENDING"

IInv ==
  /\ TypeOK
  /\ inps.idLavorazione \in inps.served \cup {NoKey}
  /\ DocumentFits(record, inps)
  /\ \A r \in Requests : Fits(request[r], record, inps)

\* What INPS has served it has served for good, and a request without a current
\* etag does not depend on the document.
LEMMA FitsStays ==
  ASSUME NEW q, NEW p, NEW document, NEW other, NEW application, NEW later,
         Fits(q, document, application),
         application.served \subseteq later.served,
         /\ p.kind = q.kind /\ p.at = q.at /\ p.client = q.client
         /\ p.idLavorazione = q.idLavorazione /\ p.key = q.key,
         \/ p.etag = q.etag /\ (q.etag = "current" => other = document)
         \/ p.etag = "stale"
  PROVE  Fits(p, other, later)
BY DEF Fits

\* A document that is saved takes the etag of the others away.
LEMMA SaveStep ==
  ASSUME IInv, NEW r \in Requests, NEW document \in Record, NEW next \in Request,
         save(r, document, next), inps' = inps, lastKey' \in Keys \cup {NoKey},
         Fits(next, document, inps), DocumentFits(document, inps)
  PROVE  IInv'
<1>1. /\ record' = document
      /\ request'[r] = next
      /\ \A q \in Requests \ {r} :
           request'[q] = IF request[q].etag = "current" THEN [request[q] EXCEPT !.etag = "stale"]
                         ELSE request[q]
  BY DEF IInv, TypeOK, save
<1>2. request' \in [Requests -> Request]
  <2>1. \A q \in Requests : [request[q] EXCEPT !.etag = "stale"] \in Request
    BY DEF IInv, TypeOK, Request
  <2> QED BY <2>1 DEF IInv, TypeOK, save
<1>3. ASSUME NEW q \in Requests PROVE Fits(request[q], record, inps)'
  <2>1. CASE q = r
    BY <1>1, <2>1
  <2>2. CASE q # r /\ request[q].etag = "current"
    <3> DEFINE p == [request[q] EXCEPT !.etag = "stale"]
    <3>1. /\ p.etag = "stale"
          /\ p.kind = request[q].kind /\ p.at = request[q].at /\ p.client = request[q].client
          /\ p.idLavorazione = request[q].idLavorazione /\ p.key = request[q].key
      BY DEF IInv, TypeOK, Request
    <3>2. request'[q] = p
      BY <1>1, <2>2
    <3>3. Fits(request[q], record, inps)
      BY DEF IInv
    <3> HIDE DEF p
    <3>4. Fits(p, document, inps)
      BY <3>1, <3>3, FitsStays
    <3> QED BY <1>1, <3>2, <3>4
  <2>3. CASE q # r /\ request[q].etag # "current"
    <3>1. request'[q] = request[q]
      BY <1>1, <2>3
    <3>2. Fits(request[q], document, inps)
      BY <2>3, FitsStays DEF IInv
    <3> QED BY <1>1, <3>1, <3>2
  <2> QED BY <2>1, <2>2, <2>3
<1> QED BY <1>1, <1>2, <1>3 DEF IInv, TypeOK, DocumentFits

\* A request goes on without saving, and INPS may have carried it out.
LEMMA RequestStep ==
  ASSUME IInv, NEW r \in Requests, NEW next \in Request,
         request' = [request EXCEPT ![r] = next], UNCHANGED <<record, lastKey>>,
         inps' \in Inps, inps.served \subseteq inps'.served,
         inps'.idLavorazione \in inps'.served \cup {NoKey},
         Fits(next, record, inps')
  PROVE  IInv'
<1>1. request' \in [Requests -> Request]
  BY DEF IInv, TypeOK
<1>2. ASSUME NEW q \in Requests PROVE Fits(request[q], record, inps)'
  <2>1. CASE q = r
    BY <2>1 DEF IInv, TypeOK
  <2>2. CASE q # r
    <3>1. request'[q] = request[q]
      BY <2>2 DEF IInv, TypeOK
    <3>2. Fits(request[q], record, inps')
      BY FitsStays DEF IInv
    <3> QED BY <3>1, <3>2
  <2> QED BY <2>1, <2>2
<1> QED BY <1>1, <1>2 DEF IInv, TypeOK, DocumentFits

(***************************************************************************)
(* The documents.                                                          *)
(***************************************************************************)
\* An empty document, an idle request.
LEMMA Blanks ==
  /\ NoStep \in StepInfo /\ Empty \in Record /\ NoRecord \in Record
  /\ Idle \in Request
  /\ \A document, application : Fits(Idle, document, application)
  /\ \A application : DocumentFits(Empty, application) /\ DocumentFits(NoRecord, application)
<1>1. NoStep \in StepInfo
  BY DEF NoStep, StepInfo
<1> QED BY <1>1 DEF Empty, NoRecord, Record, State, Step, Idle, Request, CheckStatus, Fits, DocumentFits

\* What a request has read.
LEMMA ExistingFits ==
  ASSUME IInv, NEW r \in Requests, request[r].etag # "stale"
  PROVE  /\ Existing(r) \in Record /\ DocumentFits(Existing(r), inps) /\ Existing(r).exists
         /\ request[r].etag = "current" => Existing(r) = record
<1>1. Fits(request[r], record, inps) /\ request[r] \in Request
  BY DEF IInv, TypeOK
<1>2. CASE request[r].etag = "unset"
  BY <1>2, Blanks DEF Existing, Empty
<1>3. CASE request[r].etag = "current"
  BY <1>1, <1>3 DEF IInv, TypeOK, Existing, Fits
<1> QED BY <1>1, <1>2, <1>3 DEF Request

\* The document of an intent.
LEMMA IntentFits ==
  ASSUME NEW document \in Record, NEW s \in Step, NEW client \in Clients \cup {NoClient},
         NEW key \in Keys, document.exists, DocumentFits(document, inps)
  PROVE  LET new == IntentRecord(document, s, client, key) IN
         /\ new \in Record /\ DocumentFits(new, inps) /\ new.exists
         /\ new.pendingStep = s /\ new.steps[s] = Pending(client, key)
         /\ s # "draft" => new.idLavorazione = document.idLavorazione
<1> DEFINE new == IntentRecord(document, s, client, key)
           steps == [t \in Step |-> IF t = s THEN Pending(client, key)
                                    ELSE IF IsRetry(document, s, client) \/ t \notin Downstream[s]
                                    THEN document.steps[t] ELSE NoStep]
<1>1. Pending(client, key) \in StepInfo /\ Pending(client, key).status = "PENDING"
  BY DEF Pending, StepInfo
<1>2. steps \in [Step -> StepInfo] /\ steps[s] = Pending(client, key)
  BY <1>1, Blanks DEF Record
<1> HIDE DEF steps
<1>3. \E id \in {NoKey, document.idLavorazione}, nd \in {NoKey, document.numDomus} :
        /\ new = [document EXCEPT !.idLavorazione = id, !.numDomus = nd, !.pendingStep = s,
                                  !.steps = steps]
        /\ s # "draft" => id = document.idLavorazione
  <2> USE DEF steps
  <2> QED BY DEF IntentRecord
<1> HIDE DEF new
<1>4. /\ new \in Record /\ new.exists = document.exists /\ new.pendingStep = s /\ new.steps = steps
      /\ new.idLavorazione \in {NoKey, document.idLavorazione}
      /\ s # "draft" => new.idLavorazione = document.idLavorazione
  BY <1>2, <1>3 DEF Record
<1>5. /\ new \in Record /\ DocumentFits(new, inps) /\ new.exists
      /\ new.pendingStep = s /\ new.steps[s] = Pending(client, key)
      /\ s # "draft" => new.idLavorazione = document.idLavorazione
  BY <1>1, <1>2, <1>4 DEF DocumentFits
<1> QED BY <1>5 DEF new

\* The document of a step that INPS has rejected.
LEMMA FailedFits ==
  ASSUME NEW document \in Record, NEW s \in Step, DocumentFits(document, inps)
  PROVE  /\ FailedOutcome(document, s) \in Record
         /\ DocumentFits(FailedOutcome(document, s), inps)
<1> DEFINE steps == [document.steps EXCEPT ![s].status = "FAILED"]
<1>1. steps \in [Step -> StepInfo]
  BY DEF Record, StepInfo
<1>2. FailedOutcome(document, s) = [document EXCEPT !.pendingStep = "none", !.steps = steps]
  BY DEF FailedOutcome, Record
<1> HIDE DEF steps
<1> QED BY <1>1, <1>2 DEF Record, DocumentFits

\* The document of a step that INPS has carried out.
LEMMA CompletedFits ==
  ASSUME NEW document \in Record, NEW s \in Step, NEW id \in Keys \cup {NoKey},
         DocumentFits(document, inps), s = "draft" => id \in inps.served
  PROVE  /\ CompletedOutcome(document, s, id) \in Record
         /\ DocumentFits(CompletedOutcome(document, s, id), inps)
<1> DEFINE steps == [document.steps EXCEPT ![s].status = "COMPLETED"]
<1>1. steps \in [Step -> StepInfo]
  BY DEF Record, StepInfo
<1>2. PICK i \in {id, document.idLavorazione}, n \in {id, document.numDomus}, state \in State :
        /\ CompletedOutcome(document, s, id) =
             [document EXCEPT !.pendingStep = "none", !.steps = steps,
                              !.idLavorazione = i, !.numDomus = n, !.state = state]
        /\ s # "draft" => i = document.idLavorazione
  BY DEF CompletedOutcome, Record, State, Step
<1> HIDE DEF steps
<1>3. CompletedOutcome(document, s, id) \in Record
  <2>1. i \in Keys \cup {NoKey} /\ n \in Keys \cup {NoKey}
    BY <1>2 DEF Record
  <2> QED BY <1>1, <1>2, <2>1 DEF Record
<1>4. /\ CompletedOutcome(document, s, id).idLavorazione = i
      /\ CompletedOutcome(document, s, id).pendingStep = "none"
  BY <1>1, <1>2 DEF Record
<1>5. DocumentFits(CompletedOutcome(document, s, id), inps)
  BY <1>2, <1>4 DEF DocumentFits
<1> QED BY <1>3, <1>5

\* The document of a status check.
LEMMA ReconciledFits ==
  ASSUME NEW document \in Record, NEW status \in CheckStatus, NEW id \in Keys \cup {NoKey},
         document.exists, id \in inps.served \cup {NoKey}
  PROVE  LET new == ReconciledRecord(document, status, id) IN
         /\ new \in Record /\ DocumentFits(new, inps) /\ new.exists
         /\ new.state = Milestone[status]
         /\ status \notin {"NO_APPLICATION", "CLOSED"} => new.idLavorazione = id
<1>1. CASE status \in {"NO_APPLICATION", "CLOSED"}
  <2> DEFINE none == [t \in Step |-> NoStep]
  <2>1. none \in [Step -> StepInfo]
    BY Blanks
  <2>2. ReconciledRecord(document, status, id) =
          [document EXCEPT !.idLavorazione = NoKey, !.numDomus = NoKey, !.pendingStep = "none",
                           !.state = "READY_FOR_NEW_DRAFT", !.steps = none]
    BY <1>1 DEF ReconciledRecord, reconcileNoActiveDraft
  <2> HIDE DEF none
  <2>3. Milestone[status] = "READY_FOR_NEW_DRAFT"
    BY <1>1 DEF Milestone
  <2> QED BY <1>1, <2>1, <2>2, <2>3 DEF Record, State, DocumentFits
<1>2. CASE status \notin {"NO_APPLICATION", "CLOSED"}
  <2>1. PICK steps \in [Step -> StepInfo], n \in {NoKey, document.numDomus} :
          ReconciledRecord(document, status, id) =
            [document EXCEPT !.idLavorazione = id, !.numDomus = n, !.pendingStep = "none",
                             !.state = Milestone[status], !.steps = steps]
    <3> DEFINE s == document.pendingStep
               reached == s # "none" /\ Rank[status] >= Required[s]
               after == IF reached THEN [document.steps EXCEPT ![s].status = "COMPLETED"]
                        ELSE document.steps
               nd == IF status = "ACQUIRED" /\ document.idLavorazione = id THEN document.numDomus
                     ELSE NoKey
    <3>1. after \in [Step -> StepInfo]
      BY DEF Record, StepInfo
    <3>2. ReconciledRecord(document, status, id) =
            [document EXCEPT !.idLavorazione = id, !.numDomus = nd, !.pendingStep = "none",
                             !.state = Milestone[status], !.steps = after]
      BY <1>2 DEF ReconciledRecord, reconcileActiveRecord, Record
    <3>3. nd \in {NoKey, document.numDomus}
      OBVIOUS
    <3> HIDE DEF after, nd
    <3> QED BY <3>1, <3>2, <3>3
  <2>2. Milestone[status] \in State
    BY DEF CheckStatus, Milestone, State
  <2> QED BY <1>2, <2>1, <2>2 DEF Record, DocumentFits
<1> QED BY <1>1, <1>2

(***************************************************************************)
(* The steps.                                                              *)
(***************************************************************************)
\* A step reads the record.
LEMMA ReadRecordStep ==
  ASSUME IInv, NEW r \in Requests, NEW s \in Step, NEW client \in Clients, ReadRecord(r, s, client)
  PROVE  IInv'
<1> DEFINE id == IF s = "draft" THEN NoKey ELSE record.idLavorazione
           next == [Idle EXCEPT !.kind = s, !.at = "read", !.client = client, !.etag = EtagRead,
                                !.idLavorazione = id]
<1>1. id \in Keys \cup {NoKey} /\ EtagRead \in {"unset", "current"}
  BY DEF IInv, TypeOK, Record, EtagRead
<1>2. /\ next \in Request /\ next.kind = s /\ next.at = "read" /\ next.etag = EtagRead
      /\ next.idLavorazione = id
  <2> HIDE DEF id
  <2> QED BY <1>1 DEF Idle, Request, CheckStatus
<1>3. request' = [request EXCEPT ![r] = next] /\ UNCHANGED <<record, inps, lastKey>>
  BY DEF ReadRecord
<1>4. Fits(next, record, inps)
  <2>1. s # "draft" => record.exists
    BY DEF ReadRecord
  <2> HIDE DEF next
  <2> QED BY <1>2, <2>1 DEF Fits, EtagRead, Step
<1> HIDE DEF next
<1> QED BY <1>2, <1>3, <1>4, RequestStep DEF IInv, TypeOK

\* A step saves its intent.
LEMMA PersistIntentStep ==
  ASSUME IInv, NEW r \in Requests, PersistIntent(r)
  PROVE  IInv'
<1> DEFINE s == request[r].kind
           client == request[r].client
           retry == IsRetry(Existing(r), s, client)
           key == IF retry THEN Existing(r).steps[s].key ELSE lastKey + 1
           document == IntentRecord(Existing(r), s, client, key)
           next == [request[r] EXCEPT !.at = "calling", !.key = key, !.etag = "current"]
<1>1. /\ s \in Step /\ request[r].at = "read" /\ key \in Keys /\ save(r, document, next)
      /\ lastKey' \in {lastKey, key} /\ inps' = inps
  BY DEF PersistIntent
<1>2. request[r].etag # "stale" /\ request[r] \in Request /\ Fits(request[r], record, inps)
  BY <1>1 DEF IInv, TypeOK, save
<1>3. /\ document \in Record /\ DocumentFits(document, inps) /\ document.exists
      /\ document.pendingStep = s /\ document.steps[s] = Pending(client, key)
      /\ s # "draft" => document.idLavorazione = Existing(r).idLavorazione
  <2>1. client \in Clients \cup {NoClient}
    BY <1>2 DEF Request
  <2> HIDE DEF s, client, key
  <2> QED BY <1>1, <1>2, <2>1, ExistingFits, IntentFits
<1>4. /\ next \in Request /\ next.kind = s /\ next.at = "calling" /\ next.key = key
      /\ next.client = client /\ next.etag = "current"
      /\ next.idLavorazione = request[r].idLavorazione
  <2> HIDE DEF key
  <2> QED BY <1>1, <1>2 DEF Request
<1>5. s # "draft" => document.idLavorazione = next.idLavorazione
  <2>1. SUFFICES ASSUME s # "draft" PROVE Existing(r).idLavorazione = request[r].idLavorazione
    BY <1>3, <1>4
  <2>2. s \in {"photo", "confirm"}
    BY <1>1, <2>1 DEF Step
  <2>3. request[r].etag = "current"
    BY <1>2, <2>2 DEF Fits, Request
  <2> QED BY <1>2, <2>2, <2>3, ExistingFits DEF Fits
<1> HIDE DEF s, client, key, document, next
<1>6. Fits(next, document, inps)
  BY <1>1, <1>3, <1>4, <1>5 DEF Fits, Step
<1> QED BY <1>1, <1>3, <1>4, <1>6, SaveStep DEF IInv, TypeOK

\* A step saves its outcome.
LEMMA PersistOutcomeStep ==
  ASSUME IInv, NEW r \in Requests, PersistOutcome(r)
  PROVE  IInv'
<1> DEFINE s == request[r].kind
           id == IF s = "draft" THEN request[r].key ELSE request[r].idLavorazione
<1>1. request[r] \in Request /\ Fits(request[r], record, inps)
  BY DEF IInv, TypeOK
<1>2. request[r].at \in {"accepted", "rejected"} /\ inps' = inps /\ lastKey' = lastKey
  BY DEF PersistOutcome
<1>3. s \in Step /\ id \in Keys \cup {NoKey}
  BY <1>1, <1>2 DEF Fits, Request
<1>4. CASE request[r].at = "accepted"
  <2>1. save(r, CompletedOutcome(record, s, id), Idle)
    BY <1>4 DEF PersistOutcome
  <2>2. s = "draft" => id \in inps.served
    BY <1>1, <1>4 DEF Fits
  <2> HIDE DEF s, id
  <2>3. CompletedOutcome(record, s, id) \in Record /\ DocumentFits(CompletedOutcome(record, s, id), inps)
    BY <1>3, <2>2, CompletedFits DEF IInv, TypeOK
  <2> QED BY <1>2, <2>1, <2>3, Blanks, SaveStep DEF IInv, TypeOK
<1>5. CASE request[r].at = "rejected"
  <2>1. save(r, FailedOutcome(record, s), Idle)
    BY <1>5 DEF PersistOutcome
  <2> HIDE DEF s, id
  <2>2. FailedOutcome(record, s) \in Record /\ DocumentFits(FailedOutcome(record, s), inps)
    BY <1>3, FailedFits DEF IInv, TypeOK
  <2> QED BY <1>2, <2>1, <2>2, Blanks, SaveStep DEF IInv, TypeOK
<1> QED BY <1>2, <1>4, <1>5

\* A status check saves.
LEMMA PersistReconciledStep ==
  ASSUME IInv, NEW r \in Requests, PersistReconciled(r)
  PROVE  IInv'
<1> DEFINE document == ReconciledRecord(Existing(r), request[r].seen, request[r].idLavorazione)
<1>1. /\ request[r].kind = "check" /\ save(r, document, Idle) /\ inps' = inps /\ lastKey' = lastKey
      /\ request[r].etag # "stale"
  BY DEF PersistReconciled, save
<1>2. /\ request[r].seen \in CheckStatus /\ request[r].idLavorazione \in Keys \cup {NoKey}
      /\ request[r].idLavorazione \in inps.served \cup {NoKey}
  BY <1>1 DEF IInv, TypeOK, Request, Fits
<1>3. document \in Record /\ DocumentFits(document, inps)
  BY <1>1, <1>2, ExistingFits, ReconciledFits
<1> HIDE DEF document
<1> QED BY <1>1, <1>3, Blanks, SaveStep DEF IInv, TypeOK

\* INPS answers a step.
LEMMA AnswerStep ==
  ASSUME IInv, NEW r \in Requests,
         NuovaDomandaInBozza(r) \/ FornisciFoto(r) \/ ConfermaDomanda(r) \/ InpsRejects(r)
  PROVE  IInv'
<1>1. request[r] \in Request /\ Fits(request[r], record, inps) /\ inps \in Inps
  BY DEF IInv, TypeOK
<1>2. PICK answer \in {"accepted", "rejected"} :
        /\ request' = [request EXCEPT ![r] = [request[r] EXCEPT !.at = answer]]
        /\ request[r].kind \in Step /\ request[r].at = "calling"
        /\ UNCHANGED <<record, lastKey>>
        /\ answer = "rejected" => inps' = inps
        /\ answer = "accepted" =>
             \/ request[r].key \in inps.served /\ inps' = inps
             \/ \E status \in CheckStatus, id \in {request[r].key, inps.idLavorazione} :
                  inps' = [status |-> status, idLavorazione |-> id,
                           served |-> inps.served \cup {request[r].key}]
  BY DEF NuovaDomandaInBozza, FornisciFoto, ConfermaDomanda, InpsRejects, Calls, Answered,
         CarriesOut, Step, CheckStatus
<1> DEFINE next == [request[r] EXCEPT !.at = answer]
<1>3. /\ next \in Request /\ next.kind = request[r].kind /\ next.at = answer
      /\ next.client = request[r].client /\ next.idLavorazione = request[r].idLavorazione
      /\ next.key = request[r].key /\ next.etag = request[r].etag
  BY <1>1 DEF Request
<1>4. request[r].key \in Keys
  BY <1>1, <1>2 DEF Fits
<1>5. /\ inps' \in Inps /\ inps.served \subseteq inps'.served
      /\ inps'.idLavorazione \in inps'.served \cup {NoKey}
      /\ answer = "accepted" => request[r].key \in inps'.served
  BY <1>1, <1>2, <1>4 DEF IInv, Inps
<1> HIDE DEF next
<1>6. Fits(next, record, inps')
  BY <1>1, <1>2, <1>3, <1>5 DEF Fits, Step
<1> QED BY <1>2, <1>3, <1>5, <1>6, RequestStep DEF next

\* INPS answers a status check, which then reads the record.
LEMMA CheckStep ==
  ASSUME IInv, NEW r \in Requests, CheckDomanda(r) \/ ReadForCheck(r)
  PROVE  IInv'
<1>1. request[r] \in Request /\ Fits(request[r], record, inps) /\ inps \in Inps
  BY DEF IInv, TypeOK
<1>2. CASE CheckDomanda(r)
  <2> DEFINE next == [Idle EXCEPT !.kind = "check", !.at = "calling", !.seen = inps.status,
                                  !.idLavorazione = inps.idLavorazione]
  <2>1. /\ next \in Request /\ next.kind = "check" /\ next.at = "calling" /\ next.etag = "unset"
        /\ next.idLavorazione = inps.idLavorazione
    BY <1>1 DEF Idle, Request, Inps
  <2>2. request' = [request EXCEPT ![r] = next] /\ UNCHANGED <<record, inps, lastKey>>
    BY <1>2 DEF CheckDomanda
  <2> HIDE DEF next
  <2>3. Fits(next, record, inps)
    BY <2>1 DEF IInv, Fits, Step
  <2> QED BY <1>1, <2>1, <2>2, <2>3, RequestStep DEF IInv
<1>3. CASE ReadForCheck(r)
  <2> DEFINE read == [request[r] EXCEPT !.at = "read", !.etag = EtagRead]
             next == IF request[r].seen = "NO_APPLICATION" /\ ~record.exists THEN Idle ELSE read
  <2>1. /\ read \in Request /\ read.kind = "check" /\ read.at = "read" /\ read.etag = EtagRead
        /\ read.idLavorazione = request[r].idLavorazione
    BY <1>1, <1>3 DEF Request, EtagRead, ReadForCheck, Calls
  <2>2. request[r].kind = "check" /\ request[r].idLavorazione \in inps.served \cup {NoKey}
    BY <1>1, <1>3 DEF Fits, ReadForCheck, Calls
  <2>3. request' = [request EXCEPT ![r] = next] /\ UNCHANGED <<record, inps, lastKey>>
    BY <1>3 DEF ReadForCheck, IInv, TypeOK
  <2> HIDE DEF read
  <2>4. next \in Request /\ Fits(next, record, inps)
    BY <2>1, <2>2, Blanks DEF Fits, EtagRead, Step
  <2> HIDE DEF next
  <2> QED BY <1>1, <2>3, <2>4, RequestStep DEF IInv
<1> QED BY <1>2, <1>3

\* A request fails, INPS closes the application, or the record expires.
LEMMA EndStep ==
  ASSUME IInv, (\E r \in Requests : RequestFails(r)) \/ InpsCloses \/ RecordExpires
  PROVE  IInv'
<1>1. ASSUME NEW r \in Requests, RequestFails(r) PROVE IInv'
  BY <1>1, Blanks, RequestStep DEF RequestFails, IInv, TypeOK
<1>2. CASE InpsCloses
  <2>1. /\ inps' \in Inps /\ inps'.served = inps.served /\ inps'.idLavorazione = inps.idLavorazione
        /\ UNCHANGED <<record, request, lastKey>>
    BY <1>2 DEF IInv, TypeOK, InpsCloses, Inps, CheckStatus
  <2> QED BY <2>1 DEF IInv, TypeOK, Fits, DocumentFits
<1>3. CASE RecordExpires
  BY <1>3, Blanks DEF RecordExpires, IInv, TypeOK
<1> QED BY <1>1, <1>2, <1>3

\* A step of a request, of INPS or of the clock preserves the invariant.
LEMMA InvStep == ASSUME IInv, [Next]_vars PROVE IInv'
<1>1. CASE UNCHANGED vars
  BY <1>1 DEF vars, IInv, TypeOK, Fits, DocumentFits
<1>2. CASE Next
  BY <1>2, ReadRecordStep, PersistIntentStep, PersistOutcomeStep, PersistReconciledStep,
     AnswerStep, CheckStep, EndStep DEF Next, Checks
<1> QED BY <1>1, <1>2

\* The invariant holds in every state of the program.
LEMMA Invariance == Spec => []IInv
<1>1. Init => IInv
  <2> SUFFICES ASSUME Init PROVE IInv
    OBVIOUS
  <2>1. request \in [Requests -> Request] /\ \A r \in Requests : Fits(request[r], record, inps)
    BY Blanks DEF Init
  <2>2. inps \in Inps /\ inps.idLavorazione = NoKey /\ lastKey = NoKey
    BY DEF Init, Inps, CheckStatus, NoKey
  <2> QED BY <2>1, <2>2, Blanks DEF Init, IInv, TypeOK
<1> QED BY <1>1, InvStep, PTL DEF Spec

(***************************************************************************)
(* Theorems.                                                               *)
(***************************************************************************)
\* The document, the requests, INPS and the keys have their types.
THEOREM TypeCorrect == Spec => []TypeOK
<1>1. IInv => TypeOK
  BY DEF IInv
<1> QED BY <1>1, Invariance, PTL

\* The second write of a step finds its own intent.
THEOREM OutcomeFindsIntent == Spec => []OutcomeMeetsIntent
<1>1. IInv => OutcomeMeetsIntent
  BY DEF IInv, OutcomeMeetsIntent, Fits, Step
<1> QED BY <1>1, Invariance, PTL

\* The record only names what INPS has created.
THEOREM NeverInvented == Spec => []IdComesFromInps
<1>1. IInv => IdComesFromInps
  BY DEF IInv, DocumentFits, IdComesFromInps
<1> QED BY <1>1, Invariance, PTL

\* The step the record says is in flight can be retried.
THEOREM PendingCanBeRetried == Spec => []PendingStepIsPending
<1>1. IInv => PendingStepIsPending
  BY DEF IInv, DocumentFits, PendingStepIsPending
<1> QED BY <1>1, Invariance, PTL

\* A status check whose answer is still true leaves the record in agreement with
\* INPS.
THEOREM Realigned == Spec => ChecksRealign
<1> DEFINE Realigns == \A r \in Requests : PersistReconciled(r) /\ AnswerIsFresh(r) => Aligned'
<1>1. ASSUME IInv, NEW r \in Requests, PersistReconciled(r), AnswerIsFresh(r)
      PROVE  Aligned'
  <2> DEFINE document == ReconciledRecord(Existing(r), request[r].seen, request[r].idLavorazione)
  <2>1. /\ request[r].kind = "check" /\ record' = document /\ inps' = inps
        /\ request[r].etag # "stale"
    BY <1>1 DEF PersistReconciled, save
  <2>2. /\ request[r].seen \in CheckStatus /\ request[r].idLavorazione \in Keys \cup {NoKey}
        /\ request[r].idLavorazione \in inps.served \cup {NoKey}
    BY <1>1, <2>1 DEF IInv, TypeOK, Request, Fits
  <2>3. /\ document.exists /\ document.state = Milestone[request[r].seen]
        /\ request[r].seen \notin {"NO_APPLICATION", "CLOSED"}
             => document.idLavorazione = request[r].idLavorazione
    BY <1>1, <2>1, <2>2, ExistingFits, ReconciledFits
  <2> HIDE DEF document
  <2> QED BY <1>1, <2>1, <2>3 DEF Aligned, AnswerIsFresh
<1>2. ASSUME IInv, [Next]_vars PROVE [Realigns]_vars
  BY <1>1, <1>2
<1> QED BY <1>2, Invariance, PTL DEF Spec, ChecksRealign

(***************************************************************************)
(* The keys.                                                               *)
(***************************************************************************)
\* The keys in play have been generated, and each is that of one attempt.
KeysFit ==
  /\ \A s \in Step : record.steps[s].key <= lastKey
  /\ \A r \in Requests : request[r].key <= lastKey
  /\ KeyNamesOneIntent

\* The steps of a document are steps of another one, or have been reset.
Inherits(document, other) ==
  \A s \in Step : \/ /\ document.steps[s].key = other.steps[s].key
                     /\ document.steps[s].client = other.steps[s].client
                  \/ document.steps[s].key = NoKey

\* A step that generates no key, and takes none for another attempt.
LEMMA NoNewKey ==
  ASSUME IInv, KeysFit, lastKey' = lastKey,
         \A s \in Step : \/ /\ record'.steps[s].key = record.steps[s].key
                            /\ record'.steps[s].client = record.steps[s].client
                         \/ record'.steps[s].key = NoKey,
         \A r \in Requests : \/ /\ request'[r].key = request[r].key
                                /\ request'[r].kind = request[r].kind
                                /\ request'[r].client = request[r].client
                             \/ request'[r].key = NoKey
  PROVE  KeysFit'
<1>1. lastKey \in Nat
  BY KeysAssumption DEF IInv, TypeOK, Keys, NoKey
<1>2. \A s \in Step : record'.steps[s].key <= lastKey'
  BY <1>1 DEF KeysFit, NoKey
<1>3. \A r \in Requests : request'[r].key <= lastKey'
  BY <1>1 DEF KeysFit, NoKey
<1>4. ASSUME NEW key \in Keys, NEW s \in Step, NEW c, InPlay(key, s, c)'
      PROVE  InPlay(key, s, c)
  BY <1>4 DEF InPlay, Keys, NoKey
<1>5. KeyNamesOneIntent'
  BY <1>4 DEF KeysFit, KeyNamesOneIntent
<1> QED BY <1>2, <1>3, <1>5 DEF KeysFit

\* A save that keeps the keys of the document, by a request that ends.
LEMMA SaveKeepsKeys ==
  ASSUME IInv, KeysFit, NEW r \in Requests, NEW document, save(r, document, Idle),
         lastKey' = lastKey, Inherits(document, record)
  PROVE  KeysFit'
<1>1. Idle.key = NoKey
  BY DEF Idle
<1>2. ASSUME NEW q \in Requests
      PROVE  \/ /\ request'[q].key = request[q].key /\ request'[q].kind = request[q].kind
                /\ request'[q].client = request[q].client
             \/ request'[q].key = NoKey
  BY <1>1 DEF save, IInv, TypeOK, Request
<1>3. record' = document
  BY DEF save
<1> QED BY <1>2, <1>3, NoNewKey DEF Inherits

\* The document of an intent holds the intent's key, and the keys it finds.
LEMMA IntentKeys ==
  ASSUME NEW document \in Record, NEW s \in Step, NEW client, NEW key
  PROVE  LET new == IntentRecord(document, s, client, key) IN
         /\ new.steps[s].key = key /\ new.steps[s].client = client
         /\ \A t \in Step \ {s} : \/ /\ new.steps[t].key = document.steps[t].key
                                     /\ new.steps[t].client = document.steps[t].client
                                  \/ new.steps[t].key = NoKey
<1> DEFINE new == IntentRecord(document, s, client, key)
           kept(t) == IsRetry(document, s, client) \/ t \notin Downstream[s]
           steps == [t \in Step |-> IF t = s THEN Pending(client, key)
                                    ELSE IF kept(t) THEN document.steps[t] ELSE NoStep]
<1>1. new.steps = steps
  BY DEF IntentRecord, Record
<1>2. Pending(client, key).key = key /\ Pending(client, key).client = client /\ NoStep.key = NoKey
  BY DEF Pending, NoStep
<1> HIDE DEF new, kept
<1>3. steps[s] = Pending(client, key) /\ \A t \in Step \ {s} : steps[t] \in {document.steps[t], NoStep}
  OBVIOUS
<1>4. /\ new.steps[s].key = key /\ new.steps[s].client = client
      /\ \A t \in Step \ {s} : \/ /\ new.steps[t].key = document.steps[t].key
                                  /\ new.steps[t].client = document.steps[t].client
                               \/ new.steps[t].key = NoKey
  BY <1>1, <1>2, <1>3
<1> QED BY <1>4 DEF new

\* An outcome and a reconciliation keep the keys of the document, or reset them.
LEMMA OutcomeKeys ==
  ASSUME NEW document \in Record, NEW s \in Step, NEW id
  PROVE  /\ Inherits(FailedOutcome(document, s), document)
         /\ Inherits(CompletedOutcome(document, s, id), document)
<1> DEFINE steps(status) == [document.steps EXCEPT ![s].status = status]
<1>1. ASSUME NEW status, NEW t \in Step
      PROVE  /\ steps(status)[t].key = document.steps[t].key
             /\ steps(status)[t].client = document.steps[t].client
  BY DEF Record, StepInfo
<1>2. /\ FailedOutcome(document, s).steps = steps("FAILED")
      /\ CompletedOutcome(document, s, id).steps = steps("COMPLETED")
  BY DEF FailedOutcome, CompletedOutcome, Record
<1> HIDE DEF steps
<1> QED BY <1>1, <1>2 DEF Inherits

LEMMA ReconciledKeys ==
  ASSUME NEW document \in Record, NEW status \in CheckStatus, NEW id
  PROVE  Inherits(ReconciledRecord(document, status, id), document)
<1> DEFINE new == ReconciledRecord(document, status, id)
           s == document.pendingStep
<1>1. CASE status \in {"NO_APPLICATION", "CLOSED"}
  <2>1. NoStep.key = NoKey /\ new.steps = [t \in Step |-> NoStep]
    BY <1>1 DEF ReconciledRecord, reconcileNoActiveDraft, NoStep, Record
  <2> HIDE DEF new
  <2>2. Inherits(new, document)
    BY <2>1 DEF Inherits
  <2> QED BY <2>2 DEF new
<1>2. CASE status \notin {"NO_APPLICATION", "CLOSED"}
  <2>1. \/ new.steps = document.steps
        \/ s \in Step /\ new.steps = [document.steps EXCEPT ![s].status = "COMPLETED"]
    BY <1>2 DEF ReconciledRecord, reconcileActiveRecord, Record
  <2> HIDE DEF new
  <2>2. \A t \in Step : /\ new.steps[t].key = document.steps[t].key
                        /\ new.steps[t].client = document.steps[t].client
    BY <2>1 DEF Record, StepInfo
  <2>3. Inherits(new, document)
    BY <2>2 DEF Inherits
  <2> QED BY <2>3 DEF new
<1> QED BY <1>1, <1>2

\* What a request has read has the keys of the record, or none.
LEMMA ExistingKeys ==
  ASSUME IInv, NEW r \in Requests, request[r].etag # "stale"
  PROVE  Existing(r) = record \/ \A s \in Step : Existing(r).steps[s].key = NoKey
BY ExistingFits DEF Existing, Empty, NoStep

\* An intent takes the key of its own attempt again, or one nobody holds.
LEMMA IntentKeysFit ==
  ASSUME IInv, KeysFit, NEW r \in Requests, PersistIntent(r)
  PROVE  KeysFit'
<1> DEFINE s == request[r].kind
           client == request[r].client
           retry == IsRetry(Existing(r), s, client)
           key == IF retry THEN Existing(r).steps[s].key ELSE lastKey + 1
           document == IntentRecord(Existing(r), s, client, key)
           next == [request[r] EXCEPT !.at = "calling", !.key = key, !.etag = "current"]
<1>1. /\ s \in Step /\ key \in Keys /\ save(r, document, next) /\ request[r].etag # "stale"
      /\ lastKey' = IF retry THEN lastKey ELSE key
  BY DEF PersistIntent, save
<1>2. Existing(r) \in Record /\ request[r] \in Request /\ lastKey \in Nat
  BY <1>1, ExistingFits, KeysAssumption DEF IInv, TypeOK, Keys, NoKey
<1>3. next.kind = s /\ next.client = client /\ next.key = key
  BY <1>2 DEF Request
<1>4. \/ InPlay(key, s, client) /\ lastKey' = lastKey
      \/ key = lastKey + 1 /\ lastKey' = key
  <2>1. CASE retry
    <3>1. Existing(r) = record
      BY <1>1, <2>1, ExistingKeys DEF Keys, NoKey
    <3> QED BY <1>1, <2>1, <3>1 DEF InPlay, IsRetry
  <2>2. CASE ~retry
    BY <1>1, <2>2
  <2> QED BY <2>1, <2>2
<1> HIDE DEF retry, key
<1>5. /\ document.steps[s].key = key /\ document.steps[s].client = client
      /\ \A t \in Step \ {s} :
           \/ /\ document.steps[t].key = Existing(r).steps[t].key
              /\ document.steps[t].client = Existing(r).steps[t].client
           \/ document.steps[t].key = NoKey
  <2> HIDE DEF s, client
  <2> QED BY <1>1, <1>2, IntentKeys
<1>6. /\ record' = document /\ request'[r] = next
      /\ \A q \in Requests \ {r} : /\ request'[q].key = request[q].key
                                   /\ request'[q].kind = request[q].kind
                                   /\ request'[q].client = request[q].client
  <2> HIDE DEF document, next
  <2> QED BY <1>1 DEF save, IInv, TypeOK, Request
<1>7. \A t \in Step \ {s} : \/ /\ record'.steps[t].key = record.steps[t].key
                               /\ record'.steps[t].client = record.steps[t].client
                            \/ record'.steps[t].key = NoKey
  <2> HIDE DEF document, s
  <2> QED BY <1>1, <1>5, <1>6, ExistingKeys
<1>8. record'.steps[s].key = key /\ record'.steps[s].client = client
  <2> HIDE DEF document, s, client
  <2> QED BY <1>5, <1>6
<1> HIDE DEF document, next, s, client
<1>9. ASSUME NEW k \in Keys, NEW t \in Step, NEW c, InPlay(k, t, c)'
      PROVE  InPlay(k, t, c) \/ (k = key /\ t = s /\ c = client)
  BY <1>3, <1>6, <1>7, <1>8, <1>9 DEF InPlay, Keys, NoKey
<1>10. ASSUME NEW k \in Keys, NEW t \in Step, NEW c, InPlay(k, t, c) PROVE k <= lastKey
  BY <1>10 DEF InPlay, KeysFit
<1>11. KeyNamesOneIntent'
  <2> SUFFICES ASSUME NEW k \in Keys, NEW t \in Step, NEW u \in Step,
                      NEW c \in Clients \cup {NoClient}, NEW d \in Clients \cup {NoClient},
                      InPlay(k, t, c)', InPlay(k, u, d)'
               PROVE  t = u /\ c = d
    BY DEF KeyNamesOneIntent
  <2>1. client \in Clients \cup {NoClient}
    BY <1>2 DEF client, Request
  <2>2. CASE InPlay(key, s, client)
    <3>1. InPlay(k, t, c) /\ InPlay(k, u, d)
      BY <1>9, <2>2
    <3> QED BY <3>1 DEF KeysFit, KeyNamesOneIntent
  <2>3. CASE key = lastKey + 1
    <3>1. ~InPlay(key, t, c) /\ ~InPlay(key, u, d)
      BY <1>1, <1>2, <1>10, <2>3
    <3>2. CASE k = key
      BY <1>9, <3>1, <3>2
    <3>3. CASE k # key
      <4>1. InPlay(k, t, c) /\ InPlay(k, u, d)
        BY <1>9, <3>3
      <4> QED BY <4>1 DEF KeysFit, KeyNamesOneIntent
    <3> QED BY <3>2, <3>3
  <2> QED BY <1>4, <2>2, <2>3
<1>12. key <= lastKey' /\ lastKey <= lastKey'
  BY <1>1, <1>2, <1>4, <1>10 DEF Keys
<1>13. \A t \in Step : record'.steps[t].key <= lastKey'
  <2>1. \A t \in Step : record.steps[t].key \in Nat /\ record.steps[t].key <= lastKey
    BY KeysAssumption DEF IInv, TypeOK, Record, StepInfo, Keys, NoKey, KeysFit
  <2>2. lastKey' \in Nat
    BY <1>1, <1>2, <1>4 DEF Keys
  <2> QED BY <1>2, <1>7, <1>8, <1>12, <2>1, <2>2 DEF NoKey
<1>14. \A q \in Requests : request'[q].key <= lastKey'
  <2>1. \A q \in Requests : request[q].key \in Nat /\ request[q].key <= lastKey
    BY KeysAssumption DEF IInv, TypeOK, Request, Keys, NoKey, KeysFit
  <2>2. lastKey' \in Nat
    BY <1>1, <1>2, <1>4 DEF Keys
  <2> QED BY <1>2, <1>3, <1>6, <1>12, <2>1, <2>2
<1> QED BY <1>11, <1>13, <1>14 DEF KeysFit

\* Every step keeps the keys apart.
LEMMA KeysStep == ASSUME IInv, KeysFit, [Next]_vars PROVE KeysFit'
<1>1. ASSUME NEW r \in Requests, NEW next, request' = [request EXCEPT ![r] = next],
             \/ /\ next.key = request[r].key /\ next.kind = request[r].kind
                /\ next.client = request[r].client
             \/ next.key = NoKey,
             record' = record, lastKey' = lastKey
      PROVE  KeysFit'
  <2>1. request'[r] = next /\ \A q \in Requests \ {r} : request'[q] = request[q]
    BY <1>1 DEF IInv, TypeOK
  <2> QED BY <1>1, <2>1, NoNewKey
<1>2. Idle.key = NoKey
  BY DEF Idle
<1>3. CASE UNCHANGED vars
  BY <1>3, NoNewKey DEF vars
<1>4. ASSUME NEW r \in Requests, NEW s \in Step, NEW client \in Clients, ReadRecord(r, s, client)
      PROVE  KeysFit'
  <2> DEFINE next == [Idle EXCEPT !.kind = s, !.at = "read", !.client = client, !.etag = EtagRead,
                                  !.idLavorazione = IF s = "draft" THEN NoKey
                                                    ELSE record.idLavorazione]
  <2>1. next.key = NoKey
    BY DEF Idle
  <2>2. request' = [request EXCEPT ![r] = next] /\ record' = record /\ lastKey' = lastKey
    BY <1>4 DEF ReadRecord
  <2> HIDE DEF next
  <2> QED BY <1>1, <2>1, <2>2
<1>5. ASSUME NEW r \in Requests, PersistOutcome(r) PROVE KeysFit'
  <2> DEFINE s == request[r].kind
             id == IF s = "draft" THEN request[r].key ELSE request[r].idLavorazione
  <2>1. /\ save(r, CompletedOutcome(record, s, id), Idle) \/ save(r, FailedOutcome(record, s), Idle)
        /\ lastKey' = lastKey /\ request[r].at \in {"accepted", "rejected"}
    BY <1>5 DEF PersistOutcome
  <2>2. s \in Step
    BY <2>1 DEF IInv, Fits
  <2> HIDE DEF s, id
  <2> QED BY <2>1, <2>2, OutcomeKeys, SaveKeepsKeys DEF IInv, TypeOK
<1>6. ASSUME NEW r \in Requests, PersistReconciled(r) PROVE KeysFit'
  <2> DEFINE document == ReconciledRecord(Existing(r), request[r].seen, request[r].idLavorazione)
  <2>1. /\ save(r, document, Idle) /\ lastKey' = lastKey /\ request[r].etag # "stale"
        /\ request[r].seen \in CheckStatus
    BY <1>6 DEF PersistReconciled, save, IInv, TypeOK, Request
  <2>2. Inherits(document, Existing(r))
    BY <2>1, ExistingFits, ReconciledKeys
  <2> HIDE DEF document
  <2>3. Inherits(document, record)
    BY <2>1, <2>2, ExistingKeys DEF Inherits
  <2> QED BY <2>1, <2>3, SaveKeepsKeys
<1>7. ASSUME NEW r \in Requests,
             NuovaDomandaInBozza(r) \/ FornisciFoto(r) \/ ConfermaDomanda(r) \/ InpsRejects(r)
      PROVE  KeysFit'
  <2>1. PICK answer : request' = [request EXCEPT ![r] = [request[r] EXCEPT !.at = answer]]
    BY <1>7 DEF NuovaDomandaInBozza, FornisciFoto, ConfermaDomanda, InpsRejects, Answered
  <2> DEFINE next == [request[r] EXCEPT !.at = answer]
  <2>2. next.key = request[r].key /\ next.kind = request[r].kind /\ next.client = request[r].client
    BY DEF IInv, TypeOK, Request
  <2>3. record' = record /\ lastKey' = lastKey
    BY <1>7 DEF NuovaDomandaInBozza, FornisciFoto, ConfermaDomanda, InpsRejects
  <2> HIDE DEF next
  <2> QED BY <1>1, <2>1, <2>2, <2>3 DEF next
<1>8. ASSUME NEW r \in Requests, CheckDomanda(r) PROVE KeysFit'
  <2> DEFINE next == [Idle EXCEPT !.kind = "check", !.at = "calling", !.seen = inps.status,
                                  !.idLavorazione = inps.idLavorazione]
  <2>1. next.key = NoKey
    BY DEF Idle
  <2>2. request' = [request EXCEPT ![r] = next] /\ record' = record /\ lastKey' = lastKey
    BY <1>8 DEF CheckDomanda
  <2> HIDE DEF next
  <2> QED BY <1>1, <2>1, <2>2
<1>9. ASSUME NEW r \in Requests, ReadForCheck(r) PROVE KeysFit'
  <2> DEFINE read == [request[r] EXCEPT !.at = "read", !.etag = EtagRead]
             next == IF request[r].seen = "NO_APPLICATION" /\ ~record.exists THEN Idle ELSE read
  <2>1. read.key = request[r].key /\ read.kind = request[r].kind /\ read.client = request[r].client
    BY DEF IInv, TypeOK, Request
  <2>2. request' = [request EXCEPT ![r] = next] /\ record' = record /\ lastKey' = lastKey
    BY <1>9 DEF ReadForCheck, IInv, TypeOK
  <2> HIDE DEF read
  <2>3. next = Idle \/ next = read
    OBVIOUS
  <2> HIDE DEF next
  <2> QED BY <1>1, <1>2, <2>1, <2>2, <2>3
<1>10. ASSUME NEW r \in Requests, RequestFails(r) PROVE KeysFit'
  <2>1. request' = [request EXCEPT ![r] = Idle] /\ record' = record /\ lastKey' = lastKey
    BY <1>10 DEF RequestFails
  <2> QED BY <1>1, <1>2, <2>1
<1>11. CASE InpsCloses
  BY <1>11, NoNewKey DEF InpsCloses
<1>12. CASE RecordExpires
  <2>1. \A s \in Step : record'.steps[s].key = NoKey
    BY <1>12 DEF RecordExpires, NoRecord, Empty, NoStep
  <2>2. UNCHANGED <<request, lastKey>>
    BY <1>12 DEF RecordExpires
  <2> QED BY <2>1, <2>2, NoNewKey
<1> QED BY <1>3, <1>4, <1>5, <1>6, <1>7, <1>8, <1>9, <1>10, <1>11, <1>12, IntentKeysFit
        DEF Next, Checks

\* INPS is never sent a key for another attempt than the one it was generated for.
THEOREM KeysAreNotShared == Spec => []KeyNamesOneIntent
<1>1. Init => KeysFit
  <2> SUFFICES ASSUME Init PROVE KeysFit
    OBVIOUS
  <2>1. \A s \in Step : record.steps[s].key = NoKey
    BY DEF Init, NoRecord, Empty, NoStep
  <2>2. \A r \in Requests : request[r].key = NoKey
    BY DEF Init, Idle
  <2>3. lastKey = 0
    BY DEF Init
  <2> QED BY <2>1, <2>2, <2>3 DEF KeysFit, KeyNamesOneIntent, InPlay, Keys, NoKey
<1>2. IInv /\ KeysFit /\ [Next]_vars => KeysFit'
  BY KeysStep
<1>3. KeysFit => KeyNamesOneIntent
  BY DEF KeysFit
<1> QED BY <1>1, <1>2, <1>3, Invariance, PTL DEF Spec

(***************************************************************************)
(* The contract of the steps.                                              *)
(***************************************************************************)
\* A step that has an attempt has a status; a request that has read the record
\* names a client key, and does not repeat a completed attempt.
AttemptsFit ==
  /\ \A s \in Step : record.steps[s].status = "none" => record.steps[s].client = NoClient
  /\ \A r \in Requests :
       request[r].kind \in Step =>
         /\ request[r].client \in Clients
         /\ request[r].at = "read" /\ request[r].etag = "current" =>
              ~ /\ record.steps[request[r].kind].client = request[r].client
                /\ record.steps[request[r].kind].status = "COMPLETED"

\* The steps of the documents that are saved.
LEMMA IntentSteps ==
  ASSUME NEW document \in Record, NEW s \in Step, NEW client, NEW key
  PROVE  IntentRecord(document, s, client, key).steps =
           [t \in Step |-> IF t = s THEN Pending(client, key)
                           ELSE IF IsRetry(document, s, client) \/ t \notin Downstream[s]
                           THEN document.steps[t] ELSE NoStep]
BY DEF IntentRecord, Record

LEMMA OutcomeSteps ==
  ASSUME NEW document \in Record, NEW s \in Step, NEW id
  PROVE  /\ FailedOutcome(document, s).steps = [document.steps EXCEPT ![s].status = "FAILED"]
         /\ CompletedOutcome(document, s, id).steps
              = [document.steps EXCEPT ![s].status = "COMPLETED"]
BY DEF FailedOutcome, CompletedOutcome, Record

LEMMA ReconciledSteps ==
  ASSUME NEW document \in Record, NEW status \in CheckStatus, NEW id
  PROVE  LET new == ReconciledRecord(document, status, id).steps IN
         \/ new = [t \in Step |-> NoStep]
         \/ new = document.steps
         \/ /\ document.pendingStep \in Step
            /\ new = [document.steps EXCEPT ![document.pendingStep].status = "COMPLETED"]
<1> DEFINE new == ReconciledRecord(document, status, id).steps
<1>1. CASE status \in {"NO_APPLICATION", "CLOSED"}
  <2>1. new = [t \in Step |-> NoStep]
    BY <1>1 DEF ReconciledRecord, reconcileNoActiveDraft, Record
  <2> QED BY <2>1
<1>2. CASE status \notin {"NO_APPLICATION", "CLOSED"}
  <2>1. \/ new = document.steps
        \/ /\ document.pendingStep \in Step
           /\ new = [document.steps EXCEPT ![document.pendingStep].status = "COMPLETED"]
    BY <1>2 DEF ReconciledRecord, reconcileActiveRecord, Record
  <2> QED BY <2>1
<1> QED BY <1>1, <1>2

\* The contract speaks of the same steps.
LEMMA SameSteps ==
  /\ Attempts!Step = Step
  /\ \A s \in Step : Attempts!After[s] = Downstream[s]
  /\ Attempts!NoAttempt = NoStep
  /\ Attempts!Forgotten = [s \in Step |-> NoStep]
BY DEF Attempts!Step, Step, Attempts!After, Downstream, Attempts!NoAttempt, NoStep,
       Attempts!Forgotten

\* A new intent is an attempt with a key nobody has had; a retry repeats the
\* attempt it finds.
LEMMA IntentIsAttempt ==
  ASSUME IInv, AttemptsFit, NEW r \in Requests, PersistIntent(r)
  PROVE  Attempts!Next
<1> DEFINE s == request[r].kind
           client == request[r].client
           retry == IsRetry(Existing(r), s, client)
           key == IF retry THEN Existing(r).steps[s].key ELSE lastKey + 1
           document == IntentRecord(Existing(r), s, client, key)
           next == [request[r] EXCEPT !.at = "calling", !.key = key, !.etag = "current"]
           used == {k \in Keys : k <= lastKey}
<1>1. /\ s \in Step /\ request[r].at = "read" /\ key \in Keys /\ save(r, document, next)
      /\ request[r].etag # "stale" /\ record' = document
      /\ lastKey' = IF retry THEN lastKey ELSE key
  BY DEF PersistIntent, save
<1>2. /\ Existing(r) \in Record /\ request[r] \in Request /\ lastKey \in Nat /\ client \in Clients
      /\ Existing(r) = record \/ Existing(r) = Empty
  BY <1>1, ExistingFits, KeysAssumption DEF IInv, TypeOK, Keys, NoKey, AttemptsFit, Existing
<1>3. document.steps =
        [t \in Step |-> IF t = s THEN Pending(client, key)
                        ELSE IF retry \/ t \notin Downstream[s]
                        THEN Existing(r).steps[t] ELSE NoStep]
  <2> HIDE DEF s, client, key
  <2> QED BY <1>1, <1>2, IntentSteps
<1>4. CASE retry
  <2>1. Existing(r) = record /\ record.steps[s].client = client /\ request[r].etag = "current"
    <3>1. Existing(r) # Empty
      BY <1>1, <1>4 DEF Empty, NoStep, Keys, NoKey
    <3> QED BY <1>1, <1>2, <1>4, <3>1 DEF IsRetry, Existing, Request
  <2>2. record.steps[s].status \in {"PENDING", "FAILED"}
    <3>1. record.steps[s] \in StepInfo /\ record.steps[s].client # NoClient
      BY <1>1, <1>2, <2>1, ClientsAssumption DEF IInv, TypeOK, Record
    <3>2. record.steps[s].status # "none" /\ record.steps[s].status # "COMPLETED"
      BY <1>1, <2>1, <3>1 DEF AttemptsFit
    <3> QED BY <3>1, <3>2 DEF StepInfo
  <2>3. Pending(client, key) = [record.steps[s] EXCEPT !.status = "PENDING"]
    BY <1>1, <1>4, <2>1 DEF Pending, IInv, TypeOK, Record, StepInfo
  <2>4. record'.steps = [t \in Step |-> IF t = s THEN Pending(client, key) ELSE record.steps[t]]
    BY <1>1, <1>3, <1>4, <2>1
  <2>5. record'.steps = [record.steps EXCEPT ![s].status = "PENDING"]
    <3>1. record.steps \in [Step -> StepInfo]
      BY DEF IInv, TypeOK, Record
    <3> HIDE DEF s, client, key
    <3> QED BY <1>1, <2>3, <2>4, <3>1
  <2>6. lastKey' = lastKey
    BY <1>1, <1>4
  <2>7. s \in Attempts!Step
    BY <1>1, SameSteps
  <2> HIDE DEF s, client, key, retry
  <2>8. PICK step \in Attempts!Step : step = s
    BY <2>7
  <2>9. Attempts!Repeat(step)
    BY <2>2, <2>5, <2>6, <2>8 DEF Attempts!Repeat
  <2> QED BY <2>9 DEF Attempts!Next
<1>5. CASE ~retry
  <2>1. key = lastKey + 1 /\ lastKey' = lastKey + 1
    BY <1>1, <1>5
  <2>2. key \notin used /\ {k \in Keys : k <= lastKey'} = used \cup {key}
    BY <1>1, <1>2, <2>1, KeysAssumption DEF Keys
  <2> DEFINE kept == IF Existing(r) = Empty THEN {} ELSE Step \ (Downstream[s] \cup {s})
  <2>3. record'.steps = [t \in Step |->
                           IF t = s THEN [client |-> client, key |-> key, status |-> "PENDING"]
                           ELSE IF t \in kept THEN record.steps[t] ELSE NoStep]
    <3>1. ASSUME NEW t \in Step \ {s}
          PROVE  (IF t \notin Downstream[s] THEN Existing(r).steps[t] ELSE NoStep)
                   = IF t \in kept THEN record.steps[t] ELSE NoStep
      BY <1>2, <3>1 DEF Empty
    <3>2. Pending(client, key) = [client |-> client, key |-> key, status |-> "PENDING"]
      BY DEF Pending
    <3>3. document.steps = [t \in Step |-> IF t = s THEN Pending(client, key)
                                           ELSE IF t \notin Downstream[s]
                                           THEN Existing(r).steps[t] ELSE NoStep]
      BY <1>3, <1>5
    <3> HIDE DEF s, client, key, kept, document
    <3> QED BY <1>1, <3>1, <3>2, <3>3
  <2>4. kept \in {{}, Attempts!Step \ (Attempts!After[s] \cup {s})}
    BY <1>1, SameSteps
  <2>5. s \in Attempts!Step /\ client \in Clients /\ key \in Keys
    BY <1>1, <1>2, SameSteps
  <2> HIDE DEF s, client, key, retry, kept
  <2>6. PICK step \in Attempts!Step, sender \in Clients, new \in Keys :
          step = s /\ sender = client /\ new = key
    BY <2>5
  <2>7. Attempts!Begin(step, sender, new)
    BY <2>2, <2>3, <2>4, <2>6, SameSteps DEF Attempts!Begin, used
  <2> QED BY <2>7 DEF Attempts!Next
<1> QED BY <1>4, <1>5

\* An outcome answers the attempt its request has made.
LEMMA OutcomeIsAnswer ==
  ASSUME IInv, NEW r \in Requests, PersistOutcome(r)
  PROVE  Attempts!Next
<1> DEFINE s == request[r].kind
           id == IF s = "draft" THEN request[r].key ELSE request[r].idLavorazione
<1>1. /\ \/ save(r, CompletedOutcome(record, s, id), Idle)
         \/ save(r, FailedOutcome(record, s), Idle)
      /\ request[r].at \in {"accepted", "rejected"} /\ request[r].etag # "stale"
      /\ lastKey' = lastKey
  BY DEF PersistOutcome, save
<1>2. s \in Step /\ record.steps[s].status = "PENDING"
  <2>1. Fits(request[r], record, inps) /\ request[r] \in Request
    BY DEF IInv, TypeOK
  <2>2. s \in Step
    BY <1>1, <2>1 DEF Fits
  <2>3. request[r].etag = "current"
    BY <1>1, <2>1, <2>2 DEF Fits, Request
  <2>4. record.steps[s] = Pending(request[r].client, request[r].key)
    BY <1>1, <2>1, <2>2, <2>3 DEF Fits
  <2> QED BY <2>2, <2>4 DEF Pending
<1> HIDE DEF s, id
<1>3. record \in Record
  BY DEF IInv, TypeOK
<1>4. PICK outcome \in {"COMPLETED", "FAILED"} :
        record'.steps = [record.steps EXCEPT ![s].status = outcome]
  <2>1. CASE save(r, CompletedOutcome(record, s, id), Idle)
    <3>1. record'.steps = [record.steps EXCEPT ![s].status = "COMPLETED"]
      BY <1>2, <1>3, <2>1, OutcomeSteps DEF save
    <3> QED BY <3>1
  <2>2. CASE save(r, FailedOutcome(record, s), Idle)
    <3>1. record'.steps = [record.steps EXCEPT ![s].status = "FAILED"]
      BY <1>2, <1>3, <2>2, OutcomeSteps DEF save
    <3> QED BY <3>1
  <2> QED BY <1>1, <2>1, <2>2
<1>5. Attempts!Answer(s, outcome)
  BY <1>1, <1>2, <1>4 DEF Attempts!Answer
<1>6. s \in Attempts!Step
  BY <1>2, SameSteps
<1> QED BY <1>5, <1>6 DEF Attempts!Next

\* A status check answers the pending step, or forgets the application.
LEMMA CheckIsAnswer ==
  ASSUME IInv, NEW r \in Requests, PersistReconciled(r)
  PROVE  Attempts!Next \/ (record'.steps = record.steps /\ lastKey' = lastKey)
<1> DEFINE document == Existing(r)
           s == document.pendingStep
<1>1. /\ record' = ReconciledRecord(document, request[r].seen, request[r].idLavorazione)
      /\ request[r].etag # "stale" /\ request[r].seen \in CheckStatus /\ lastKey' = lastKey
  BY DEF PersistReconciled, save, IInv, TypeOK, Request
<1>2. document \in Record /\ DocumentFits(document, inps) /\ (document = record \/ document = Empty)
  BY <1>1, ExistingFits DEF Existing
<1> HIDE DEF document
<1>3. CASE record'.steps = [t \in Step |-> NoStep]
  <2>1. Attempts!Forget
    BY <1>1, <1>3, SameSteps DEF Attempts!Forget
  <2> QED BY <2>1 DEF Attempts!Next
<1>4. CASE record'.steps = document.steps
  <2>1. CASE document = record
    BY <1>1, <1>4, <2>1
  <2>2. CASE document = Empty
    <3>1. record'.steps = [t \in Step |-> NoStep]
      BY <1>4, <2>2 DEF Empty
    <3> QED BY <1>3, <3>1
  <2> QED BY <1>2, <2>1, <2>2
<1>5. CASE s \in Step /\ record'.steps = [document.steps EXCEPT ![s].status = "COMPLETED"]
  <2>1. document = record
    BY <1>2, <1>5 DEF Empty, Step
  <2>2. record.steps[s].status = "PENDING"
    BY <1>2, <1>5, <2>1 DEF DocumentFits, Step
  <2> HIDE DEF s
  <2>3. Attempts!Answer(s, "COMPLETED")
    BY <1>1, <1>5, <2>1, <2>2 DEF Attempts!Answer
  <2> QED BY <1>5, <2>3, SameSteps DEF Attempts!Next
<1> QED BY <1>1, <1>2, <1>3, <1>4, <1>5, ReconciledSteps

\* A save by a request that ends, of a document whose steps have a status.
LEMMA SaveKeepsAttempts ==
  ASSUME IInv, AttemptsFit, NEW r \in Requests, NEW document, NEW next, save(r, document, next),
         \A s \in Step : document.steps[s].status = "none" => document.steps[s].client = NoClient,
         next.kind \in Step => next.client \in Clients /\ next.at # "read"
  PROVE  AttemptsFit'
<1>1. /\ record' = document /\ request'[r] = next
      /\ \A q \in Requests \ {r} :
           request'[q] = IF request[q].etag = "current" THEN [request[q] EXCEPT !.etag = "stale"]
                         ELSE request[q]
  BY DEF save, IInv, TypeOK
<1>2. ASSUME NEW q \in Requests \ {r}
      PROVE  /\ request'[q].kind = request[q].kind /\ request'[q].client = request[q].client
             /\ request'[q].etag # "current"
  BY <1>1 DEF IInv, TypeOK, Request
<1> QED BY <1>1, <1>2 DEF AttemptsFit

\* Every step keeps what the attempts rest on.
LEMMA AttemptsStep == ASSUME IInv, AttemptsFit, [Next]_vars PROVE AttemptsFit'
<1>1. ASSUME NEW r \in Requests, NEW next, request' = [request EXCEPT ![r] = next],
             record' = record,
             next.kind \in Step =>
               /\ next.client \in Clients
               /\ next.at = "read" /\ next.etag = "current" =>
                    ~ /\ record.steps[next.kind].client = next.client
                      /\ record.steps[next.kind].status = "COMPLETED"
      PROVE  AttemptsFit'
  <2>1. request'[r] = next /\ \A q \in Requests \ {r} : request'[q] = request[q]
    BY <1>1 DEF IInv, TypeOK
  <2> QED BY <1>1, <2>1 DEF AttemptsFit
<1>2. Idle.kind \notin Step /\ NoStep.client = NoClient
  BY DEF Idle, Step, NoStep
<1>3. CASE UNCHANGED vars
  BY <1>3 DEF vars, AttemptsFit
<1>4. ASSUME NEW r \in Requests, NEW s \in Step, NEW client \in Clients, ReadRecord(r, s, client)
      PROVE  AttemptsFit'
  <2> DEFINE next == [Idle EXCEPT !.kind = s, !.at = "read", !.client = client, !.etag = EtagRead,
                                  !.idLavorazione = IF s = "draft" THEN NoKey
                                                    ELSE record.idLavorazione]
  <2>1. next.kind = s /\ next.client = client
    BY DEF Idle
  <2>2. /\ request' = [request EXCEPT ![r] = next] /\ record' = record
        /\ ~(record.steps[s].client = client /\ record.steps[s].status = "COMPLETED")
    BY <1>4 DEF ReadRecord
  <2> HIDE DEF next
  <2> QED BY <1>1, <2>1, <2>2
<1>5. ASSUME NEW r \in Requests, PersistIntent(r) PROVE AttemptsFit'
  <2> DEFINE s == request[r].kind
             client == request[r].client
             key == IF IsRetry(Existing(r), s, client) THEN Existing(r).steps[s].key ELSE lastKey + 1
             document == IntentRecord(Existing(r), s, client, key)
             next == [request[r] EXCEPT !.at = "calling", !.key = key, !.etag = "current"]
  <2>1. s \in Step /\ save(r, document, next) /\ request[r].etag # "stale"
    BY <1>5 DEF PersistIntent, save
  <2>2. /\ Existing(r) \in Record /\ request[r] \in Request /\ client \in Clients
        /\ Existing(r) = record \/ Existing(r) = Empty
    BY <2>1, ExistingFits DEF IInv, TypeOK, AttemptsFit, Existing
  <2>3. next.client = client /\ next.at = "calling"
    <3> HIDE DEF key
    <3> QED BY <2>2 DEF Request
  <2>4. \A t \in Step : Existing(r).steps[t].status = "none" => Existing(r).steps[t].client = NoClient
    BY <1>2, <2>2 DEF AttemptsFit, Empty
  <2>5. ASSUME NEW t \in Step
        PROVE  document.steps[t] \in {Pending(client, key), Existing(r).steps[t], NoStep}
    <3>1. document.steps = [u \in Step |-> IF u = s THEN Pending(client, key)
                                           ELSE IF IsRetry(Existing(r), s, client) \/ u \notin Downstream[s]
                                           THEN Existing(r).steps[u] ELSE NoStep]
      <4> HIDE DEF s, client, key
      <4> QED BY <2>1, <2>2, IntentSteps
    <3> HIDE DEF s, client, key, document
    <3> QED BY <2>5, <3>1
  <2>6. Pending(client, key).status = "PENDING"
    BY DEF Pending
  <2> HIDE DEF document, next, key, s
  <2>7. \A t \in Step : document.steps[t].status = "none" => document.steps[t].client = NoClient
    BY <1>2, <2>4, <2>5, <2>6
  <2> QED BY <2>1, <2>2, <2>3, <2>7, SaveKeepsAttempts
<1>6. ASSUME NEW steps \in [Step -> StepInfo], NEW s \in Step, NEW status \in {"COMPLETED", "FAILED"},
             \A t \in Step : steps[t].status = "none" => steps[t].client = NoClient
      PROVE  \A t \in Step : [steps EXCEPT ![s].status = status][t].status = "none"
                               => [steps EXCEPT ![s].status = status][t].client = NoClient
  BY <1>6 DEF StepInfo
<1>7. ASSUME NEW r \in Requests, PersistOutcome(r) PROVE AttemptsFit'
  <2> DEFINE s == request[r].kind
             id == IF s = "draft" THEN request[r].key ELSE request[r].idLavorazione
  <2>1. /\ save(r, CompletedOutcome(record, s, id), Idle) \/ save(r, FailedOutcome(record, s), Idle)
        /\ request[r].at \in {"accepted", "rejected"}
    BY <1>7 DEF PersistOutcome
  <2>2. s \in Step
    BY <2>1 DEF IInv, Fits
  <2>3. record \in Record /\ record.steps \in [Step -> StepInfo]
    BY DEF IInv, TypeOK, Record
  <2> HIDE DEF s, id
  <2>4. ASSUME NEW document, NEW status \in {"COMPLETED", "FAILED"}, save(r, document, Idle),
               document.steps = [record.steps EXCEPT ![s].status = status]
        PROVE  AttemptsFit'
    <3>1. \A t \in Step : document.steps[t].status = "none" => document.steps[t].client = NoClient
      BY <1>6, <2>2, <2>3, <2>4 DEF AttemptsFit
    <3> QED BY <1>2, <2>4, <3>1, SaveKeepsAttempts
  <2>5. CASE save(r, CompletedOutcome(record, s, id), Idle)
    <3>1. CompletedOutcome(record, s, id).steps = [record.steps EXCEPT ![s].status = "COMPLETED"]
      BY <2>2, <2>3, OutcomeSteps
    <3> QED BY <2>4, <2>5, <3>1
  <2>6. CASE save(r, FailedOutcome(record, s), Idle)
    <3>1. FailedOutcome(record, s).steps = [record.steps EXCEPT ![s].status = "FAILED"]
      BY <2>2, <2>3, OutcomeSteps
    <3> QED BY <2>4, <2>6, <3>1
  <2> QED BY <2>1, <2>5, <2>6
<1>8. ASSUME NEW r \in Requests, PersistReconciled(r) PROVE AttemptsFit'
  <2> DEFINE old == Existing(r)
             document == ReconciledRecord(old, request[r].seen, request[r].idLavorazione)
  <2>1. /\ save(r, document, Idle) /\ request[r].etag # "stale"
        /\ request[r].seen \in CheckStatus
    BY <1>8 DEF PersistReconciled, save, IInv, TypeOK, Request
  <2>2. old \in Record /\ (old = record \/ old = Empty) /\ old.steps \in [Step -> StepInfo]
    BY <2>1, ExistingFits DEF Existing, Record
  <2>3. \A t \in Step : old.steps[t].status = "none" => old.steps[t].client = NoClient
    BY <1>2, <2>2 DEF AttemptsFit, Empty
  <2> HIDE DEF old
  <2>4. \/ document.steps = [t \in Step |-> NoStep]
        \/ document.steps = old.steps
        \/ /\ old.pendingStep \in Step
           /\ document.steps = [old.steps EXCEPT ![old.pendingStep].status = "COMPLETED"]
    BY <2>1, <2>2, ReconciledSteps
  <2> HIDE DEF document
  <2>5. \A t \in Step : document.steps[t].status = "none" => document.steps[t].client = NoClient
    <3>1. CASE document.steps = [t \in Step |-> NoStep]
      BY <1>2, <3>1
    <3>2. CASE document.steps = old.steps
      BY <2>3, <3>2
    <3> DEFINE pending == old.pendingStep
    <3>3. CASE pending \in Step /\ document.steps = [old.steps EXCEPT ![pending].status = "COMPLETED"]
      <4> HIDE DEF pending
      <4> QED BY <1>6, <2>2, <2>3, <3>3
    <3> QED BY <2>4, <3>1, <3>2, <3>3
  <2> QED BY <1>2, <2>1, <2>5, SaveKeepsAttempts
<1>9. ASSUME NEW r \in Requests,
             NuovaDomandaInBozza(r) \/ FornisciFoto(r) \/ ConfermaDomanda(r) \/ InpsRejects(r)
      PROVE  AttemptsFit'
  <2>1. PICK answer \in {"accepted", "rejected"} :
          request' = [request EXCEPT ![r] = [request[r] EXCEPT !.at = answer]]
    BY <1>9 DEF NuovaDomandaInBozza, FornisciFoto, ConfermaDomanda, InpsRejects, Answered
  <2> DEFINE next == [request[r] EXCEPT !.at = answer]
  <2>2. next.kind = request[r].kind /\ next.client = request[r].client /\ next.at = answer
    BY DEF IInv, TypeOK, Request
  <2>3. record' = record
    BY <1>9 DEF NuovaDomandaInBozza, FornisciFoto, ConfermaDomanda, InpsRejects
  <2>4. next.kind \in Step => next.client \in Clients /\ next.at # "read"
    BY <2>1, <2>2 DEF AttemptsFit
  <2>5. request' = [request EXCEPT ![r] = next]
    BY <2>1
  <2> HIDE DEF next
  <2> QED BY <1>1, <2>3, <2>4, <2>5
<1>10. ASSUME NEW r \in Requests, CheckDomanda(r) \/ ReadForCheck(r) PROVE AttemptsFit'
  <2>1. PICK next : /\ request' = [request EXCEPT ![r] = next] /\ record' = record
                    /\ next.kind \in {"idle", "check"}
    <3>1. CASE CheckDomanda(r)
      <4> DEFINE next == [Idle EXCEPT !.kind = "check", !.at = "calling", !.seen = inps.status,
                                      !.idLavorazione = inps.idLavorazione]
      <4>1. next.kind = "check"
        BY DEF Idle
      <4>2. request' = [request EXCEPT ![r] = next] /\ record' = record
        BY <3>1 DEF CheckDomanda
      <4> QED BY <4>1, <4>2
    <3>2. CASE ReadForCheck(r)
      <4> DEFINE read == [request[r] EXCEPT !.at = "read", !.etag = EtagRead]
                 next == IF request[r].seen = "NO_APPLICATION" /\ ~record.exists THEN Idle ELSE read
      <4>1. read.kind = "check" /\ Idle.kind = "idle"
        BY <3>2 DEF IInv, TypeOK, Request, Idle, ReadForCheck, Calls
      <4>2. request' = [request EXCEPT ![r] = next] /\ record' = record
        BY <3>2 DEF ReadForCheck, IInv, TypeOK
      <4> QED BY <4>1, <4>2
    <3> QED BY <1>10, <3>1, <3>2
  <2> QED BY <1>1, <2>1 DEF Step
<1>11. ASSUME NEW r \in Requests, RequestFails(r) PROVE AttemptsFit'
  <2>1. request' = [request EXCEPT ![r] = Idle] /\ record' = record
    BY <1>11 DEF RequestFails
  <2> QED BY <1>1, <1>2, <2>1
<1>12. CASE InpsCloses
  BY <1>12 DEF InpsCloses, AttemptsFit
<1>13. CASE RecordExpires
  <2>1. \A r \in Requests : request'[r].kind \notin Step
    BY <1>2, <1>13 DEF RecordExpires
  <2>2. \A s \in Step : record'.steps[s].client = NoClient
    BY <1>2, <1>13 DEF RecordExpires, NoRecord, Empty
  <2> QED BY <2>1, <2>2 DEF AttemptsFit
<1> QED BY <1>3, <1>4, <1>5, <1>7, <1>8, <1>9, <1>10, <1>11, <1>12, <1>13 DEF Next, Checks

\* The document implements the contract of its steps: every save is one of the
\* contract's moves, whatever the save found.
THEOREM ImplementsAttempts == Spec => AttemptsAsPromised
<1>1. Init => AttemptsFit /\ Attempts!Init
  <2> SUFFICES ASSUME Init PROVE AttemptsFit /\ Attempts!Init
    OBVIOUS
  <2>1. record.steps = [s \in Step |-> NoStep] /\ lastKey = 0
    BY DEF Init, NoRecord, Empty
  <2>2. NoStep.client = NoClient /\ Idle.kind \notin Step
    BY DEF NoStep, Idle, Step
  <2>3. AttemptsFit
    BY <2>1, <2>2 DEF AttemptsFit, Init
  <2>4. {key \in Keys : key <= lastKey} = {}
    BY <2>1, KeysAssumption DEF Keys
  <2> QED BY <2>1, <2>3, <2>4, SameSteps DEF Attempts!Init
<1>2. ASSUME IInv, AttemptsFit, [Next]_vars
      PROVE  Attempts!Next \/ (record'.steps = record.steps /\ lastKey' = lastKey)
  <2>1. CASE UNCHANGED <<record, lastKey>>
    BY <2>1
  <2>2. ASSUME NEW r \in Requests, PersistIntent(r) PROVE Attempts!Next
    BY <1>2, <2>2, IntentIsAttempt
  <2>3. ASSUME NEW r \in Requests, PersistOutcome(r) PROVE Attempts!Next
    BY <1>2, <2>3, OutcomeIsAnswer
  <2>4. ASSUME NEW r \in Requests, PersistReconciled(r)
        PROVE  Attempts!Next \/ (record'.steps = record.steps /\ lastKey' = lastKey)
    BY <1>2, <2>4, CheckIsAnswer
  <2>5. CASE RecordExpires
    <3>1. Attempts!Forget
      BY <2>5, SameSteps DEF RecordExpires, NoRecord, Empty, Attempts!Forget
    <3> QED BY <3>1 DEF Attempts!Next
  <2>6. UNCHANGED vars => UNCHANGED <<record, lastKey>>
    BY DEF vars
  <2>7. ASSUME NEW r \in Requests,
               \/ \E s \in Step, client \in Clients : ReadRecord(r, s, client)
               \/ NuovaDomandaInBozza(r) \/ FornisciFoto(r) \/ ConfermaDomanda(r)
               \/ InpsRejects(r) \/ CheckDomanda(r) \/ ReadForCheck(r) \/ RequestFails(r)
        PROVE  UNCHANGED <<record, lastKey>>
    BY <2>7 DEF ReadRecord, NuovaDomandaInBozza, FornisciFoto, ConfermaDomanda, InpsRejects,
                CheckDomanda, ReadForCheck, RequestFails
  <2>8. InpsCloses => UNCHANGED <<record, lastKey>>
    BY DEF InpsCloses
  <2> QED BY <1>2, <2>1, <2>2, <2>3, <2>4, <2>5, <2>6, <2>7, <2>8 DEF Next, Checks
<1>3. IInv /\ AttemptsFit /\ [Next]_vars => [Attempts!Next]_(Attempts!vars)
  BY <1>2 DEF Attempts!vars
<1>4. IInv /\ AttemptsFit /\ [Next]_vars => AttemptsFit'
  BY AttemptsStep
<1> QED BY <1>1, <1>3, <1>4, Invariance, PTL DEF Spec, AttemptsAsPromised, Attempts!Spec
===============================================================================
