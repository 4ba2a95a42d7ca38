----------------------------- MODULE SupportRecord -----------------------------
(***************************************************************************)
(* One citizen's application for the card in ced-card-request-be: the      *)
(* support record the service keeps in Cosmos, the three steps that write  *)
(* it around a call to INPS (draft, photo, confirm), and the status check  *)
(* that reconciles it with INPS, which owns the application.               *)
(*                                                                         *)
(* A step reads the record, saves its intent, calls INPS and saves the     *)
(* outcome; a status check asks INPS, reads the record and saves.  Saves   *)
(* are conditional on the etag read.  Other requests of the same citizen   *)
(* come in between, and a request can fail, or lose INPS's answer, after   *)
(* any of its steps.                                                       *)
(*                                                                         *)
(* An INPS Idempotency-Key is a number; so is an idLavorazione, the number *)
(* of the key that created it.                                             *)
(***************************************************************************)
EXTENDS Integers

CONSTANTS
  Requests,  \* the requests of the citizen served at the same time
  Clients,   \* the Idempotency-Keys clients send
  NoClient,  \* no such key
  MaxKeys    \* bound: the INPS keys generated

ASSUME ClientsAssumption == NoClient \notin Clients
ASSUME KeysAssumption == MaxKeys \in Nat

VARIABLES
  record,   \* the document in Cosmos
  request,  \* the progress of each request
  inps,     \* the application as INPS holds it
  lastKey   \* the INPS keys generated so far

vars == <<record, request, inps, lastKey>>

NoKey == 0
Keys == 1..MaxKeys

Step == {"draft", "photo", "confirm"}
State == {"READY_FOR_NEW_DRAFT", "READY_FOR_PHOTO_UPLOAD", "READY_FOR_DOCUMENTS_UPLOAD",
          "ACQUIRED"}
CheckStatus == {"NO_APPLICATION", "DRAFT", "PHOTO_ATTACHED", "ACQUIRED", "CLOSED"}

StepInfo == [client : Clients \cup {NoClient}, key : Keys \cup {NoKey},
             status : {"none", "PENDING", "COMPLETED", "FAILED"}]

NoStep == [client |-> NoClient, key |-> NoKey, status |-> "none"]

\* numDomus is the idLavorazione the document number was assigned to.
Record == [exists : BOOLEAN, idLavorazione : Keys \cup {NoKey}, numDomus : Keys \cup {NoKey},
           pendingStep : Step \cup {"none"}, state : State, steps : [Step -> StepInfo]]

Empty == [exists |-> TRUE, idLavorazione |-> NoKey, numDomus |-> NoKey, pendingStep |-> "none",
          state |-> "READY_FOR_NEW_DRAFT", steps |-> [s \in Step |-> NoStep]]

NoRecord == [Empty EXCEPT !.exists = FALSE]

(***************************************************************************)
(* A request: what it does, how far it is, the client's key, the           *)
(* idLavorazione it is about, the INPS key, whether the etag it holds      *)
(* still is the record's, INPS's answer.                                   *)
(***************************************************************************)
Request == [kind : Step \cup {"idle", "check"},
            at : {"start", "read", "calling", "accepted", "rejected"},
            client : Clients \cup {NoClient}, idLavorazione : Keys \cup {NoKey},
            key : Keys \cup {NoKey}, etag : {"unset", "current", "stale"}, seen : CheckStatus]

Idle == [kind |-> "idle", at |-> "start", client |-> NoClient, idLavorazione |-> NoKey,
         key |-> NoKey, etag |-> "unset", seen |-> "NO_APPLICATION"]

\* served: the keys INPS has carried out, which it replays without effect.
Inps == [status : CheckStatus, idLavorazione : Keys \cup {NoKey}, served : SUBSET Keys]

(***************************************************************************)
(* Milestones.                                                             *)
(***************************************************************************)
Milestone ==
  [NO_APPLICATION |-> "READY_FOR_NEW_DRAFT", DRAFT |-> "READY_FOR_PHOTO_UPLOAD",
   PHOTO_ATTACHED |-> "READY_FOR_DOCUMENTS_UPLOAD", ACQUIRED |-> "ACQUIRED",
   CLOSED |-> "READY_FOR_NEW_DRAFT"]

Rank == [NO_APPLICATION |-> 0, DRAFT |-> 1, PHOTO_ATTACHED |-> 2, ACQUIRED |-> 3, CLOSED |-> 0]

Required == [draft |-> 1, photo |-> 2, confirm |-> 3]

Downstream == [draft |-> {"photo", "confirm"}, photo |-> {"confirm"}, confirm |-> {}]

(***************************************************************************)
(* The repository.                                                         *)
(***************************************************************************)
EtagRead == IF record.exists THEN "current" ELSE "unset"

\* What a request has read, for as long as its etag is current.
Existing(r) == IF request[r].etag = "unset" THEN Empty ELSE record

\* A slip the checks must catch: the document is replaced whatever its etag.
saveUnconditionally(r, document, next) ==
  /\ record' = document
  /\ request' = [request EXCEPT ![r] = next]

\* A request that read no record creates one, or replaces the one it finds; with
\* any other request the replacement is refused when the etag is stale, and the
\* request fails.
save(r, document, next) ==
  /\ request[r].etag # "stale"
  /\ record' = document
  /\ request' = [q \in Requests |->
                   IF q = r THEN next
                   ELSE IF request[q].etag = "current" THEN [request[q] EXCEPT !.etag = "stale"]
                   ELSE request[q]]

(***************************************************************************)
(* The documents a step saves.                                             *)
(***************************************************************************)
Pending(client, key) == [client |-> client, key |-> key, status |-> "PENDING"]

\* A slip: any attempt at a step already recorded is taken for the same one.
IsRetryOfAny(document, s, client) == document.steps[s].client # NoClient

IsRetry(document, s, client) == document.steps[s].client = client

\* A new intent resets what is downstream of its step.
IntentRecord(document, s, client, key) ==
  LET keeps == IsRetry(document, s, client)
      keepsId == keeps \/ s # "draft" IN
  [document EXCEPT
     !.idLavorazione = IF keepsId THEN @ ELSE NoKey,
     !.numDomus = IF keepsId THEN @ ELSE NoKey,
     !.pendingStep = s,
     !.steps = [t \in Step |-> IF t = s THEN Pending(client, key)
                               ELSE IF keeps \/ t \notin Downstream[s] THEN document.steps[t]
                               ELSE NoStep]]

\* A slip: a rejected step stays the pending step.
FailedKeepingPendingStep(document, s) == [document EXCEPT !.steps[s].status = "FAILED"]

FailedOutcome(document, s) ==
  [document EXCEPT !.pendingStep = "none", !.steps[s].status = "FAILED"]

CompletedOutcome(document, s, id) ==
  [document EXCEPT
     !.pendingStep = "none",
     !.steps[s].status = "COMPLETED",
     !.idLavorazione = IF s = "draft" THEN id ELSE @,
     !.numDomus = IF s = "confirm" THEN id ELSE @,
     !.state = CASE s = "draft" -> "READY_FOR_PHOTO_UPLOAD"
                 [] s = "photo" -> "READY_FOR_DOCUMENTS_UPLOAD"
                 [] s = "confirm" -> "ACQUIRED"]

(***************************************************************************)
(* The document a status check saves.                                      *)
(***************************************************************************)
reconcileNoActiveDraft(document) ==
  [document EXCEPT !.idLavorazione = NoKey, !.numDomus = NoKey, !.pendingStep = "none",
                   !.state = "READY_FOR_NEW_DRAFT", !.steps = [s \in Step |-> NoStep]]

\* Slips: INPS's status is stored as it is; a known idLavorazione is kept.
reconcileUnmapped(document, status, id) ==
  [document EXCEPT !.idLavorazione = id, !.pendingStep = "none", !.state = status]

reconcileKeepingId(document, status, id) ==
  [document EXCEPT !.idLavorazione = IF @ = NoKey THEN id ELSE @,
                   !.pendingStep = "none", !.state = Milestone[status]]

\* The pending step is completed when INPS is at its milestone or past it.
reconcileActiveRecord(document, status, id) ==
  LET s == document.pendingStep
      reached == s # "none" /\ Rank[status] >= Required[s] IN
  [document EXCEPT
     !.idLavorazione = id,
     !.numDomus = IF status = "ACQUIRED" /\ document.idLavorazione = id THEN @ ELSE NoKey,
     !.pendingStep = "none",
     !.state = Milestone[status],
     !.steps = IF reached THEN [@ EXCEPT ![s].status = "COMPLETED"] ELSE @]

ReconciledRecord(document, status, id) ==
  IF status \in {"NO_APPLICATION", "CLOSED"} THEN reconcileNoActiveDraft(document)
  ELSE reconcileActiveRecord(document, status, id)

(***************************************************************************)
(* The steps' use cases.                                                   *)
(***************************************************************************)
\* Photo and confirm are refused unless they name the record's idLavorazione;
\* a completed step with the same client key is answered from the record.
ReadRecord(r, s, client) ==
  /\ request[r] = Idle
  /\ s # "draft" => record.exists /\ record.idLavorazione # NoKey
  /\ ~(record.steps[s].client = client /\ record.steps[s].status = "COMPLETED")
  /\ request' = [request EXCEPT ![r] =
       [Idle EXCEPT !.kind = s, !.at = "read", !.client = client, !.etag = EtagRead,
                    !.idLavorazione = IF s = "draft" THEN NoKey ELSE record.idLavorazione]]
  /\ UNCHANGED <<record, inps, lastKey>>

\* Write 1: a retry keeps the INPS key of its step, a new intent has its own.
PersistIntent(r) ==
  LET s == request[r].kind
      client == request[r].client
      retry == IsRetry(Existing(r), s, client)
      key == IF retry THEN Existing(r).steps[s].key ELSE lastKey + 1 IN
  /\ s \in Step
  /\ request[r].at = "read"
  /\ key \in Keys
  /\ save(r, IntentRecord(Existing(r), s, client, key),
          [request[r] EXCEPT !.at = "calling", !.key = key, !.etag = "current"])
  /\ lastKey' = IF retry THEN lastKey ELSE key
  /\ inps' = inps

\* Write 2, after INPS said 200 or 400.  A request that fails before leaves its
\* step PENDING.
PersistOutcome(r) ==
  LET s == request[r].kind
      id == IF s = "draft" THEN request[r].key ELSE request[r].idLavorazione IN
  /\ \/ /\ request[r].at = "accepted"
        /\ save(r, CompletedOutcome(record, s, id), Idle)
     \/ /\ request[r].at = "rejected"
        /\ save(r, FailedOutcome(record, s), Idle)
  /\ UNCHANGED <<inps, lastKey>>

(***************************************************************************)
(* INPS: it replays a key it has served, cancels the draft when another    *)
(* one comes, overwrites the photo, and may reject any new request.  It    *)
(* may carry a request out long after it was sent.                         *)
(***************************************************************************)
Answered(r, answer) == request' = [request EXCEPT ![r].at = answer]

Calls(r, s) == request[r].kind = s /\ request[r].at = "calling"

CarriesOut(r, status, id) ==
  IF request[r].key \in inps.served THEN inps
  ELSE [status |-> status, idLavorazione |-> id, served |-> inps.served \cup {request[r].key}]

NuovaDomandaInBozza(r) ==
  /\ Calls(r, "draft")
  /\ request[r].key \in inps.served \/ inps.status # "ACQUIRED"
  /\ inps' = CarriesOut(r, "DRAFT", request[r].key)
  /\ Answered(r, "accepted")
  /\ UNCHANGED <<record, lastKey>>

FornisciFoto(r) ==
  /\ Calls(r, "photo")
  /\ \/ request[r].key \in inps.served
     \/ inps.idLavorazione = request[r].idLavorazione /\ inps.status \in {"DRAFT", "PHOTO_ATTACHED"}
  /\ inps' = CarriesOut(r, "PHOTO_ATTACHED", request[r].idLavorazione)
  /\ Answered(r, "accepted")
  /\ UNCHANGED <<record, lastKey>>

ConfermaDomanda(r) ==
  /\ Calls(r, "confirm")
  /\ \/ request[r].key \in inps.served
     \/ inps.idLavorazione = request[r].idLavorazione /\ inps.status = "PHOTO_ATTACHED"
  /\ inps' = CarriesOut(r, "ACQUIRED", request[r].idLavorazione)
  /\ Answered(r, "accepted")
  /\ UNCHANGED <<record, lastKey>>

InpsRejects(r) ==
  /\ \E s \in Step : Calls(r, s)
  /\ request[r].key \notin inps.served
  /\ Answered(r, "rejected")
  /\ UNCHANGED <<record, inps, lastKey>>

\* INPS issues the card or refuses it.
InpsCloses ==
  /\ inps.status = "ACQUIRED"
  /\ inps' = [inps EXCEPT !.status = "CLOSED"]
  /\ UNCHANGED <<record, request, lastKey>>

(***************************************************************************)
(* The status check.                                                       *)
(***************************************************************************)
CheckDomanda(r) ==
  /\ request[r] = Idle
  /\ request' = [request EXCEPT ![r] =
       [Idle EXCEPT !.kind = "check", !.at = "calling", !.seen = inps.status,
                    !.idLavorazione = inps.idLavorazione]]
  /\ UNCHANGED <<record, inps, lastKey>>

\* There is nothing to save when neither side knows of an application.
ReadForCheck(r) ==
  /\ Calls(r, "check")
  /\ request' = [request EXCEPT ![r] =
       IF @.seen = "NO_APPLICATION" /\ ~record.exists THEN Idle
       ELSE [@ EXCEPT !.at = "read", !.etag = EtagRead]]
  /\ UNCHANGED <<record, inps, lastKey>>

PersistReconciled(r) ==
  /\ request[r].kind = "check"
  /\ request[r].at = "read"
  /\ save(r, ReconciledRecord(Existing(r), request[r].seen, request[r].idLavorazione), Idle)
  /\ UNCHANGED <<inps, lastKey>>

(***************************************************************************)
(* Failures and expiry.                                                    *)
(***************************************************************************)
\* Cosmos or INPS fails, or refuses a stale etag; an answer is lost; the
\* process stops.
RequestFails(r) ==
  /\ request[r] # Idle
  /\ request' = [request EXCEPT ![r] = Idle]
  /\ UNCHANGED <<record, inps, lastKey>>

\* 30 days after the last write, long after the requests of that time.
RecordExpires ==
  /\ record.exists
  /\ \A r \in Requests : request[r] = Idle
  /\ record' = NoRecord
  /\ UNCHANGED <<request, inps, lastKey>>

(***************************************************************************)
(* Specification.                                                          *)
(***************************************************************************)
Init ==
  /\ record = NoRecord
  /\ request = [r \in Requests |-> Idle]
  /\ inps = [status |-> "NO_APPLICATION", idLavorazione |-> NoKey, served |-> {}]
  /\ lastKey = 0

Checks(r) == CheckDomanda(r) \/ ReadForCheck(r) \/ PersistReconciled(r)

Next ==
  \/ \E r \in Requests :
       \/ \E s \in Step, client \in Clients : ReadRecord(r, s, client)
       \/ PersistIntent(r)
       \/ NuovaDomandaInBozza(r)
       \/ FornisciFoto(r)
       \/ ConfermaDomanda(r)
       \/ InpsRejects(r)
       \/ PersistOutcome(r)
       \/ Checks(r)
       \/ RequestFails(r)
  \/ InpsCloses
  \/ RecordExpires

Spec == Init /\ [][Next]_vars

(***************************************************************************)
(* Refinement.                                                             *)
(***************************************************************************)
Attempts == INSTANCE StepAttempts
              WITH attempt <- record.steps, used <- {key \in Keys : key <= lastKey}

\* However requests, checks, lost answers and expiries meet, the steps of the
\* document go the way their contract says: a repeated attempt keeps its key, a
\* new one resets what comes after it, a completed one is not sent again, and
\* only what is under way is answered.
AttemptsAsPromised == Attempts!Spec

(***************************************************************************)
(* Properties.                                                             *)
(***************************************************************************)
\* The document, the requests, INPS and the keys have their types: a milestone
\* stored is one of the service's, never a status of INPS.
TypeOK ==
  /\ record \in Record
  /\ request \in [Requests -> Request]
  /\ inps \in Inps
  /\ lastKey \in Keys \cup {NoKey}

\* The second write of a step finds its own intent, unless the etag stops it:
\* whatever other requests, checks and expiries come between the two, an
\* outcome is never recorded on another attempt or another draft.
OutcomeMeetsIntent ==
  \A r \in Requests :
    LET q == request[r] IN
    q.kind \in Step /\ q.at \in {"calling", "accepted", "rejected"} /\ q.etag = "current" =>
      /\ record.pendingStep = q.kind
      /\ record.steps[q.kind] = Pending(q.client, q.key)
      /\ q.kind # "draft" => record.idLavorazione = q.idLavorazione

\* "idLavorazione is never invented locally": INPS has created it.
IdComesFromInps == record.idLavorazione # NoKey => record.idLavorazione \in inps.served

\* The step the record says is in flight can be retried.
PendingStepIsPending ==
  record.pendingStep # "none" => record.steps[record.pendingStep].status = "PENDING"

\* A step is answered from the record only if INPS has carried it out.
CompletedStepsReachedInps ==
  \A s \in Step : record.steps[s].status = "COMPLETED" => record.steps[s].key \in inps.served

\* A key that the record or a request in flight holds, and the attempt it is for.
InPlay(key, s, client) ==
  \/ record.steps[s].key = key /\ record.steps[s].client = client
  \/ \E r \in Requests :
       request[r].kind = s /\ request[r].key = key /\ request[r].client = client

\* INPS replays its answer to a key it has served, so a key stands for one step and
\* one attempt of the client: no race between two attempts, and no retry after a
\* failure or a check, sends INPS the key of another attempt.
KeyNamesOneIntent ==
  \A key \in Keys, s, t \in Step, c, d \in Clients \cup {NoClient} :
    InPlay(key, s, c) /\ InPlay(key, t, d) => s = t /\ c = d

Aligned ==
  IF record.exists THEN /\ record.state = Milestone[inps.status]
                        /\ inps.status \notin {"NO_APPLICATION", "CLOSED"}
                             => record.idLavorazione = inps.idLavorazione
  ELSE inps.status \in {"NO_APPLICATION", "CLOSED"}

\* INPS's answer to a check is still what INPS would say.
AnswerIsFresh(r) ==
  request[r].seen = inps.status /\ request[r].idLavorazione = inps.idLavorazione

\* A status check whose answer from INPS is still true leaves the record in
\* agreement with INPS, whatever lost answers, late calls, failed writes and
\* expiries came before it.
ChecksRealign ==
  [][\A r \in Requests : PersistReconciled(r) /\ AnswerIsFresh(r) => Aligned']_vars

\* A status check does not misalign a record that agrees with INPS.
ChecksKeepAlignment ==
  [][(\E r \in Requests : PersistReconciled(r)) /\ Aligned => Aligned']_vars
===============================================================================
