# io-growth: TLA+ models and proofs

io-growth holds the backends and frontends of the *Carta Europea della Disabilità*
(CED): a portal where operators publish opportunities and a department reviews them, a
browser where citizens search them, and a service through which a citizen applies for
the card at INPS. The models in this directory describe the parts where several actors
write the same data, in the backends and in the portal's editor: what a unit test, which
runs one use case at a time against mocked repositories, cannot show.

Every definition is translated from the source; `PROJECT.json` maps each of them to the
lines it stands for.

## 1. Inventory

| Component | State | Operations | Talks to | What is hard | What makes it correct |
|---|---|---|---|---|---|
| **Opportunity lifecycle** (`ced-portal-be`, `use-cases/opportunities`, `drizzle-opportunity.repository.ts`) | one `opportunity` row with its benefits | 8 operator and 6 department use cases, the revocation cascade | PostgreSQL, outbox, materialized view | a use case reads the row, decides, and later runs an UPDATE whose WHERE repeats only part of the decision | statuses follow the review process; a suspension always has an author who can lift it; nobody lifts the department's suspension; an edit never undoes a decision taken meanwhile |
| **Visibility and announcement** (SQL in `drizzle/recurrent`, enqueue job) | `publishing_notified_at`, `opportunity_materialized_view`, the calendar | trigger, two pg_cron jobs, the enqueue job, refresh after commit | the row, the outbox, the citizens' browser | windows open at midnight without any UPDATE; the view lags; two calendars (Rome, UTC) | one announcement per window, none lost; the view converges; schedules are applied |
| **Message outbox** (`drizzle-message-outbox.repository.ts`, send job) | `message_outbox` rows, claims | enqueue in a transaction, sweep, claim, send, record | pg-boss, the email provider | overlapping runs, crashes after the provider took the email, sends with an unknown outcome | one sender per message, bounded deliveries, settled messages stay settled, all settle |
| **Card request support record** (`ced-card-request-be`) | one Cosmos document per citizen, INPS's application | draft, photo, confirm (two writes around a call each), status check | Cosmos (etag), INPS (idempotency keys) | lost calls and answers, retries, late calls, a check that races a step | an outcome is recorded on its own intent; a check realigns the record with INPS |
| **Job scheduler, revision tracker** (`io-core-adapter-pgboss`, `io-core-adapter-revision-tracker`, `jobs-scheduler.ts`) | registered revisions, the instance's pg-boss | register, reconcile, promote, demote, stop | PostgreSQL, Azure revisions | promotion and demotion across awaits, a stale owner, a stop that races a start | a superseded revision runs out of jobs; a stopped process has no pg-boss; the latest revision gets the jobs |
| **Operator access** (`use-cases/auth`, Redis sessions, revocation) | sessions, one-time ids, tombstones, operator rows, AR onboarding | acs, authorize, revoke | Redis, AR, PostgreSQL | a login racing a revocation, a revocation failing half-way, a department that publishes what a revoked operator left behind | of a row it revoked, a revocation leaves nothing on offer from before it; nobody it put out stays in |
| **Places, profile** | `place`, `profile` rows, `opportunity_place` | create, delete, update | opportunities | "sole place" is checked before the deletion, places before the submission | links lead to places there are; a deletion strands no opportunity but one written since it looked; a submission has a place |
| **Onboarding by the department** | none of its own | complete, reject, list | AR | - | - |
| **FIMS authentication** (`io-core-adapter-fims`) | nonces, one-time ids, sessions, the audit log | initiate, callback, test session, exchange | Redis, the FIMS provider, Lollipop | keys read and deleted in two commands, a row of calls each of which may fail | no session without its audit; what was deleted is not obtained again |
| **Migrators** (`io-core-adapter-drizzle`) | migration table | versioned, recurrent migrations | PostgreSQL | two deployments | run once |
| **Portal editor** (`ced-portal-fe`, `pages/CreateBenefit`) | the form in the store, the detail in the query cache, the requests in flight | fill, type, save as draft, confirm, ask for approval | the portal's backend | two copies of one opportunity, refetches, colleagues, answers that are lost | a save replaces what its form was filled from; it does what the operator was told |
| **Environment router, adapters, shared packages, other pages** | none, or one request each | - | - | - | - |

The interactions that matter: a use case of the portal commits a row and its messages in
one transaction, then refreshes the view on a best-effort basis; the trigger on the row
clears the announcement flag which the enqueue job sets from the view; the outbox is
drained by a pg-boss job which may run on several replicas; the status check of the card
service shares the citizen's document with the three steps.

The hazards found while surveying are listed in `PROJECT.json` at the line where each
bites, with the property that covers it or the reason why none does. Several have none
because the code lets the race happen: the model then has it, and the property nearest to
it only says that there is no other way to the bad state.

## 2. Plan

1. `Opportunity` with its abstract specification `OpportunityLifecycle`, `MCOpportunity`,
   `OpportunityProof` - done.
2. `MessageOutbox`, `MCMessageOutbox`, `MessageOutboxProof` - done.
3. `SupportRecord`, `MCSupportRecord`, `SupportRecordProof` - done.
4. `JobOwnership`, `MCJobOwnership`, `JobOwnershipProof` - done. The overlaps it allows are
   the ones `MessageOutbox` already counts with (`RetriedRun`, several `Runs`).
5. `OperatorAccess`, `MCOperatorAccess`, `OperatorAccessProof` - done. Its opportunity is
   the publication status alone; what the cascade does to the row is `RevokeOperator` of
   `Opportunity`.
6. `CitizenSignIn`, `MCCitizenSignIn`, `CitizenSignInProof` - done.
7. `OpportunityEditor`, `OpportunityEditorProof` - done. Its row is the row of
   `Opportunity` seen by a client: a status, a version, a content.
8. `Places`, `MCPlaces`, `PlacesProof` - done. It opens the flag `placed` of `Opportunity`
   into links to places and keeps of the row what the checks of places read.

9. Contracts - done: `OutboxDelivery`, `StepAttempts` and `JobLease` say in a page what
   `MessageOutbox`, `SupportRecord` and `JobOwnership` promise their callers, and are
   implemented by them.
10. Composition - done: `Places` and `OpportunityEditor` each keep a small picture of the
    opportunity and of its other writers; `Opportunity` is shown to stay within both
    (`ActsAsPlacesAssume`, `ActsAsEditorAssumes`).

Left: contracts for `OperatorAccess` (what a revocation ends) and `CitizenSignIn` (one
session per signature); the publication status of `OperatorAccess` as a third composition
with `Opportunity`; a property for the photo and confirmation steps of the card and the
draft they were made for.

## 3. Modules

| Module | Models | Checked with | Proofs |
|---|---|---|---|
| `OpportunityLifecycle` | the promise: statuses, and when the benefit on offer may change | as a PROPERTY of `Opportunity` | - |
| `Opportunity` | one row and every writer of it | `MCOpportunity` | `OpportunityProof` |
| `OutboxDelivery` | the promise: the attempts at one email and how they may end | as a PROPERTY of `MessageOutbox` | - |
| `MessageOutbox` | the outbox and the send job | `MCMessageOutbox` | `MessageOutboxProof` |
| `StepAttempts` | the promise: which attempt at a step is made, repeated and answered | as a PROPERTY of `SupportRecord` | - |
| `SupportRecord` | the support record, the steps, the check, INPS | `MCSupportRecord` | `SupportRecordProof` |
| `JobLease` | the promise: the jobs are on lease to the latest revision | as a PROPERTY of `JobOwnership` | - |
| `JobOwnership` | the revision table, the scheduler of every process, pg-boss schedules | `MCJobOwnership` | `JobOwnershipProof` |
| `OperatorAccess` | sign-in of operators, their sessions and requests, revocation | `MCOperatorAccess` | `OperatorAccessProof` |
| `CitizenSignIn` | the sign-in of citizens through FIMS | `MCCitizenSignIn` | `CitizenSignInProof` |
| `Places` | the places of an operator, their deletion, the links of opportunities | `MCPlaces` | `PlacesProof` |
| `OpportunityEditor` | one tab of the portal that creates and edits an opportunity | `editor.cfg` directly | `OpportunityEditorProof` |

### Opportunity

`row` is the database row: the columns the guards read, a benefit as a model value,
`placed` for "has a place or national territory", `notified` for
`publishing_notified_at IS NOT NULL`. `hasProfile` and `revoked` stand for the operator's
profile row and status, `listed` for the view, `today` for the Rome date and `utcToday`
for the UTC date, which follows it.

A request is two actions and sometimes a third. The one named after the use case
(`OperatorUpdate`, `AdminApprove`, ...) reads the row and stores in `pending[r]` what it
will write; the one named after the repository method (`updateByIdAndOperatorId`,
`updateStatusById`, ...) is the UPDATE: `CompareAndSet` takes the WHERE clause as a guard,
applies the trigger `ResetNotified`, or ends with the conflict when no row matches. A row
that would not pass the table's CHECKs (`PassesChecks`: a suspension is scheduled only of
what is published, a republication asked for only of what is suspended) ends the request
with an error in the same way: so an edit that would send an opportunity with a scheduled
suspension to review fails, and so does its deletion.
`refreshAll(r)` is the refresh that use cases which may change visibility run after the
commit; `RequestFails` loses a request before any of its steps, which also covers a
swallowed failure of the refresh. Between two actions anything may happen.

- The update use case compares `updated_at` truncated to the millisecond with what the
  client read; the model has a flag `fresh`, which every writer of the row clears
  (`Touched`) except the announcement, which does not set `updated_at`. Two writes in
  one millisecond are not told apart by the code and are left out.
- `BindingChange` is a changed benefit; texts, categories, and how discounts and
  descriptions are compared are abstracted to it.
- Messages inserted in the transactions of submission, approval and change requests are
  `EnqueueMessage` in `MessageOutbox`.
- `operator-publish-opportunity` needs the stored status `test_passed`, which no code
  writes: the status and the use case are left out.
- A deletion is decided on the display status of the row read; its UPDATE accepts any
  stored `published`. An opportunity that was a draft, or scheduled, at the read and is
  live at the UPDATE is deleted without the suspension that the use case asks for
  (`operator-delete-opportunity.use-case.ts:43`, and its note at :54), and the model does
  the same. `DeletionsSpareTheLive` says that this window is the only way: somebody wrote
  the row since the read (`fresh`, which a deletion carries for the property alone), or a
  day began (`readOn`). It does not prevent the race.
- The opportunity is one row; use cases touch one row each, and the jobs treat rows alike.

Two components look at this row through a picture of their own, and `Opportunity` is
checked and proved to be within it. `PlacesView` instantiates `Places` without places or
deletions: `placed` is the national territory of one opportunity, each request that edits
or submits is an edit or a submission there, and every other writer has to be a
`MoveStatus` that makes both stale (`ActsAsPlacesAssume`). `EditorMove` lists the changes of
status, schedule and benefit that `Others` makes in `OpportunityEditor`, as its page tells
them apart (`Shown`), and `ActsAsEditorAssumes` adds that as long as `updated_at` has not
moved nothing else has but the date of a scheduled suspension (`SameUntilADate`). The
comparison widened both: a cancelled schedule or a republication request moves no status
and makes edits stale all the same, and a date may come between an edit's decision and its
UPDATE.

### MessageOutbox

A run of the job is a record: its phase, its message, the answer of the provider, whether
it is past `RUN_DEADLINE_MS`, and which messages were claimed since it started (the
`startedBefore` comparison of `claimNext`). `SelectRow`/`ClaimRow` are the two halves of
`claimNext` (`FOR UPDATE SKIP LOCKED`, then the UPDATE); the sweep is part of `StartRun`
because both use one `startedAt`. A `ScheduledRun` comes when earlier runs are late, a
`RetriedRun` when pg-boss lost the heartbeat of one that still works; demoted revisions
and other replicas are further `Runs`. `accepted` counts what the provider took and
`confirmed` what a run was told; neither is read by an action. Clocks of replicas are
taken as equal.

`OutboxDelivery` has neither runs, claims nor locks: a message has attempts, an attempt
calls the provider at most once, only an attempt known to be taken becomes `sent`, and
`sent` and `failed` stay. `calling` is the messages some run is still to send, `known` is
`confirmed`. A sweep gives up a set of messages at once, and the run of one of them may
still call.

`ClaimGetsStale` happens only when the runs under way at the claim are past their
deadline: `STALE_SENDING_MS` is longer than `RUN_DEADLINE_MS`. The sender itself may
still be at work then, because a send has no timeout of its own; the comment in the job,
"so consecutive runs never overlap", is therefore not quite true, and `ScheduledRun`
starts beside a run that is late and still sending. The properties hold in spite of it.

### SupportRecord

`record` is the Cosmos document, `inps` the application as INPS holds it, `lastKey` the
INPS idempotency keys generated. A request is a step (draft, photo, confirm) or a check.
`ReadRecord`, `PersistIntent` (write 1), the INPS action and `PersistOutcome` (write 2)
are the four awaits of a step; `CheckDomanda`, `ReadForCheck` and `PersistReconciled`
those of a check, in the order of the code. The etag a request holds is `current`,
`stale` or `unset`; `save` refuses a stale one and, as the repository does after a 409,
replaces the document found when the request had read none. `RequestFails` covers errors,
timeouts, lost answers, a refused save and a stopped process; INPS may still carry out a
request whose client has gone, because such a request may also stay where it is.

INPS is external. What it does is what `docs/ced-card-request/data-model.md` tabulates
and the code relies on: a key it has served is replayed, another draft key cancels the
draft, another photo key overwrites, nothing is confirmed twice, any new request may be
refused; in addition it accepts no draft while an application is being processed. It is
taken to name the draft it creates: the code would store an answer without `idLavorazione`
with a null one (`create-draft.use-case.ts:249-252`), which is left out.
`StepAttempts` is the document as a client of the service may count on it: a new intent
begins an attempt under a key never used before and resets the steps after it, the same
intent is repeated under its key until it is answered, a completed one is not sent again,
and only what is pending is answered. Two first requests of a citizen that both read no
record both begin, and the later one replaces the document. `KeyNamesOneIntent` says the
same of the requests in flight: because INPS replays its answer to a key it has served, a
key must never stand for two steps or two intents, in the record or on its way to INPS.

Payloads, `attempts`, timestamps, `lastReconciliation` and `previousIdLavorazione` are
left out.

### JobOwnership

A replica is one process of one revision. Its record is a program counter through
`start`, `reconcile`, `startAsOwner`, the demotion and `stop`, one step per await, the
state of its pg-boss instance, the calls `startAsOwner` has still to make on it, and the
jobs it has a worker for; `generation` is the table of revisions (0 for none), `schedules`
who wrote each job's cron entry last. Every call may fail (`TrackerFails`, `StartFails`), a
process may stop at any await, and `stop()` may be called at any moment. pg-boss is
external: asked to stop, it stops, gracefully or at its timeout, and until then it still
fetches jobs and takes calls. The production and the test scheduler run the same code and
one is modelled.

- The fence of a job and the start of its handler are two steps: `AnswersFence` is the
  tracker's answer that `scheduler.ts:176` waits for, `RunsHandler` the handler at :183.
  What passed in between (`passed`) starts, whatever is deployed, demoted or stopped
  meanwhile.
- `startAsOwner` unschedules, and then registers, several jobs at once. When one call fails
  `Promise.all` rejects and the others go on unawaited: `StartFails` leaves them in `calls`,
  and they may still write schedules and add workers until the instance has stopped.

Two things the model makes visible. Generations only grow and a process registers its
revision before it starts, so only the initial start promotes; a reconciliation that finds
a passive process the latest never happens. And an owner that acts on a `true` of
`isLatest` given before a newer revision registered runs the whole of `startAsOwner`: it
unschedules or overwrites the newer one's schedules, which nothing puts back before the
next start, although the comment at `scheduler.ts:48-53` says that a scheduler that does
not own "never touches the schedules". No property says otherwise; the hazard is listed
with this reason.

`JobLease` is what the tracker and all schedulers do promise together. `latest` is a set of
at most one revision, `superseded` those that had the lease, which does not come back.
`told` is the processes that were answered `true` and have not acted on it, `toWrite` the
schedules each may still write, `passed` the jobs each may still start. An answer and a
pass are given only to the revision that has the lease, and are used up later, by whoever
has the lease then: one answer lets a process write each schedule once, one pass starts one
job. `SupersededRunsOut` draws the consequence for the jobs: a superseded revision gets no
further one past the fence, and its handlers start what had got past before.

### OperatorAccess

One organization: its onboarding in Area Riservata, its operator rows, its opportunity,
its tokens, sessions and tombstones. A `Login` goes through `Verifies`,
`ChecksRevocation`, `FindsOperator`, `CreatesOperator` (`external_id` is not unique, so
two first sign-ins may both create a row), `createSession` and `createOneTimeSessionId`,
and then through its requests (`ReadsSession`, `ReadsRevocation`, the write, the end).
An administrator's revocation is `FindsCompleted`, `deleteOnboarding`,
`revokeByOperatorExternalId`, `ResolvesOperator`, `revokeById`; each call may fail and
leave the rest undone. Time is a small integer that all lifetimes are counted in; a
request is short beside a tick. The redemption of the one-time id (the same two commands
as in `CitizenSignIn`) and administrators' sessions are left out; the rejection of an
onboarding is one step.

Of the opportunities of a row the model keeps how far the furthest has come (`offer`) and
when those on offer were published, by the operator last and by the department first. The
operator submits and republishes; the department approves and republishes
(`DepartmentPublishes`). None of these looks at the operator's status, and the cascade
suspends what is published at that moment, so what was under review or suspended can go on
offer after the revocation, and what the department publishes then stays on offer.
`RevocationSuspendsAll` therefore speaks of what was published when. Of a row that has been
revoked, what the operator published itself is on offer only if a request or a sign-in was
under way when the tombstone came or went, and what the department published only if it did
so after the revocation began to bar the operator. The clock starts when Area Riservata
has decided on the onboarding, before which nothing can happen.

The property is about rows that were revoked. Two overlapping first sign-ins may create two
rows for one operator (`external_id` is not unique); the revocation then finds one of them,
and the other stays active with what it has on offer, although `openapi.yaml:2615-2620`
says that "all its published opportunities are suspended". The model has that case, and no
property excludes it: its hazard is listed with this reason.

### CitizenSignIn

`nonce`, `session` and `oneTime` are Redis keys (`none`, stored, gone), `audit` the
entries written for a sign-in. `handle-callback` is one action per call: read the nonce,
delete it, exchange the code, write the first entry, verify, write the second, store the
session, store the one-time id; the test sign-in shares the last two. An exchange of a
one-time id reads and deletes in two commands and does not look at whether the deletion
found anything. Any call may fail or be carried out with its answer lost, requests may be
repeated while others are under way, and keys expire. What OIDC and Lollipop compute is
left out: they accept or refuse.

### Places

`place` says which places there are, `opportunity` keeps of each row the status, the
national territory and the links to places. A deletion of a place is `getById`,
`checksSolePlace` and `deleteByIdAndOperatorId`, which takes the links along and leaves
`updated_at` alone; an edit is the use case and an UPDATE that compares `updated_at` and
inserts the links, under a foreign key; a submission looks at the links and then compares
the status only. `MoveStatus` stands for all other writers of the status (reviews,
suspensions, schedules, republications, deletions), which do not look at places; that
`Opportunity` has no other is `ActsAsPlacesAssume`. `changed` is history that no action reads: the
opportunities written since a request looked at them.

The look for an opportunity whose only place this is, which `openapi.yaml:565` promises to
answer with 412, is not repeated by the deletion: an opportunity that is created and
submitted, edited, or deprived of its other place in between is left without any.
`DeletionsStrandOnlyChanged` says that nothing else is.

An edit that changes the benefit of a published opportunity sends it back to review without
a submission's look at the places, so an edit may itself leave an opportunity under review
without any: the model has that edit, and the properties are about deletions and
submissions. The views that deletions and edits refresh are in `Opportunity`; a place's
contents, and the place inside an operator's profile, which cannot be deleted here
(404), are left out.

### OpportunityEditor

`row` is the opportunity as a client sees it: its display status, a version (`updatedAt`),
a content named by the version that wrote it, and the benefit, the part of the content
that needs a review. The statuses scheduled, published and suspended, which an edit treats
alike, are one; `scheduled` says that a suspension is scheduled, come or to come. `detail` and
`fetching` are the entry of RTK Query's cache, `form` the
Redux store, `page` and `hydrated` the mounted component, `saving` and `asking` the
mutations in flight. `drafts` and `sure` are history that no action reads for a decision
of the code.

The page's actions are one handler each. A click on "Salva bozza" or on the confirmation
is `Saves`: it takes the content from the form, the version from the detail, and keeps
what the operator was told. The answers (`PutSucceeds`, `PutFails`, `PostSucceeds`,
`PostFails`, `AskSucceeds`, `AskConflicts`, `AskFails`) are the remaining part of the
handler, navigation and reset included; a failing one has carried the request out or not.
`Others` are the writes of everybody else. A fetch's read and its arrival are one step;
a request whose answer is lost was carried out before or not at all; one save is in flight
per tab.

What the model shows about the code, apart from the properties:

- RTK Query invalidates a mutation's tags when it fails too. After a 409 ("È già in corso
  una modifica... Riprova più tardi") the detail is fetched again and its `updatedAt`
  becomes current, while the form, filled once, keeps what it had: the retry replaces the
  other writer's change in silence, and the promise of `openapi.yaml:622-635`, "A stale
  value yields 409", no longer protects it. Hence the word *first* in `FirstSaveSeesAll`,
  and `sure` in its premise. The same happens when the page is opened while a fetch is in
  flight, or while a suspension, its cancellation or a republication asked for on the page
  before has not been answered (`ActionEnds`).
- The form is filled only when the operator's places have arrived too. Until then, and for
  ever if that query fails, the page offers to save what another visit left in the store
  under this opportunity's id and version. `sure` leaves such saves out of
  `FirstSaveSeesAll`; nothing prevents them.
- Filling the form may change the benefit: a caregiver's benefit taken for that of the
  beneficiary is replaced by a copy of it (`checkBenefitEquality.ts`), so `Hydrates` may
  leave any benefit in the form.
- "Salva bozza" is offered on published opportunities too, and may put one under review
  while the message says that a draft was saved.
- The draft button is enabled while the approval is being asked for, and a creation whose
  answer is lost keeps the form: both make a second draft. `OneDraftPerForm`, that there
  is no third way, is proved and no run checks it.
- A conflict while asking for approval ends the visit, for a new draft as for an edit; any
  other failure leaves the page open.
- When the date of a scheduled suspension comes, or the first day of an opportunity that
  has one, the status shown changes and `updatedAt` does not (`DateArrives`). The date may
  also come between the server's decision and its UPDATE, which compares `updatedAt` only:
  an opportunity whose suspension is scheduled is then edited although such edits are
  refused, and keeps its status. A changed benefit would send it to review, which the
  table's CHECK refuses (`PassesCheck`): so what the operator was told stays true.
- The request for approval names no version: what a colleague saved between the PUT and
  it is what is submitted.

## 4. Runs

| Run | Bounds | Shows |
|---|---|---|
| `opportunity_races` | 2 requests, 2 days, 2 benefits | every pair of use cases interleaved with the cron jobs, the revocation and one midnight: every suspension can be lifted, the department's schedules stay, the row follows the abstract lifecycle and stays within what `Places` and `OpportunityEditor` count with, and a deletion spares what was live when it was decided |
| `opportunity_calendar` | 1 request, 3 days, 3 end dates, with and without a place, fair | announcement once per window and from a clean flag; the view converges; announcements and schedules happen |
| `opportunity_department` | 2 requests, 1 day | *violation*: a republication decided on the operator's suspension lifts the department's |
| `outbox` | 2 messages, 2 runs, 2 attempts, fair | one sender, the contract of one delivery, everything settles |
| `card` | 2 requests, 2 client keys, 3 INPS keys | etags keep outcomes with their intents; keys are not shared; steps go the way of their contract; a check whose answer still holds realigns the record |
| `card_false_completion` | the same | *violation*: a check completes a step INPS has not received |
| `card_stale_check` | the same | *violation*: a check undoes a newer outcome |
| `job_ownership` | an old and a new revision, a process each, a job both have and one the new adds, 2 faults, fair | what an answer of the tracker lets a process do to schedules and jobs, a superseded revision gets no further job past its fence, a stopped process is clean, the latest revision gets the jobs and the others let go |
| `access` | 2 sign-ins, 2 administrators, sessions of 2 ticks, tokens of 1, 4 ticks, 1 fault | of a revoked row nothing stays on offer from before the revocation but what was under way; tombstones outlive the sessions they stop; a revocation that failed half-way is made good by expiry |
| `sign_in` | 2 flows, 2 sign-ins, a citizen and a tester, 2 exchanges | no session without its audit entries; one-shot keys |
| `places` | 2 places, 1 opportunity, 2 deletions, 1 edit, 1 submission | a deletion strands only what was written since it looked, a submission that nobody overtook has a place |
| `editor` | 1 tab, 2 benefits, 4 versions of the row, 2 drafts of a form | first saves replace what they were filled from, saves do what was said |

Why the bounds are enough. The races of `Opportunity` are between a decision and one
other writer, and any number of further writers in between is still possible because the
second request slot is reused; the theorems remove the bound. Two days give a tomorrow to
schedule on, three give a window that opens, closes and opens again. Two attempts
distinguish the first from the last; two runs and two messages give competition for a
row and a row to skip. Three INPS keys are a whole application, or a draft and two
competing attempts at a step; the invariants of `card` were tried with one client key and
four INPS keys too, which adds a second application after the first is closed. The
number of INPS keys is the one bound that cuts behaviours (`PersistIntent`). Two faults
of `job_ownership` are a failure of the old process and one of the new. Four ticks of
`access` let a token be issued, a session be stored as late as the token allows, and both
it and a tombstone expire. Two flows, sign-ins and exchanges of `sign_in` are a pair of
competitors for one key, or two that must not touch each other; nothing counts faults.
Four versions of `editor` are a read, a foreign write, a refused save and a second
attempt that lands. One opportunity of `places` is enough because the requests that race
meet in one; two places are a last one and another, two deletions may take both. The
theorems remove these bounds and those of `sign_in`, `job_ownership`, `access`, `card` and
`outbox`. All symmetries are of requests and client keys, which no
definition tells apart; runs with liveness use none.

The counterexamples are described under `findings` in `PROJECT.json`, each with the
sentence of the repository it contradicts.

Mutants: the sections headed "Slips" and the definitions marked as slips are altered
copies of a definition of the code (a lost guard, reset or assignment). No action uses
them; each property has one that breaks it.

## 5. Fairness

`Opportunity`: weak fairness of the two pg_cron jobs, the announcement job and the two
midnights, all run by clocks. Requests have none: nobody has to send one, and one in
flight may stay there for ever.

`MessageOutbox`: weak fairness of scheduled runs, of the steps of a run that do not
compete (send, record, end, deadline, staleness), and strong fairness of `SelectRow` and
`ClaimRow`: not every run fails, or finds itself late, before its claim. A run may still
fail after any claim, which is the case the attempt counter and the sweep are for.

`JobOwnership`: weak fairness of the steps of a process that is up (the event loop goes
on, the interval fires, PostgreSQL answers or fails), of pg-boss stopping (it has a
timeout), and of a process exiting once `stop()` has returned. Nothing obliges a process
to boot, a fault to happen or `stop()` to be called; faults are bounded, or a revision
could fail to start for ever.

`OperatorAccess` needs none: its properties are bounds on a clock that cannot pass a request
by more than a tick.

`SupportRecord` has no liveness property: nothing in the service repeats a call by itself.
What it promises instead is `ChecksRealign`, about the citizen's next check. Nor have
`CitizenSignIn`, `Places` and `OpportunityEditor`: people drive them, and may always stop.

## 6. Proofs

Every invariant, action property and refinement of the passing runs is a theorem, for all
values of the constants. All proof modules follow one argument. `TypeOK` is proved with, or before, a
strengthening `IInv` of the other invariants; `IInv` follows from `Init`, is preserved by
every action (one lemma per group of actions, one step per action), and gives the
invariants and, with the step, the action properties. TLC checked each `IInv` first, as
an invariant of the run.

**`OpportunityProof`** (any number of requests, days and benefits; assumptions
`CalendarAssumption` and `InputsAssumption`). `SuspensionsCanBeLifted` (with its
parts `SuspensionHasAuthor`, `NoScheduleOnceSuspended`, `RequestIsAnswerable`) and
`ReviewedWithProfile`, together `SoundRow`, are not inductive: an edit writes the status that it computed from the row it
read, and a submission trusts the profile it saw. `DecisionsHold` says what such a
decision still has in common with the row as long as its UPDATE can land (an edit only
while `fresh`), so `IInv` is `TypeOK /\ SoundRow(row) /\ NotifiedWindowEntered /\
DecisionsHold`. The lemma `CommitEffect` shows once for all UPDATEs that they miss or
land, keep the row sound and move it along the lifecycle; the theorems
`ImplementsLifecycle`, `DepartmentScheduleStays` and `EditsKeepStatus` are read off it.
`WindowsEnterUnannounced` and `WindowsAnnouncedOnce` rest on `NotifiedWindowEntered` and
on what the trigger does; `LiveAreSpared` on the part of `DecisionsHold` about deletions: a
deletion nobody overtook since this morning is of something citizens do not see.

The two compositions map every step. For `ImplementsPlaces` the row and the requests are
seen through `AsOpportunity`, `AsEdit` and `AsSubmission`; a decision is a decision there, a
commit is that of an edit, that of a submission or a `MoveStatus` (`CommitSeen`), and what
makes an edit stale here does there (`TouchedSeen`). `ActsAsEditorCounts` reads the move off
`StepEffect`, whatever the calendar does to the status shown (`ShownOf`), and shows that a
step after which an edit is still fresh leaves the benefit alone, and the status but for a
scheduled suspension whose date comes
(`FreshSeesStatus`).

**`MessageOutboxProof`** (any number of messages, runs and attempts; assumption
`OutboxAssumption`). `OneRunPerMessage` is not inductive: a run that holds a message
works without a lock, and what keeps the others away is that its row is no longer
pending. `IInv` adds that locks are exclusive and their rows still claimable
(`LocksAreExclusive`), that a row being sent has been claimed (`HeldIsClaimed`), that a
run which has not sent yet has an attempt unused (`AttemptsCount`), and that after a
confirmation only the run that was told is still at work (`ConfirmedOnce`).
`ImplementsDelivery` maps a claim to an attempt, a send to a call, a record to an outcome, a
sweep to giving up a set, and the end of a run to abandoning what it was still to send, or
to nothing. It needs that a run which records "sent" was told so (`ToldIsConfirmed`), which
also gives that what is recorded as sent was delivered (`SentWasDelivered`).

**`SupportRecordProof`** (any number of requests, client keys and INPS keys; assumptions
`ClientsAssumption`, `KeysAssumption`). `OutcomeMeetsIntent` speaks of the requests that
call INPS; `Fits` extends it to what a request knows at every await, as long as its etag
is current, and `DocumentFits` says of the document alone that its pending step is
pending and that it names only applications INPS has created. `Realigned` needs of a
check's answer only that it still holds. `KeysAreNotShared` needs its own strengthening,
`KeysFit`: a key of the record or of a request was generated before (it is at most
`lastKey`), so that the next one generated is nobody's; what is saved takes keys over only
with the intents they belong to (`Inherits`).
`ImplementsAttempts` rests on `IInv` and `AttemptsFit`: a request whose etag is current does
not mean to repeat what is completed, so that its first save begins or repeats an attempt;
its second answers one; and a check answers what is pending, leaves it, or forgets all.

**`JobOwnershipProof`** (any replicas, revisions, jobs and faults; assumptions
`RevisionAssumption`, `RegisteredAssumption`, `FaultsAssumption`). `StopLeavesNoPgBoss`
needs that once a process is told to stop no await of its start can open pg-boss again
(`StoppingIsFinal`). `CallsFit` adds what the calls of a start, awaited or left behind, have
in common with the jobs of its revision: what is to be unscheduled is none of them, what is
to be scheduled is one. `NeverLatestAgain` rests on registration leaving existing
generations alone. `ImplementsLease` reuses `IInv` with `Numbered`, no revision has a later
number than the last one given: a registration is a `Deploys` or changes nothing
(`RegistrationDeploys`), an answer of the tracker tells who asked only if its revision has
the lease then (`AnswerTells`), a promotion uses the answer up (`ReconciliationTakesOver`),
each call on a schedule uses up what `toWrite` allows (`ScheduleWrites`), the fence passes a
job on the lease (`FencePasses`), a handler uses the pass up, and failures, crashes,
demotions and shutdowns add nothing to what a process may do (`OthersLetGo`). `RunsOut`
reads `SupersededRunsOut` off the fence.

**`CitizenSignInProof`** (any flows, sign-ins and exchanges). `SessionsAreAudited` is the
end of a chain: `AuditFollowsSteps` says which entries a sign-in has written at each step,
`KeysFollowSteps` which keys it may have stored. `OneShot` needs that a key whose deletion
was confirmed is gone and is never written again (`DeletedIsGone`).

**`OpportunityEditorProof`** (any benefits, writes and drafts; assumption
`EditorAssumption`). The properties speak of a save when it lands. The invariant says what
the detail (`DetailIsOld`), the form (`FormIsOfDetail`) and the save in flight
(`SaveFitsRow`) have in common with the row as long as their version is that of the row,
and that a form still `sure` has become no draft (`NoDraftYet`), together `CopiesFit`: equal
versions are equal contents, except for the status, which follows the calendar when a
suspension is scheduled (`StillHas`). That takes one fact about the row alone, `RowFits`: a
suspension is scheduled only of what is on offer. Every other write moves the version on
(`WritesOutdate`).

**`OperatorAccessProof`** (any sign-ins, revocations, failures, lifetimes and length of the
clock; assumptions `NoRowAssumption`, `BoundsAssumption` and `TtlAssumption`: a token of
Area Riservata lives shorter than a session, or it would pass the check of a tombstone that
has expired). The properties are about what slips past a revocation, and all that bounds it
is time: nothing under way lasts more than a tick. The invariant orders the clock readings:
the deletion of the onboarding, the beginning of every revocation before it, the tombstone
after it and beyond any session stored before it (`TombstoneOutlives`,
`RevocationsAreShort`); a sign-in's token, check and session (`SignInIsShort`,
`SessionEnds`); a request between its session and the tombstone (`RequestsAreShort`); a
publication of the operator after these (`PublishedInTime`). `ClearedOnce` says of each
revoked row, the department's publications included, that the cascade has left nothing from
before the tombstone. A second revocation sets the
tombstone again, and is harmless because it too began before the deletion (`BarsStep`).

**`PlacesProof`** (any places, opportunities and requests; assumption `NoneAssumption`).
`DeletionsStrandOnlyChanged` and `SubmissionsArePlaced` speak of a request when it writes;
`ChecksHold` and `LooksHold` say what a deletion and a submission under way still know of
every opportunity nobody wrote since they looked. `LinksExist` is inductive: what an edit
means to link to is compared with the places again by its UPDATE.

Only model-checked: the liveness properties (`ViewConverges`, `EventuallyAnnounced`,
`ScheduleApplied`, `EveryMessageSettles`, `SupersededLetsGo`, `LatestTakesOver`), which
need fairness and ENABLED and are out of the prover's reach.

Proved, and no longer checked by a run of their own because the runs check more telling
properties of the same variables: `ReviewedWithProfile`, `NotifiedWindowEntered`,
`DecisionsHold`, `EditKeepsStatus`, `PendingCanBeClaimed`, `DeliveriesWithinAttempts`,
`ConfirmedIsNotRetried`, `SentIsDelivered`, `SettledForGood`, `IdComesFromInps`,
`PendingStepIsPending`, `SupersededForGood`, `LinksExist`, `OneDraftPerForm`.

The contracts contain no liveness; that a message settles, or that the latest revision
gets its lease, is checked on the detailed modules.

## 7. Not modelled

Reads (lists, details, draft recovery, the citizens' browser) change no state. Adapters
of external services, the environment router, tracing, HTTP glue and templates hold no
state of their own; what callers do with their failures is modelled where the callers
are. The migrators run once per deployment, which serialises them.

The other frontends. The pages of the portal apart from the editor send one request per
click, which the backends' models take in any order. What was seen while reading them and
no model covers: lists never receive `republishMessage` although `openapi.yaml` documents
it, and go on offering "Ripubblica" while a request is pending; the detail offers to
cancel a schedule of the department that is due; a republication is offered past the end
date and refused. The citizens' card application generates a new `Idempotency-Key` for
every click, "Riprova" included, whereas `docs/ced-card-request/data-model.md` and the
service's `openapi.yaml` (215-222, 275, 329) expect a retry to carry the same one; the
service then sees a new intent, which `SupportRecord` models.

The map covers a small share of the repository's lines, and more models of the same kind
would not change that: of some 57 000 lines most are React pages, themes and translations,
request formatting, generated clients, schemas and e-mail templates, which hold no state
that two actors share. The share within the use cases, repositories, jobs and
authentication, where the state is, is large.

Postgres is taken to run a single UPDATE, or a transaction, atomically at READ COMMITTED,
re-evaluating WHERE on the row it locks, Cosmos to honour `If-Match`, and Redis to run one
command atomically.
