----------------------------- MODULE OperatorAccess -----------------------------
(***************************************************************************)
(* How an operator of ced-portal-be gets in and is put out: the sign-in    *)
(* with a token of Area Riservata, the sessions in Redis, the requests     *)
(* they authorise, and the revocation of the contract by the department.   *)
(*                                                                         *)
(* A sign-in, a request and a revocation are rows of awaited calls to Area *)
(* Riservata, Redis and Postgres that no lock and no transaction spans:    *)
(* sign-ins, requests and revocations interleave between any two of them,  *)
(* and each can fail after any of them.                                    *)
(*                                                                         *)
(* One organization is modelled.  A tick of the clock is long compared     *)
(* with a request: whatever is under way ends in this tick or in the next. *)
(***************************************************************************)
EXTENDS Naturals

CONSTANTS
  Logins,      \* the sign-ins; the operator row one creates bears its name
  Admins,      \* those who revoke the contract
  NoRow,       \* no operator row
  SessionTtl,  \* SESSION_TTL_SECONDS, in ticks
  TokenTtl,    \* the life of a token of Area Riservata, in ticks
  MaxTime,     \* bound: the clock
  MaxFaults    \* bound: failures

ASSUME NoRowAssumption == NoRow \notin Logins
\* A token that lived as long as a session would pass the check of a tombstone
\* that has expired.
ASSUME TtlAssumption ==
  SessionTtl \in Nat /\ TokenTtl \in Nat \ {0} /\ TokenTtl < SessionTtl
ASSUME BoundsAssumption == MaxTime \in Nat \ {0} /\ MaxFaults \in Nat

VARIABLES
  now,         \* the clock, from 1 on
  onboarding,  \* the status in Area Riservata
  deletedAt,   \* when the onboarding was deleted, 0 if it was not
  tombstone,   \* when the key revoked-operator expires, 0 if it was never set
  revokedAt,   \* when that key was first set, 0 if it was not
  row,         \* the status of each operator row
  offer,       \* how far an opportunity of each row has come
  published,   \* the operator's last and the department's first publication of
               \* those on offer of each row, 0 if there is none
  login,       \* the state of each sign-in
  request,     \* the state of the request made with its session
  revocation,  \* the state of each revocation
  faults       \* the failures so far

department == <<onboarding, deletedAt, tombstone, revokedAt, revocation>>
operator == <<row, offer, published, login, request>>
vars == <<now, department, operator, faults>>

Time == 0..(MaxTime + SessionTtl)

Rows == Logins \cup {NoRow}

(***************************************************************************)
(* A sign-in: how far it is, since when, the time of the tombstone check,  *)
(* the row found or created, and when its session expires.  begun is 0     *)
(* when nothing is under way.                                              *)
(***************************************************************************)
Login == [step : {"no", "verified", "checked", "found", "stored", "in", "failed"},
          begun : Time, checked : Time, row : Rows, expires : Time]

Request == [step : {"no", "read", "authorised"}, begun : Time]

Revocation == [step : {"no", "found", "deleted", "barred", "resolved", "done", "failed"},
               begun : Time, row : Rows]

Publications == [operator : Time, department : Time]
NeverPublished == [operator |-> 0, department |-> 0]

ExistingRows == {l \in Logins : row[l] # "none"}

Revoked == now < tombstone

SignIn(l, state) == login' = [login EXCEPT ![l] = state]
Revoke(a, state) == revocation' = [revocation EXCEPT ![a] = state]
EndsAs(a, end) == Revoke(a, [step |-> end, begun |-> 0, row |-> NoRow])

Failed(state) == [state EXCEPT !.step = "failed", !.begun = 0, !.checked = 0]

NoRequest == [step |-> "no", begun |-> 0]

Fault == /\ faults < MaxFaults
         /\ faults' = faults + 1

(***************************************************************************)
(* Area Riservata: it onboards the organization, and issues a token to its *)
(* users only while the onboarding is completed.                           *)
(***************************************************************************)
CompletesOnboarding ==
  /\ onboarding = "PENDING_IN_REVIEW"
  /\ onboarding' = "COMPLETED"
  /\ UNCHANGED <<now, deletedAt, tombstone, revokedAt, revocation, operator, faults>>

RejectsOnboarding ==
  /\ onboarding = "PENDING_IN_REVIEW"
  /\ onboarding' = "REJECTED"
  /\ UNCHANGED <<now, deletedAt, tombstone, revokedAt, revocation, operator, faults>>

HasToken == onboarding = "COMPLETED" \/ (onboarding = "DELETED" /\ now < deletedAt + TokenTtl)

(***************************************************************************)
(* The sign-in: verifyToken, existsRevocationByOperatorExternalId,         *)
(* getByExternalId, create, createSession, createOneTimeSessionId.         *)
(***************************************************************************)
Verifies(l) ==
  /\ login[l].step = "no"
  /\ HasToken
  /\ SignIn(l, [login[l] EXCEPT !.step = "verified", !.begun = now])
  /\ UNCHANGED <<now, department, row, offer, published, request, faults>>

ChecksRevocation(l) ==
  /\ login[l].step = "verified"
  /\ SignIn(l, IF Revoked THEN Failed(login[l])
               ELSE [login[l] EXCEPT !.step = "checked", !.checked = now])
  /\ UNCHANGED <<now, department, row, offer, published, request, faults>>

\* LIMIT 1, and no order: any row of the organization is the one.
FindsOperator(l) ==
  /\ login[l].step = "checked"
  /\ \E o \in Rows :
       /\ IF ExistingRows = {} THEN o = NoRow ELSE o \in ExistingRows
       /\ SignIn(l, [login[l] EXCEPT !.step = "found", !.row = o])
  /\ UNCHANGED <<now, department, row, offer, published, request, faults>>

\* external_id is not unique.
CreatesOperator(l) ==
  /\ login[l].step = "found"
  /\ login[l].row = NoRow
  /\ row' = [row EXCEPT ![l] = "active"]
  /\ SignIn(l, [login[l] EXCEPT !.row = l])
  /\ UNCHANGED <<now, department, offer, published, request, faults>>

\* A slip: a lifetime in milliseconds.
createLongSession(l) ==
  /\ login[l].step = "found"
  /\ login[l].row # NoRow
  /\ SignIn(l, [login[l] EXCEPT !.step = "stored", !.expires = now + 1000 * SessionTtl])
  /\ UNCHANGED <<now, department, row, offer, published, request, faults>>

createSession(l) ==
  /\ login[l].step = "found"
  /\ login[l].row # NoRow
  /\ SignIn(l, [login[l] EXCEPT !.step = "stored", !.expires = now + SessionTtl])
  /\ UNCHANGED <<now, department, row, offer, published, request, faults>>

createOneTimeSessionId(l) ==
  /\ login[l].step = "stored"
  /\ SignIn(l, [login[l] EXCEPT !.step = "in", !.begun = 0])
  /\ UNCHANGED <<now, department, row, offer, published, request, faults>>

SigningIn(l) == login[l].step \in {"verified", "checked", "found", "stored"}

LoginFails(l) ==
  /\ SigningIn(l)
  /\ Fault
  /\ SignIn(l, Failed(login[l]))
  /\ UNCHANGED <<now, department, row, offer, published, request>>

(***************************************************************************)
(* A request of the operator: getSession reads the session, then the       *)
(* tombstone; the use case then submits an opportunity to the department,  *)
(* or puts one that it had approved back on offer.                         *)
(***************************************************************************)
ReadsSession(l) ==
  /\ login[l].step = "in"
  /\ now < login[l].expires
  /\ request[l].step = "no"
  /\ request' = [request EXCEPT ![l] = [step |-> "read", begun |-> now]]
  /\ UNCHANGED <<now, department, row, offer, published, login, faults>>

ReadsRevocation(l) ==
  /\ request[l].step = "read"
  /\ request' = [request EXCEPT ![l] = IF Revoked THEN NoRequest
                                       ELSE [@ EXCEPT !.step = "authorised"]]
  /\ UNCHANGED <<now, department, row, offer, published, login, faults>>

Submits(l) ==
  /\ request[l].step = "authorised"
  /\ offer[login[l].row] = "none"
  /\ offer' = [offer EXCEPT ![login[l].row] = "submitted"]
  /\ request' = [request EXCEPT ![l] = NoRequest]
  /\ UNCHANGED <<now, department, row, published, login, faults>>

Publishes(l) ==
  /\ request[l].step = "authorised"
  /\ offer[login[l].row] = "approved"
  /\ published' = [published EXCEPT ![login[l].row].operator = now]
  /\ request' = [request EXCEPT ![l] = NoRequest]
  /\ UNCHANGED <<now, department, row, offer, login, faults>>

RequestEnds(l) ==
  /\ request[l].step # "no"
  /\ request' = [request EXCEPT ![l] = NoRequest]
  /\ UNCHANGED <<now, department, row, offer, published, login, faults>>

(***************************************************************************)
(* The department approves or republishes an opportunity.  Neither it nor  *)
(* an authorised request looks at the operator's status.                   *)
(***************************************************************************)
DepartmentPublishes(o) ==
  /\ offer[o] # "none"
  /\ offer' = [offer EXCEPT ![o] = "approved"]
  /\ published' = [published EXCEPT ![o].department = IF @ = 0 THEN now ELSE @]
  /\ UNCHANGED <<now, department, row, login, request, faults>>

(***************************************************************************)
(* The revocation: getById, deleteOnboarding, revokeByOperatorExternalId,  *)
(* getByExternalId, revokeById.                                            *)
(***************************************************************************)
FindsCompleted(a) ==
  /\ revocation[a].step = "no"
  /\ onboarding = "COMPLETED"
  /\ Revoke(a, [revocation[a] EXCEPT !.step = "found", !.begun = now])
  /\ UNCHANGED <<now, onboarding, deletedAt, tombstone, revokedAt, operator, faults>>

deleteOnboarding(a) ==
  /\ revocation[a].step = "found"
  /\ onboarding' = "DELETED"
  /\ deletedAt' = IF onboarding = "DELETED" THEN deletedAt ELSE now
  /\ Revoke(a, [revocation[a] EXCEPT !.step = "deleted"])
  /\ UNCHANGED <<now, tombstone, revokedAt, operator, faults>>

\* A slip: the tombstone does not live as long as a session.
revokeBriefly(a) ==
  /\ revocation[a].step = "deleted"
  /\ tombstone' = now + 1
  /\ revokedAt' = IF revokedAt = 0 THEN now ELSE revokedAt
  /\ Revoke(a, [revocation[a] EXCEPT !.step = "barred"])
  /\ UNCHANGED <<now, onboarding, deletedAt, operator, faults>>

revokeByOperatorExternalId(a) ==
  /\ revocation[a].step = "deleted"
  /\ tombstone' = now + SessionTtl
  /\ revokedAt' = IF revokedAt = 0 THEN now ELSE revokedAt
  /\ Revoke(a, [revocation[a] EXCEPT !.step = "barred"])
  /\ UNCHANGED <<now, onboarding, deletedAt, operator, faults>>

\* There may be no row yet: the revocation is then complete.
ResolvesOperator(a) ==
  /\ revocation[a].step = "barred"
  /\ \E o \in Rows :
       /\ IF ExistingRows = {} THEN o = NoRow ELSE o \in ExistingRows
       /\ IF o = NoRow THEN EndsAs(a, "done")
          ELSE Revoke(a, [revocation[a] EXCEPT !.step = "resolved", !.row = o])
  /\ UNCHANGED <<now, onboarding, deletedAt, tombstone, revokedAt, operator, faults>>

\* A slip: the cascade is forgotten.
revokeRowOnly(a) ==
  /\ revocation[a].step = "resolved"
  /\ LET o == revocation[a].row IN
     /\ row' = [row EXCEPT ![o] = "revoked"]
     /\ EndsAs(a, IF row[o] = "active" THEN "done" ELSE "failed")
  /\ UNCHANGED <<now, onboarding, deletedAt, tombstone, revokedAt, offer, published, login,
                 request, faults>>

\* One transaction: the row, if it is not revoked yet, and its published
\* opportunities.
revokeById(a) ==
  /\ revocation[a].step = "resolved"
  /\ LET o == revocation[a].row IN
     \/ /\ row[o] = "active"
        /\ row' = [row EXCEPT ![o] = "revoked"]
        /\ published' = [published EXCEPT ![o] = NeverPublished]
        /\ EndsAs(a, "done")
     \/ /\ row[o] = "revoked"
        /\ EndsAs(a, "failed")
        /\ UNCHANGED <<row, published>>
  /\ UNCHANGED <<now, onboarding, deletedAt, tombstone, revokedAt, offer, login, request, faults>>

Revoking(a) == revocation[a].step \in {"found", "deleted", "barred", "resolved"}

\* It cannot be tried again: the onboarding is no longer completed.
RevocationFails(a) ==
  /\ Revoking(a)
  /\ Fault
  /\ EndsAs(a, "failed")
  /\ UNCHANGED <<now, onboarding, deletedAt, tombstone, revokedAt, operator>>

(***************************************************************************)
(* The clock: what began before this tick has ended.  Nothing happens      *)
(* before Area Riservata has decided, so that is when the clock starts.    *)
(***************************************************************************)
Tick ==
  /\ now < MaxTime
  /\ onboarding # "PENDING_IN_REVIEW"
  /\ \A l \in Logins : SigningIn(l) => login[l].begun = now
  /\ \A l \in Logins : request[l].step # "no" => request[l].begun = now
  /\ \A a \in Admins : Revoking(a) => revocation[a].begun = now
  /\ now' = now + 1
  /\ UNCHANGED <<department, operator, faults>>

Init ==
  /\ now = 1
  /\ onboarding = "PENDING_IN_REVIEW"
  /\ deletedAt = 0 /\ tombstone = 0 /\ revokedAt = 0
  /\ row = [l \in Logins |-> "none"]
  /\ offer = [l \in Logins |-> "none"]
  /\ published = [l \in Logins |-> NeverPublished]
  /\ login = [l \in Logins |-> [step |-> "no", begun |-> 0, checked |-> 0, row |-> NoRow,
                                expires |-> 0]]
  /\ request = [l \in Logins |-> NoRequest]
  /\ revocation = [a \in Admins |-> [step |-> "no", begun |-> 0, row |-> NoRow]]
  /\ faults = 0

Next ==
  \/ CompletesOnboarding \/ RejectsOnboarding
  \/ \E l \in Logins :
       \/ Verifies(l) \/ ChecksRevocation(l) \/ FindsOperator(l) \/ CreatesOperator(l)
       \/ createSession(l) \/ createOneTimeSessionId(l) \/ LoginFails(l)
       \/ ReadsSession(l) \/ ReadsRevocation(l) \/ Submits(l) \/ Publishes(l) \/ RequestEnds(l)
  \/ \E o \in Logins : DepartmentPublishes(o)
  \/ \E a \in Admins :
       \/ FindsCompleted(a) \/ deleteOnboarding(a) \/ revokeByOperatorExternalId(a)
       \/ ResolvesOperator(a) \/ revokeById(a) \/ RevocationFails(a)
  \/ Tick

Spec == Init /\ [][Next]_vars

(***************************************************************************)
(* Properties.                                                             *)
(***************************************************************************)
\* Every part of the state has its type.
TypeOK ==
  /\ now \in 1..MaxTime
  /\ onboarding \in {"PENDING_IN_REVIEW", "COMPLETED", "REJECTED", "DELETED"}
  /\ deletedAt \in Time /\ tombstone \in Time /\ revokedAt \in Time
  /\ row \in [Logins -> {"none", "active", "revoked"}]
  /\ offer \in [Logins -> {"none", "submitted", "approved"}]
  /\ published \in [Logins -> Publications]
  /\ login \in [Logins -> Login]
  /\ request \in [Logins -> Request]
  /\ revocation \in [Admins -> Revocation]
  /\ faults \in 0..MaxFaults

\* The tombstone is to "outlive any session the revocation has to cover": the
\* sessions of the operator are dead for good, also once it has expired.  A
\* request authorised later comes from a sign-in that passed the tombstone check
\* by the revocation and did not store its session before it.
RevokedSessionsStayDead ==
  [][\A l \in Logins :
       /\ revokedAt # 0
       /\ request[l].step = "read" /\ request'[l].step = "authorised"
       => /\ login[l].checked <= revokedAt
          /\ revokedAt + SessionTtl <= login[l].expires]_vars

\* "all its published opportunities are suspended": what the operator published of
\* a row that the department has revoked stays on offer only if a request or a
\* sign-in was under way when the tombstone came or went; and nothing that the
\* department published before stays, only what it publishes again itself.
RevocationSuspendsAll ==
  \A o \in Logins : row[o] = "revoked" =>
    /\ published[o].operator # 0 =>
         \/ published[o].operator \in {revokedAt, revokedAt + 1}
         \/ published[o].operator \in tombstone..(revokedAt + SessionTtl + 1)
    /\ published[o].department # 0 => revokedAt <= published[o].department

\* A contract deleted in Area Riservata puts the operator out in the end even if
\* the revocation failed right after, and can never be completed: no session is
\* left when the last token, sign-in and session have run out.
OutInTheEnd ==
  \A l \in Logins :
    /\ deletedAt # 0
    /\ deletedAt + TokenTtl + SessionTtl <= now
    => login[l].expires <= now
===============================================================================
