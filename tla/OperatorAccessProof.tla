-------------------------- MODULE OperatorAccessProof --------------------------
(***************************************************************************)
(* Proofs about OperatorAccess, for any number of sign-ins, revocations    *)
(* and failures, and any lifetimes.                                        *)
(*                                                                         *)
(* What bounds the damage of a race is time: nothing under way lasts more  *)
(* than a tick.  The invariant says how the clock readings that sign-ins,  *)
(* sessions, requests and revocations hold are ordered.                    *)
(***************************************************************************)
EXTENDS OperatorAccess, TLAPS

(***************************************************************************)
(* The inductive invariant.                                                *)
(***************************************************************************)
\* The clock has passed everything that has happened.
HappenedBefore ==
  /\ deletedAt <= now
  /\ revokedAt <= now
  /\ \A o \in Logins : published[o].operator <= now

\* The tombstone comes after the deletion of the onboarding, and outlives a
\* session stored before it.
TombstoneOutlives ==
  /\ onboarding = "DELETED" <=> deletedAt # 0
  /\ revokedAt # 0 =>
       /\ deletedAt # 0 /\ deletedAt <= revokedAt
       /\ revokedAt + SessionTtl <= tombstone

\* A revocation began before the deletion, and is short.
RevocationIsShort(r) ==
  /\ r.step \in {"found", "deleted", "barred", "resolved"} =>
       /\ r.begun <= now
       /\ now <= r.begun + 1
       /\ deletedAt # 0 => r.begun <= deletedAt
  /\ r.step = "deleted" => deletedAt # 0
  /\ r.step \in {"barred", "resolved", "done"} => revokedAt # 0
  /\ r.step = "resolved" => r.row \in ExistingRows

RevocationsAreShort == \A a \in Admins : RevocationIsShort(revocation[a])

\* A sign-in is short.  Its token was issued before the deletion or runs out soon
\* after it, and is checked before the tombstone comes, if it ever does.
SignInIsShort(s) ==
  /\ s.step \in {"verified", "checked", "found", "stored"} =>
       /\ s.begun <= now
       /\ now <= s.begun + 1
       /\ deletedAt # 0 => s.begun <= deletedAt \/ s.begun < deletedAt + TokenTtl
  /\ s.step \in {"checked", "found", "stored"} => s.begun <= s.checked
  /\ s.checked <= now
  /\ revokedAt # 0 => s.checked <= revokedAt

\* A session ends within its lifetime after any of these.
SessionEnds(s) ==
  /\ s.expires <= now + SessionTtl
  /\ deletedAt # 0 => s.expires <= deletedAt + TokenTtl + SessionTtl
  /\ revokedAt # 0 => s.expires <= revokedAt + SessionTtl + 1

\* A session is of a row that exists.
RowExists(s, rows) ==
  /\ s.step = "found" => s.row \in rows \cup {NoRow}
  /\ s.step \in {"stored", "in"} => s.row \in rows

SignInsAreSound ==
  \A l \in Logins :
    SignInIsShort(login[l]) /\ SessionEnds(login[l]) /\ RowExists(login[l], ExistingRows)

\* A request is short, and began with a session alive; authorised, it either
\* began before the tombstone came or has seen it gone.
RequestIsShort(l, q) ==
  q.step # "no" =>
    /\ login[l].step = "in"
    /\ q.begun <= now
    /\ now <= q.begun + 1
    /\ q.begun < login[l].expires
    /\ q.step = "authorised" /\ revokedAt # 0 => q.begun <= revokedAt \/ tombstone <= now

RequestsAreShort == \A l \in Logins : RequestIsShort(l, request[l])

\* What the operator publishes after the tombstone comes was under way when it came,
\* or was authorised when it had gone.
PublishedInTime ==
  revokedAt # 0 =>
    \A o \in Logins :
      \/ published[o].operator <= revokedAt + 1
      \/ tombstone <= published[o].operator /\ published[o].operator <= revokedAt + SessionTtl + 1

\* A revoked row keeps nothing on offer from before the revocation.
ClearedOnce ==
  \A o \in Logins : row[o] = "revoked" =>
    /\ revokedAt # 0
    /\ published[o].operator # 0 => revokedAt <= published[o].operator
    /\ published[o].department # 0 => revokedAt <= published[o].department

IInv ==
  /\ TypeOK
  /\ HappenedBefore
  /\ TombstoneOutlives
  /\ RevocationsAreShort
  /\ SignInsAreSound
  /\ RequestsAreShort
  /\ PublishedInTime
  /\ ClearedOnce

(***************************************************************************)
(* The steps.                                                              *)
(***************************************************************************)
\* A sign-in that becomes another state leaves the others as they are.
LEMMA SignInBecomes ==
  ASSUME TypeOK, NEW l \in Logins, NEW state \in Login, SignIn(l, state)
  PROVE  /\ login' \in [Logins -> Login]
         /\ login'[l] = state
         /\ \A k \in Logins \ {l} : login'[k] = login[k]
BY DEF TypeOK, SignIn

\* So does a revocation.
LEMMA RevocationBecomes ==
  ASSUME TypeOK, NEW a \in Admins, NEW state \in Revocation, Revoke(a, state)
  PROVE  /\ revocation' \in [Admins -> Revocation]
         /\ revocation'[a] = state
         /\ \A b \in Admins \ {a} : revocation'[b] = revocation[b]
BY DEF TypeOK, Revoke

\* Clock readings are natural numbers.
LEMMA Readings ==
  ASSUME TypeOK
  PROVE  /\ now \in Nat /\ now # 0 /\ deletedAt \in Nat /\ tombstone \in Nat /\ revokedAt \in Nat
         /\ SessionTtl \in Nat /\ TokenTtl \in Nat /\ TokenTtl # 0 /\ TokenTtl < SessionTtl
         /\ 0 \in Time /\ now \in Time /\ now + SessionTtl \in Time
         /\ \A o \in Logins : /\ published[o] \in Publications
                              /\ published[o].operator \in Nat /\ published[o].department \in Nat
         /\ \A l \in Logins : login[l] \in Login /\ request[l] \in Request
         /\ \A l \in Logins : /\ login[l].begun \in Nat /\ login[l].checked \in Nat
                              /\ login[l].expires \in Nat /\ request[l].begun \in Nat
         /\ \A a \in Admins : revocation[a] \in Revocation /\ revocation[a].begun \in Nat
BY TtlAssumption, BoundsAssumption
DEF TypeOK, Time, Login, Request, Revocation, Publications

\* A step of a sign-in, which may create a row.
LEMMA SignInStep ==
  ASSUME IInv, NEW l \in Logins, NEW state \in Login, SignIn(l, state),
         login[l].step # "in",
         SignInIsShort(state), SessionEnds(state), RowExists(state, ExistingRows'),
         row' \in [Logins -> {"none", "active", "revoked"}],
         \A o \in Logins : /\ row[o] # "none" => row'[o] # "none"
                           /\ row'[o] = "revoked" => row[o] = "revoked",
         faults' \in 0..MaxFaults,
         UNCHANGED <<now, onboarding, deletedAt, tombstone, revokedAt, revocation, offer, published,
                     request>>
  PROVE  IInv'
<1>1. /\ login' \in [Logins -> Login]
      /\ login'[l] = state
      /\ \A k \in Logins \ {l} : login'[k] = login[k]
  BY SignInBecomes DEF IInv
<1>2. TypeOK'
  BY <1>1 DEF IInv, TypeOK
<1>3. ExistingRows \subseteq ExistingRows'
  BY DEF ExistingRows
<1>4. SignInsAreSound'
  <2> SUFFICES ASSUME NEW k \in Logins
               PROVE  /\ SignInIsShort(login[k])' /\ SessionEnds(login[k])'
                      /\ RowExists(login[k], ExistingRows)'
    BY DEF SignInsAreSound
  <2>1. CASE k = l
    BY <1>1, <2>1 DEF SignInIsShort, SessionEnds, RowExists
  <2>2. CASE k # l
    BY <1>1, <1>3, <2>2 DEF IInv, SignInsAreSound, SignInIsShort, SessionEnds, RowExists
  <2> QED BY <2>1, <2>2
<1>5. RequestsAreShort'
  BY <1>1 DEF IInv, RequestsAreShort, RequestIsShort
<1>6. HappenedBefore' /\ TombstoneOutlives' /\ PublishedInTime'
  BY DEF IInv, HappenedBefore, TombstoneOutlives, PublishedInTime
<1>7. RevocationsAreShort'
  BY <1>3 DEF IInv, RevocationsAreShort, RevocationIsShort
<1>8. ClearedOnce'
  BY DEF IInv, ClearedOnce
<1> QED BY <1>2, <1>4, <1>5, <1>6, <1>7, <1>8 DEF IInv

\* The steps of a sign-in that leave the rows alone.
LEMMA LoginStep ==
  ASSUME IInv, NEW l \in Logins,
         \/ Verifies(l) \/ ChecksRevocation(l) \/ FindsOperator(l) \/ createSession(l)
         \/ createOneTimeSessionId(l) \/ LoginFails(l)
  PROVE  IInv'
<1> USE DEF SignInIsShort, SessionEnds, RowExists
<1>1. /\ SignInIsShort(login[l]) /\ SessionEnds(login[l]) /\ RowExists(login[l], ExistingRows)
      /\ TypeOK
  BY DEF IInv, SignInsAreSound
<1>2. /\ UNCHANGED <<now, onboarding, deletedAt, tombstone, revokedAt, revocation, row, offer,
                     published,
                     request>>
      /\ faults' \in 0..MaxFaults
  <2>1. faults' = faults \/ (faults < MaxFaults /\ faults' = faults + 1)
    BY DEF Verifies, ChecksRevocation, FindsOperator, createSession, createOneTimeSessionId,
           LoginFails, Fault
  <2>2. faults' \in 0..MaxFaults
    BY <1>1, <2>1, BoundsAssumption DEF TypeOK
  <2> QED
    BY <2>2 DEF Verifies, ChecksRevocation, FindsOperator, createSession,
                createOneTimeSessionId, LoginFails, department
<1>3. ExistingRows' = ExistingRows /\ row' \in [Logins -> {"none", "active", "revoked"}]
  BY <1>1, <1>2 DEF ExistingRows, TypeOK
<1>4. CASE Verifies(l)
  <2> DEFINE state == [login[l] EXCEPT !.step = "verified", !.begun = now]
  <2>1. state \in Login /\ SignIn(l, state) /\ login[l].step = "no"
    BY <1>1, <1>4, Readings DEF Login, Verifies
  <2>2. SignInIsShort(state) /\ SessionEnds(state) /\ RowExists(state, ExistingRows')
    BY <1>1, <1>4, Readings DEF Login, Verifies, HasToken, IInv, TombstoneOutlives
  <2> HIDE DEF state
  <2> QED BY <1>2, <1>3, <2>1, <2>2, SignInStep
<1>5. CASE ChecksRevocation(l)
  <2>1. CASE Revoked
    <3> DEFINE state == Failed(login[l])
    <3>1. state \in Login /\ SignIn(l, state) /\ login[l].step # "in"
      BY <1>1, <1>5, <2>1, Readings DEF Login, ChecksRevocation, Failed
    <3>2. SignInIsShort(state) /\ SessionEnds(state) /\ RowExists(state, ExistingRows')
      BY <1>1, Readings DEF Login, Failed
    <3> HIDE DEF state
    <3> QED BY <1>2, <1>3, <3>1, <3>2, SignInStep
  <2>2. CASE ~Revoked
    <3> DEFINE state == [login[l] EXCEPT !.step = "checked", !.checked = now]
    <3>1. state \in Login /\ SignIn(l, state) /\ login[l].step = "verified"
      BY <1>1, <1>5, <2>2, Readings DEF Login, ChecksRevocation
    <3>2. revokedAt = 0
      BY <1>1, <2>2, <3>1, Readings DEF Revoked, IInv, TombstoneOutlives
    <3>3. SignInIsShort(state) /\ SessionEnds(state) /\ RowExists(state, ExistingRows')
      BY <1>1, <3>1, <3>2, Readings DEF Login
    <3> HIDE DEF state
    <3> QED BY <1>2, <1>3, <3>1, <3>3, SignInStep
  <2> QED BY <2>1, <2>2
<1>6. CASE FindsOperator(l)
  <2>1. PICK o \in Rows :
          /\ IF ExistingRows = {} THEN o = NoRow ELSE o \in ExistingRows
          /\ SignIn(l, [login[l] EXCEPT !.step = "found", !.row = o])
    BY <1>6 DEF FindsOperator
  <2> DEFINE state == [login[l] EXCEPT !.step = "found", !.row = o]
  <2>2. state \in Login /\ SignIn(l, state) /\ login[l].step = "checked"
    BY <1>1, <1>6, <2>1, Readings DEF Login, FindsOperator
  <2>3. SignInIsShort(state) /\ SessionEnds(state) /\ RowExists(state, ExistingRows')
    BY <1>1, <1>3, <2>1, <2>2, Readings DEF Login
  <2> HIDE DEF state
  <2> QED BY <1>2, <1>3, <2>2, <2>3, SignInStep
<1>7. CASE createSession(l)
  <2> DEFINE state == [login[l] EXCEPT !.step = "stored", !.expires = now + SessionTtl]
  <2>1. state \in Login /\ SignIn(l, state) /\ login[l].step = "found" /\ login[l].row # NoRow
    BY <1>1, <1>7, Readings DEF Login, createSession
  <2>2. SignInIsShort(state) /\ SessionEnds(state) /\ RowExists(state, ExistingRows')
    BY <1>1, <1>3, <2>1, Readings DEF Login
  <2> HIDE DEF state
  <2> QED BY <1>2, <1>3, <2>1, <2>2, SignInStep
<1>8. CASE createOneTimeSessionId(l)
  <2> DEFINE state == [login[l] EXCEPT !.step = "in", !.begun = 0]
  <2>1. state \in Login /\ SignIn(l, state) /\ login[l].step = "stored"
    BY <1>1, <1>8, Readings DEF Login, createOneTimeSessionId
  <2>2. SignInIsShort(state) /\ SessionEnds(state) /\ RowExists(state, ExistingRows')
    BY <1>1, <1>3, <2>1, Readings DEF Login
  <2> HIDE DEF state
  <2> QED BY <1>2, <1>3, <2>1, <2>2, SignInStep
<1>9. CASE LoginFails(l)
  <2> DEFINE state == Failed(login[l])
  <2>1. state \in Login /\ SignIn(l, state) /\ login[l].step # "in"
    BY <1>1, <1>9, Readings DEF Login, LoginFails, SigningIn, Failed
  <2>2. SignInIsShort(state) /\ SessionEnds(state) /\ RowExists(state, ExistingRows')
    BY <1>1, Readings DEF Login, Failed
  <2> HIDE DEF state
  <2> QED BY <1>2, <1>3, <2>1, <2>2, SignInStep
<1> QED BY <1>4, <1>5, <1>6, <1>7, <1>8, <1>9

\* The step that creates a row.
LEMMA CreatesStep == ASSUME IInv, NEW l \in Logins, CreatesOperator(l) PROVE IInv'
<1> DEFINE state == [login[l] EXCEPT !.row = l]
<1>1. /\ SignInIsShort(login[l]) /\ SessionEnds(login[l])
      /\ TypeOK
  BY DEF IInv, SignInsAreSound
<1>2. /\ UNCHANGED <<now, onboarding, deletedAt, tombstone, revokedAt, revocation, offer, published,
                     request, faults>>
      /\ SignIn(l, state) /\ login[l].step = "found" /\ row' = [row EXCEPT ![l] = "active"]
  BY DEF CreatesOperator, department
<1>3. /\ row' \in [Logins -> {"none", "active", "revoked"}] /\ faults' \in 0..MaxFaults
      /\ row'[l] = "active"
      /\ \A o \in Logins : /\ row[o] # "none" => row'[o] # "none"
                          /\ row'[o] = "revoked" => row[o] = "revoked"
  BY <1>1, <1>2 DEF TypeOK
<1>4. state \in Login /\ state.step = "found" /\ state.row = l
  BY <1>1, <1>2, Readings DEF Login, Rows
<1>5. RowExists(state, ExistingRows')
  BY <1>3, <1>4 DEF RowExists, ExistingRows
<1>6. SignInIsShort(state) /\ SessionEnds(state)
  BY <1>1, <1>2, Readings DEF SignInIsShort, SessionEnds, Login
<1> HIDE DEF state
<1> QED BY <1>2, <1>3, <1>4, <1>5, <1>6, SignInStep

\* The steps of Area Riservata.
LEMMA OnboardingStep ==
  ASSUME IInv, CompletesOnboarding \/ RejectsOnboarding
  PROVE  IInv'
<1>1. /\ UNCHANGED <<now, deletedAt, tombstone, revokedAt, revocation, operator, faults>>
      /\ onboarding = "PENDING_IN_REVIEW" /\ onboarding' \in {"COMPLETED", "REJECTED"}
  BY DEF CompletesOnboarding, RejectsOnboarding
<1>2. TypeOK' /\ TombstoneOutlives' /\ HappenedBefore'
  BY <1>1 DEF IInv, TypeOK, TombstoneOutlives, HappenedBefore, operator
<1>3. RevocationsAreShort' /\ SignInsAreSound'
  BY <1>1 DEF IInv, RevocationsAreShort, RevocationIsShort, SignInsAreSound, SignInIsShort,
              SessionEnds, RowExists, ExistingRows, operator
<1>4. RequestsAreShort' /\ PublishedInTime' /\ ClearedOnce'
  BY <1>1 DEF IInv, RequestsAreShort, RequestIsShort, PublishedInTime, ClearedOnce,
              ExistingRows, operator
<1> QED BY <1>2, <1>3, <1>4 DEF IInv

\* A step of a request that publishes nothing, but may submit an opportunity.
LEMMA RequestBecomes ==
  ASSUME IInv, NEW l \in Logins, NEW q \in Request, request' = [request EXCEPT ![l] = q],
         RequestIsShort(l, q), offer' \in [Logins -> {"none", "submitted", "approved"}],
         UNCHANGED <<now, department, row, published, login, faults>>
  PROVE  IInv'
<1>1. UNCHANGED <<now, onboarding, deletedAt, tombstone, revokedAt, revocation, row, published,
                  login, faults>>
  BY DEF department
<1>2. /\ request' \in [Logins -> Request] /\ request'[l] = q
      /\ \A k \in Logins \ {l} : request'[k] = request[k]
  BY DEF IInv, TypeOK
<1>3. TypeOK' /\ TombstoneOutlives' /\ HappenedBefore'
  BY <1>1, <1>2 DEF IInv, TypeOK, TombstoneOutlives, HappenedBefore
<1>4. RevocationsAreShort' /\ SignInsAreSound'
  BY <1>1 DEF IInv, RevocationsAreShort, RevocationIsShort, SignInsAreSound, SignInIsShort,
              SessionEnds, RowExists, ExistingRows
<1>5. PublishedInTime' /\ ClearedOnce'
  BY <1>1 DEF IInv, PublishedInTime, ClearedOnce, ExistingRows
<1>6. RequestsAreShort'
  BY <1>1, <1>2 DEF IInv, RequestsAreShort, RequestIsShort
<1> QED BY <1>3, <1>4, <1>5, <1>6 DEF IInv

\* The steps of a request up to its publication.
LEMMA RequestStep ==
  ASSUME IInv, NEW l \in Logins,
         ReadsSession(l) \/ ReadsRevocation(l) \/ Submits(l) \/ RequestEnds(l)
  PROVE  IInv'
<1>1. TypeOK /\ RequestIsShort(l, request[l]) /\ RequestIsShort(l, NoRequest)
  BY DEF IInv, RequestsAreShort, RequestIsShort, NoRequest
<1>2. NoRequest \in Request /\ offer \in [Logins -> {"none", "submitted", "approved"}]
  BY <1>1, Readings DEF NoRequest, Request, TypeOK
<1>3. CASE ReadsSession(l)
  <2> DEFINE q == [step |-> "read", begun |-> now]
  <2>1. q \in Request /\ RequestIsShort(l, q)
    BY <1>1, <1>3, Readings DEF Request, RequestIsShort, ReadsSession
  <2> QED BY <1>2, <1>3, <2>1, RequestBecomes DEF ReadsSession
<1>4. CASE ReadsRevocation(l)
  <2>1. CASE Revoked
    BY <1>1, <1>2, <1>4, <2>1, RequestBecomes DEF ReadsRevocation
  <2>2. CASE ~Revoked
    <3> DEFINE q == [request[l] EXCEPT !.step = "authorised"]
    <3>1. q \in Request /\ RequestIsShort(l, q)
      BY <1>1, <1>4, <2>2, Readings DEF Request, RequestIsShort, ReadsRevocation, Revoked
    <3>2. request' = [request EXCEPT ![l] = q]
      BY <1>1, <1>4, <2>2 DEF ReadsRevocation, TypeOK
    <3> HIDE DEF q
    <3> QED BY <1>2, <1>4, <3>1, <3>2, RequestBecomes DEF ReadsRevocation
  <2> QED BY <2>1, <2>2
<1>5. CASE RequestEnds(l)
  BY <1>1, <1>2, <1>5, RequestBecomes DEF RequestEnds
<1>6. CASE Submits(l)
  <2>1. offer' \in [Logins -> {"none", "submitted", "approved"}]
    BY <1>2, <1>6 DEF Submits
  <2> QED BY <1>1, <1>2, <1>6, <2>1, RequestBecomes DEF Submits
<1> QED BY <1>3, <1>4, <1>5, <1>6

\* A publication comes in time.
LEMMA PublishesStep == ASSUME IInv, NEW l \in Logins, Publishes(l) PROVE IInv'
<1>1. /\ UNCHANGED <<now, onboarding, deletedAt, tombstone, revokedAt, revocation, row, offer,
                     login, faults>>
      /\ request[l].step = "authorised"
      /\ published' = [published EXCEPT ![login[l].row].operator = now]
      /\ request' = [request EXCEPT ![l] = NoRequest]
  BY DEF Publishes, department
<1>2. login[l].row \in ExistingRows
  BY <1>1 DEF IInv, RequestsAreShort, RequestIsShort, SignInsAreSound, RowExists
<1>3. PICK o \in Logins : o = login[l].row /\ row[o] # "none"
  BY <1>2 DEF ExistingRows
<1>4. /\ NoRequest \in Request
      /\ request' \in [Logins -> Request] /\ request'[l].step = "no"
      /\ \A k \in Logins \ {l} : request'[k] = request[k]
      /\ published' \in [Logins -> Publications]
      /\ published'[o].operator = now /\ published'[o].department = published[o].department
      /\ \A p \in Logins \ {o} : published'[p] = published[p]
  BY <1>1, <1>3, Readings DEF IInv, TypeOK, NoRequest, Request, Publications
<1>5. TypeOK' /\ TombstoneOutlives' /\ HappenedBefore'
  BY <1>1, <1>4, Readings DEF IInv, TypeOK, TombstoneOutlives, HappenedBefore
<1>6. RevocationsAreShort' /\ SignInsAreSound' /\ RequestsAreShort'
  BY <1>1, <1>4 DEF IInv, RevocationsAreShort, RevocationIsShort, SignInsAreSound, SignInIsShort,
              SessionEnds, RowExists, ExistingRows, RequestsAreShort, RequestIsShort
<1>7. revokedAt # 0 =>
        now <= revokedAt + 1 \/ (tombstone <= now /\ now <= revokedAt + SessionTtl + 1)
  <2>1. /\ now <= request[l].begun + 1
        /\ request[l].begun < login[l].expires
        /\ revokedAt # 0 => request[l].begun <= revokedAt \/ tombstone <= now
        /\ revokedAt # 0 => login[l].expires <= revokedAt + SessionTtl + 1
    BY <1>1 DEF IInv, RequestsAreShort, RequestIsShort, SignInsAreSound, SessionEnds
  <2> QED BY <2>1, Readings DEF IInv
<1>8. PublishedInTime' /\ ClearedOnce'
  BY <1>1, <1>4, <1>7, Readings DEF IInv, PublishedInTime, ClearedOnce, HappenedBefore
<1> QED BY <1>5, <1>6, <1>8 DEF IInv

\* What the department publishes is not from before the revocation.
LEMMA DepartmentPublishesStep == ASSUME IInv, NEW o \in Logins, DepartmentPublishes(o) PROVE IInv'
<1>1. /\ UNCHANGED <<now, onboarding, deletedAt, tombstone, revokedAt, revocation, row, login,
                     request, faults>>
      /\ offer' = [offer EXCEPT ![o] = "approved"]
      /\ published' = [published EXCEPT ![o].department = IF @ = 0 THEN now ELSE @]
  BY DEF DepartmentPublishes, department
<1>2. /\ offer' \in [Logins -> {"none", "submitted", "approved"}]
      /\ published' \in [Logins -> Publications]
      /\ published'[o].operator = published[o].operator
      /\ published'[o].department
           = IF published[o].department = 0 THEN now ELSE published[o].department
      /\ \A p \in Logins \ {o} : published'[p] = published[p]
  BY <1>1, Readings DEF IInv, TypeOK, Publications
<1>3. \A p \in Logins : published'[p].operator = published[p].operator
  BY <1>2
<1>4. TypeOK' /\ TombstoneOutlives' /\ HappenedBefore'
  BY <1>1, <1>2, <1>3 DEF IInv, TypeOK, TombstoneOutlives, HappenedBefore
<1>5. RevocationsAreShort' /\ SignInsAreSound' /\ RequestsAreShort'
  BY <1>1 DEF IInv, RevocationsAreShort, RevocationIsShort, SignInsAreSound, SignInIsShort,
              SessionEnds, RowExists, ExistingRows, RequestsAreShort, RequestIsShort
<1>6. PublishedInTime'
  BY <1>1, <1>3 DEF IInv, PublishedInTime
<1>7. ClearedOnce'
  BY <1>1, <1>2, Readings DEF IInv, ClearedOnce, HappenedBefore
<1> QED BY <1>4, <1>5, <1>6, <1>7 DEF IInv

\* A step of a revocation that touches nothing else.
LEMMA RevocationStep ==
  ASSUME IInv, NEW a \in Admins, NEW state \in Revocation, Revoke(a, state),
         RevocationIsShort(state),
         faults' \in 0..MaxFaults,
         UNCHANGED <<now, onboarding, deletedAt, tombstone, revokedAt, row, offer, published, login,
                     request>>
  PROVE  IInv'
<1>1. /\ revocation' \in [Admins -> Revocation]
      /\ revocation'[a] = state
      /\ \A b \in Admins \ {a} : revocation'[b] = revocation[b]
  BY RevocationBecomes DEF IInv
<1>2. TypeOK' /\ HappenedBefore' /\ TombstoneOutlives'
  BY <1>1 DEF IInv, TypeOK, HappenedBefore, TombstoneOutlives
<1>3. RevocationsAreShort'
  BY <1>1 DEF IInv, RevocationsAreShort, RevocationIsShort, ExistingRows
<1>4. SignInsAreSound' /\ RequestsAreShort'
  BY DEF IInv, SignInsAreSound, SignInIsShort, SessionEnds, RowExists, ExistingRows,
         RequestsAreShort, RequestIsShort
<1>5. PublishedInTime'
  BY DEF IInv, PublishedInTime
<1>6. ClearedOnce'
  BY DEF IInv, ClearedOnce
<1> QED BY <1>2, <1>3, <1>4, <1>5, <1>6 DEF IInv

\* A revocation begins, resolves the operator, or fails.
LEMMA RevokingStep ==
  ASSUME IInv, NEW a \in Admins,
         FindsCompleted(a) \/ ResolvesOperator(a) \/ RevocationFails(a)
  PROVE  IInv'
<1>1. TypeOK /\ RevocationIsShort(revocation[a])
  BY DEF IInv, RevocationsAreShort
<1>2. \A end \in {"done", "failed"} :
        [step |-> end, begun |-> 0, row |-> NoRow] \in Revocation
  BY <1>1, Readings DEF Revocation, Rows
<1>3. CASE FindsCompleted(a)
  <2> DEFINE state == [revocation[a] EXCEPT !.step = "found", !.begun = now]
  <2>1. state \in Revocation /\ Revoke(a, state) /\ onboarding = "COMPLETED"
    BY <1>1, <1>3, Readings DEF Revocation, FindsCompleted
  <2>2. deletedAt = 0
    BY <2>1 DEF IInv, TombstoneOutlives
  <2>3. RevocationIsShort(state) /\ state.step = "found"
    BY <1>1, <2>1, <2>2, Readings DEF RevocationIsShort, Revocation
  <2>4. /\ faults' \in 0..MaxFaults
        /\ UNCHANGED <<now, onboarding, deletedAt, tombstone, revokedAt, row, offer, published,
                       login,
                       request>>
    BY <1>1, <1>3 DEF FindsCompleted, operator, TypeOK
  <2> HIDE DEF state
  <2> QED BY <2>1, <2>3, <2>4, RevocationStep
<1>4. CASE ResolvesOperator(a)
  <2>1. PICK o \in Rows :
          /\ IF ExistingRows = {} THEN o = NoRow ELSE o \in ExistingRows
          /\ IF o = NoRow THEN EndsAs(a, "done")
             ELSE Revoke(a, [revocation[a] EXCEPT !.step = "resolved", !.row = o])
    BY <1>4 DEF ResolvesOperator
  <2>2. /\ faults' \in 0..MaxFaults
        /\ revocation[a].step = "barred"
        /\ UNCHANGED <<now, onboarding, deletedAt, tombstone, revokedAt, row, offer, published,
                       login,
                       request>>
    BY <1>1, <1>4 DEF ResolvesOperator, operator, TypeOK
  <2>3. CASE o = NoRow
    <3> DEFINE state == [step |-> "done", begun |-> 0, row |-> NoRow]
    <3>1. state \in Revocation /\ RevocationIsShort(state) /\ Revoke(a, state)
      BY <1>1, <1>2, <2>1, <2>2, <2>3 DEF RevocationIsShort, EndsAs
    <3> HIDE DEF state
    <3> QED BY <2>2, <3>1, RevocationStep
  <2>4. CASE o # NoRow
    <3> DEFINE state == [revocation[a] EXCEPT !.step = "resolved", !.row = o]
    <3>1. o \in ExistingRows
      BY <2>1, <2>4
    <3>2. state \in Revocation /\ Revoke(a, state) /\ state.step = "resolved"
      BY <1>1, <2>1, <2>4, Readings DEF Revocation
    <3>3. RevocationIsShort(state)
      BY <1>1, <2>2, <3>1, Readings DEF RevocationIsShort, Revocation
    <3> HIDE DEF state
    <3> QED BY <2>2, <3>2, <3>3, RevocationStep
  <2> QED BY <2>3, <2>4
<1>5. CASE RevocationFails(a)
  <2> DEFINE state == [step |-> "failed", begun |-> 0, row |-> NoRow]
  <2>1. state \in Revocation /\ RevocationIsShort(state) /\ Revoke(a, state)
    BY <1>2, <1>5 DEF RevocationIsShort, RevocationFails, EndsAs
  <2>2. /\ faults' \in 0..MaxFaults
        /\ UNCHANGED <<now, onboarding, deletedAt, tombstone, revokedAt, row, offer, published,
                       login,
                       request>>
    BY <1>1, <1>5, BoundsAssumption DEF RevocationFails, Fault, operator, TypeOK
  <2> QED BY <2>1, <2>2, RevocationStep
<1> QED BY <1>3, <1>4, <1>5

\* The onboarding is deleted: what is under way began before.
LEMMA DeletesStep == ASSUME IInv, NEW a \in Admins, deleteOnboarding(a) PROVE IInv'
<1> DEFINE state == [revocation[a] EXCEPT !.step = "deleted"]
<1>1. /\ UNCHANGED <<now, tombstone, revokedAt, row, offer, published, login, request, faults>>
      /\ onboarding' = "DELETED"
      /\ deletedAt' = IF onboarding = "DELETED" THEN deletedAt ELSE now
      /\ revocation[a].step = "found" /\ Revoke(a, state)
  BY DEF deleteOnboarding, operator
<1>2. TypeOK /\ RevocationIsShort(revocation[a])
  BY DEF IInv, RevocationsAreShort
<1>3. state \in Revocation /\ state.step = "deleted" /\ state.begun = revocation[a].begun
  BY <1>2, Readings DEF Revocation
<1> HIDE DEF state
<1>4. /\ revocation' \in [Admins -> Revocation]
      /\ revocation'[a] = state
      /\ \A b \in Admins \ {a} : revocation'[b] = revocation[b]
  BY <1>1, <1>2, <1>3, RevocationBecomes
<1>5. /\ deletedAt' \in Time /\ deletedAt' # 0 /\ deletedAt' <= now
      /\ deletedAt # 0 => deletedAt' = deletedAt
      /\ deletedAt = 0 => deletedAt' = now /\ revokedAt = 0
  BY <1>1, <1>2, Readings DEF IInv, TombstoneOutlives, HappenedBefore, TypeOK
<1>6. TypeOK'
  BY <1>1, <1>2, <1>4, <1>5 DEF TypeOK
<1>7. HappenedBefore' /\ TombstoneOutlives'
  BY <1>1, <1>5 DEF IInv, HappenedBefore, TombstoneOutlives
<1>8. RevocationsAreShort'
  <2> SUFFICES ASSUME NEW b \in Admins PROVE RevocationIsShort(revocation[b])'
    BY DEF RevocationsAreShort
  <2>1. RevocationIsShort(revocation[b])
    BY DEF IInv, RevocationsAreShort
  <2>2. CASE b = a
    BY <1>1, <1>2, <1>3, <1>4, <1>5, <2>2, Readings DEF RevocationIsShort
  <2>3. CASE b # a
    BY <1>1, <1>2, <1>4, <1>5, <2>1, <2>3, Readings DEF RevocationIsShort, ExistingRows
  <2> QED BY <2>2, <2>3
<1>9. SignInsAreSound'
  <2> SUFFICES ASSUME NEW l \in Logins
               PROVE  /\ SignInIsShort(login[l])' /\ SessionEnds(login[l])'
                      /\ RowExists(login[l], ExistingRows)'
    BY DEF SignInsAreSound
  <2>1. SignInIsShort(login[l]) /\ SessionEnds(login[l]) /\ RowExists(login[l], ExistingRows)
    BY DEF IInv, SignInsAreSound
  <2>2. SignInIsShort(login[l])' /\ SessionEnds(login[l])'
    BY <1>1, <1>2, <1>5, <2>1, Readings DEF SignInIsShort, SessionEnds
  <2>3. RowExists(login[l], ExistingRows)'
    BY <1>1, <2>1 DEF RowExists, ExistingRows
  <2> QED BY <2>2, <2>3
<1>10. RequestsAreShort' /\ PublishedInTime'
  BY <1>1 DEF IInv, RequestsAreShort, RequestIsShort, PublishedInTime
<1>11. ClearedOnce'
  BY <1>1 DEF IInv, ClearedOnce
<1> QED BY <1>6, <1>7, <1>8, <1>9, <1>10, <1>11 DEF IInv

\* The tombstone comes, or is set again by a second revocation: that one began
\* before the deletion, too early for the first tombstone to have gone.
LEMMA BarsStep == ASSUME IInv, NEW a \in Admins, revokeByOperatorExternalId(a) PROVE IInv'
<1> DEFINE state == [revocation[a] EXCEPT !.step = "barred"]
<1>1. /\ UNCHANGED <<now, onboarding, deletedAt, row, offer, published, login, request, faults>>
      /\ tombstone' = now + SessionTtl
      /\ revokedAt' = IF revokedAt = 0 THEN now ELSE revokedAt
      /\ revocation[a].step = "deleted" /\ Revoke(a, state)
  BY DEF revokeByOperatorExternalId, operator
<1>2. TypeOK /\ RevocationIsShort(revocation[a])
  BY DEF IInv, RevocationsAreShort
<1>3. state \in Revocation /\ state.step = "barred" /\ state.begun = revocation[a].begun
  BY <1>2, Readings DEF Revocation
<1> HIDE DEF state
<1>4. /\ revocation' \in [Admins -> Revocation]
      /\ revocation'[a] = state
      /\ \A b \in Admins \ {a} : revocation'[b] = revocation[b]
  BY <1>1, <1>2, <1>3, RevocationBecomes
<1>5. /\ revokedAt' \in Time /\ revokedAt' # 0 /\ revokedAt' <= now /\ tombstone' \in Time
      /\ deletedAt # 0 /\ deletedAt <= revokedAt'
      /\ revokedAt' + SessionTtl <= tombstone'
      /\ revokedAt = 0 => revokedAt' = now
  BY <1>1, <1>2, Readings
  DEF IInv, TypeOK, HappenedBefore, TombstoneOutlives, RevocationIsShort
<1>6. revokedAt # 0 => revokedAt' = revokedAt /\ now < tombstone
  <2>1. revokedAt # 0 => now <= revokedAt + 1 /\ revokedAt + SessionTtl <= tombstone
    BY <1>1, <1>2, <1>5, Readings DEF IInv, TombstoneOutlives, RevocationIsShort
  <2> QED BY <1>1, <1>2, <2>1, Readings
<1>7. TypeOK'
  BY <1>1, <1>2, <1>4, <1>5 DEF TypeOK
<1>8. HappenedBefore' /\ TombstoneOutlives'
  BY <1>1, <1>5 DEF IInv, HappenedBefore, TombstoneOutlives
<1>9. RevocationsAreShort'
  <2> SUFFICES ASSUME NEW b \in Admins PROVE RevocationIsShort(revocation[b])'
    BY DEF RevocationsAreShort
  <2>1. RevocationIsShort(revocation[b])
    BY DEF IInv, RevocationsAreShort
  <2>2. CASE b = a
    BY <1>1, <1>2, <1>3, <1>4, <1>5, <2>2, Readings DEF RevocationIsShort
  <2>3. CASE b # a
    BY <1>1, <1>4, <1>5, <2>1, <2>3 DEF RevocationIsShort, ExistingRows
  <2> QED BY <2>2, <2>3
<1>10. SignInsAreSound'
  <2> SUFFICES ASSUME NEW l \in Logins
               PROVE  /\ SignInIsShort(login[l])' /\ SessionEnds(login[l])'
                      /\ RowExists(login[l], ExistingRows)'
    BY DEF SignInsAreSound
  <2>1. SignInIsShort(login[l]) /\ SessionEnds(login[l]) /\ RowExists(login[l], ExistingRows)
    BY DEF IInv, SignInsAreSound
  <2>2. SignInIsShort(login[l])' /\ SessionEnds(login[l])'
    BY <1>1, <1>2, <1>5, <1>6, <2>1, Readings DEF SignInIsShort, SessionEnds
  <2>3. RowExists(login[l], ExistingRows)'
    BY <1>1, <2>1 DEF RowExists, ExistingRows
  <2> QED BY <2>2, <2>3
<1>11. RequestsAreShort'
  <2> SUFFICES ASSUME NEW l \in Logins PROVE RequestIsShort(l, request[l])'
    BY DEF RequestsAreShort
  <2>1. RequestIsShort(l, request[l])
    BY DEF IInv, RequestsAreShort
  <2> QED BY <1>1, <1>2, <1>5, <1>6, <2>1, Readings DEF RequestIsShort
<1>12. PublishedInTime'
  <2>1. \A o \in Logins : published'[o].operator <= revokedAt' + 1
    BY <1>1, <1>2, <1>5, <1>6, Readings DEF IInv, PublishedInTime, HappenedBefore
  <2> QED BY <2>1 DEF PublishedInTime
<1>13. ClearedOnce'
  BY <1>1, <1>5, <1>6 DEF IInv, ClearedOnce
<1> QED BY <1>7, <1>8, <1>9, <1>10, <1>11, <1>12, <1>13 DEF IInv

\* The row is revoked and its publications cleared, or had been.
LEMMA RevokesRowStep == ASSUME IInv, NEW a \in Admins, revokeById(a) PROVE IInv'
<1> DEFINE o == revocation[a].row
           ended(end) == [step |-> end, begun |-> 0, row |-> NoRow]
<1>1. /\ UNCHANGED <<now, onboarding, deletedAt, tombstone, revokedAt, offer, login, request,
                     faults>>
      /\ revocation[a].step = "resolved"
  BY DEF revokeById
<1>2. TypeOK /\ RevocationIsShort(revocation[a])
  BY DEF IInv, RevocationsAreShort
<1>3. o \in ExistingRows /\ o \in Logins /\ revokedAt # 0
  BY <1>1, <1>2 DEF RevocationIsShort, ExistingRows
<1>4. /\ ended("done") \in Revocation /\ RevocationIsShort(ended("done"))
      /\ ended("failed") \in Revocation /\ RevocationIsShort(ended("failed"))
  BY <1>2, <1>3, Readings DEF RevocationIsShort, Revocation, Rows
<1>5. CASE row[o] = "revoked" /\ UNCHANGED <<row, offer, published>> /\ EndsAs(a, "failed")
  <2>1. Revoke(a, ended("failed")) /\ ended("failed").step # "done" /\ faults' \in 0..MaxFaults
    BY <1>1, <1>2, <1>5 DEF EndsAs, TypeOK
  <2> HIDE DEF ended
  <2> QED BY <1>1, <1>4, <1>5, <2>1, RevocationStep
<1>6. CASE /\ row[o] = "active" /\ EndsAs(a, "done")
           /\ row' = [row EXCEPT ![o] = "revoked"]
           /\ published' = [published EXCEPT ![o] = NeverPublished]
  <2>1. /\ revocation' \in [Admins -> Revocation]
        /\ revocation'[a] = ended("done")
        /\ \A b \in Admins \ {a} : revocation'[b] = revocation[b]
    BY <1>2, <1>4, <1>6, RevocationBecomes DEF EndsAs
  <2>2. /\ row' \in [Logins -> {"none", "active", "revoked"}]
        /\ published' \in [Logins -> Publications]
        /\ published'[o].operator = 0 /\ published'[o].department = 0
        /\ \A p \in Logins \ {o} : published'[p] = published[p]
        /\ ExistingRows' = ExistingRows
    BY <1>2, <1>3, <1>6, Readings DEF TypeOK, ExistingRows, Publications, NeverPublished
  <2> HIDE DEF o, ended
  <2>3. TypeOK'
    BY <1>1, <1>2, <2>1, <2>2 DEF TypeOK
  <2>4. HappenedBefore' /\ TombstoneOutlives'
    BY <1>1, <1>2, <2>2, Readings DEF IInv, HappenedBefore, TombstoneOutlives
  <2>5. RevocationsAreShort'
    BY <1>1, <1>4, <2>1, <2>2 DEF IInv, RevocationsAreShort, RevocationIsShort
  <2>6. SignInsAreSound' /\ RequestsAreShort'
    BY <1>1, <2>2 DEF IInv, SignInsAreSound, SignInIsShort, SessionEnds, RowExists,
                      RequestsAreShort, RequestIsShort
  <2>7. PublishedInTime'
    BY <1>1, <1>2, <2>2, Readings DEF IInv, PublishedInTime
  <2>8. ClearedOnce'
    BY <1>1, <1>2, <1>3, <1>6, <2>2 DEF IInv, ClearedOnce, TypeOK
  <2> QED BY <2>3, <2>4, <2>5, <2>6, <2>7, <2>8 DEF IInv
<1> QED BY <1>5, <1>6 DEF revokeById

\* The clock waits for what began before this tick.
LEMMA TickStep == ASSUME IInv, Tick PROVE IInv'
<1>1. /\ UNCHANGED <<onboarding, deletedAt, tombstone, revokedAt, revocation, row, offer, published,
                     login, request, faults>>
      /\ now' = now + 1 /\ now < MaxTime
      /\ \A l \in Logins : SigningIn(l) => login[l].begun = now
      /\ \A l \in Logins : request[l].step # "no" => request[l].begun = now
      /\ \A a \in Admins : Revoking(a) => revocation[a].begun = now
  BY DEF Tick, department, operator
<1>2. TypeOK
  BY DEF IInv
<1>3. TypeOK'
  BY <1>1, <1>2, BoundsAssumption DEF TypeOK
<1>4. HappenedBefore' /\ TombstoneOutlives' /\ PublishedInTime' /\ ClearedOnce'
  BY <1>1, <1>2, Readings
  DEF IInv, HappenedBefore, TombstoneOutlives, PublishedInTime, ClearedOnce,
      ExistingRows
<1>5. RevocationsAreShort'
  BY <1>1, <1>2, Readings DEF IInv, RevocationsAreShort, RevocationIsShort, Revoking, ExistingRows
<1>6. SignInsAreSound'
  BY <1>1, <1>2, Readings
  DEF IInv, SignInsAreSound, SignInIsShort, SessionEnds, RowExists, ExistingRows, SigningIn
<1>7. RequestsAreShort'
  BY <1>1, <1>2, Readings DEF IInv, RequestsAreShort, RequestIsShort
<1> QED BY <1>3, <1>4, <1>5, <1>6, <1>7 DEF IInv

\* Every step keeps the invariant.
LEMMA InvStep == ASSUME IInv, [Next]_vars PROVE IInv'
<1>1. CASE UNCHANGED vars
  <2>1. UNCHANGED <<now, onboarding, deletedAt, tombstone, revokedAt, revocation, row, offer,
                    published,
                    login, request, faults>>
    BY <1>1 DEF vars, department, operator
  <2> QED
    BY <2>1 DEF IInv, TypeOK, HappenedBefore, TombstoneOutlives, RevocationsAreShort,
                RevocationIsShort, SignInsAreSound, SignInIsShort, SessionEnds, RowExists,
                RequestsAreShort, RequestIsShort, PublishedInTime, ClearedOnce,
                ExistingRows
<1>2. ASSUME NEW l \in Logins,
             \/ Verifies(l) \/ ChecksRevocation(l) \/ FindsOperator(l) \/ CreatesOperator(l)
             \/ createSession(l) \/ createOneTimeSessionId(l) \/ LoginFails(l)
             \/ ReadsSession(l) \/ ReadsRevocation(l) \/ Submits(l) \/ Publishes(l)
             \/ RequestEnds(l)
      PROVE  IInv'
  BY <1>2, LoginStep, CreatesStep, RequestStep, PublishesStep
<1>3. ASSUME NEW a \in Admins,
             \/ FindsCompleted(a) \/ deleteOnboarding(a) \/ revokeByOperatorExternalId(a)
             \/ ResolvesOperator(a) \/ revokeById(a) \/ RevocationFails(a)
      PROVE  IInv'
  BY <1>3, RevokingStep, DeletesStep, BarsStep, RevokesRowStep
<1>4. CASE CompletesOnboarding \/ RejectsOnboarding
  BY <1>4, OnboardingStep
<1>5. CASE Tick
  BY <1>5, TickStep
<1>6. ASSUME NEW o \in Logins, DepartmentPublishes(o) PROVE IInv'
  BY <1>6, DepartmentPublishesStep
<1> QED BY <1>1, <1>2, <1>3, <1>4, <1>5, <1>6 DEF Next

\* The invariant holds in every state.
LEMMA Invariance == Spec => []IInv
<1>1. Init => IInv
  <2> SUFFICES ASSUME Init PROVE IInv
    OBVIOUS
  <2>1. 0 \in Time /\ SessionTtl \in Nat /\ MaxTime \in Nat \ {0} /\ MaxFaults \in Nat
    BY TtlAssumption, BoundsAssumption DEF Time
  <2>2. TypeOK
    BY <2>1 DEF Init, TypeOK, Login, Request, Revocation, Rows, NoRequest, Publications,
                NeverPublished
  <2>3. HappenedBefore /\ TombstoneOutlives /\ RevocationsAreShort
    BY <2>1 DEF Init, HappenedBefore, TombstoneOutlives, RevocationsAreShort, RevocationIsShort,
                NeverPublished
  <2>4. SignInsAreSound
    <3> SUFFICES ASSUME NEW l \in Logins
                 PROVE  /\ SignInIsShort(login[l]) /\ SessionEnds(login[l])
                        /\ RowExists(login[l], ExistingRows)
      BY DEF SignInsAreSound
    <3>1. login[l] = [step |-> "no", begun |-> 0, checked |-> 0, row |-> NoRow, expires |-> 0]
      BY DEF Init
    <3>2. now = 1 /\ deletedAt = 0 /\ revokedAt = 0
      BY DEF Init
    <3> QED BY <2>1, <3>1, <3>2 DEF SignInIsShort, SessionEnds, RowExists
  <2>5. RequestsAreShort /\ PublishedInTime /\ ClearedOnce
    BY DEF Init, RequestsAreShort, RequestIsShort, NoRequest, PublishedInTime, ClearedOnce
  <2> QED BY <2>2, <2>3, <2>4, <2>5 DEF IInv
<1>2. IInv /\ [Next]_vars => IInv'
  BY InvStep
<1> QED BY <1>1, <1>2, PTL DEF Spec

(***************************************************************************)
(* The theorems.                                                           *)
(***************************************************************************)
\* The state has its type: the clock readings stay within the bounds, and no
\* session outlives the last tick by more than its lifetime.
THEOREM TypeCorrect == Spec => []TypeOK
<1>1. IInv => TypeOK
  BY DEF IInv
<1> QED BY <1>1, Invariance, PTL

\* "all its published opportunities are suspended": a revoked row has nothing on
\* offer from before the revocation; what is on offer the department published
\* since, or a request or a sign-in of the operator that was under way when the
\* tombstone came or went.
THEOREM RevocationIsComplete == Spec => []RevocationSuspendsAll
<1>1. IInv => RevocationSuspendsAll
  <2> SUFFICES ASSUME IInv, NEW o \in Logins, row[o] = "revoked"
               PROVE  /\ published[o].operator # 0 =>
                           \/ published[o].operator \in {revokedAt, revokedAt + 1}
                           \/ published[o].operator \in tombstone..(revokedAt + SessionTtl + 1)
                      /\ published[o].department # 0 => revokedAt <= published[o].department
    BY DEF RevocationSuspendsAll
  <2>1. /\ revokedAt # 0
        /\ published[o].operator # 0 => revokedAt <= published[o].operator
        /\ published[o].department # 0 => revokedAt <= published[o].department
    BY DEF IInv, ClearedOnce
  <2>2. \/ published[o].operator <= revokedAt + 1
        \/ /\ tombstone <= published[o].operator
           /\ published[o].operator <= revokedAt + SessionTtl + 1
    BY <2>1 DEF IInv, PublishedInTime
  <2> QED BY <2>1, <2>2, Readings DEF IInv
<1> QED BY <1>1, Invariance, PTL

\* The deletion of the onboarding alone puts the operator out in the end, whatever
\* becomes of the revocation.
THEOREM DeletionPutsOut == Spec => []OutInTheEnd
<1>1. IInv => OutInTheEnd
  BY Readings DEF IInv, OutInTheEnd, SignInsAreSound, SessionEnds
<1> QED BY <1>1, Invariance, PTL

\* "outlive any session the revocation has to cover": once the tombstone has come,
\* only a session that a sign-in stored after it, having checked before it, is ever
\* authorised again.
THEOREM RevokedForGood == Spec => RevokedSessionsStayDead
<1>1. IInv /\ [Next]_vars =>
        [\A l \in Logins :
           /\ revokedAt # 0
           /\ request[l].step = "read" /\ request'[l].step = "authorised"
           => /\ login[l].checked <= revokedAt
              /\ revokedAt + SessionTtl <= login[l].expires]_vars
  <2> SUFFICES ASSUME IInv, Next, NEW l \in Logins, revokedAt # 0,
                      request[l].step = "read", request'[l].step = "authorised"
               PROVE  login[l].checked <= revokedAt /\ revokedAt + SessionTtl <= login[l].expires
    OBVIOUS
  <2>1. TypeOK /\ SignInIsShort(login[l]) /\ RequestIsShort(l, request[l])
    BY DEF IInv, SignInsAreSound, RequestsAreShort
  <2>2. tombstone <= now
    <3>1. request' # request
      OBVIOUS
    <3>2. PICK k \in Logins : \/ ReadsSession(k) \/ ReadsRevocation(k) \/ Submits(k)
                              \/ Publishes(k) \/ RequestEnds(k)
      BY <3>1 DEF Next, CompletesOnboarding, RejectsOnboarding, Verifies, ChecksRevocation,
           FindsOperator, CreatesOperator, createSession, createOneTimeSessionId, LoginFails,
           FindsCompleted, deleteOnboarding, revokeByOperatorExternalId, ResolvesOperator,
           revokeById, RevocationFails, DepartmentPublishes, Tick, operator
    <3>3. k = l /\ ReadsRevocation(l)
      BY <2>1, <3>2 DEF ReadsSession, ReadsRevocation, Submits, Publishes, RequestEnds, NoRequest,
                        TypeOK
    <3> QED BY <2>1, <3>3, Readings DEF ReadsRevocation, Revoked, NoRequest, TypeOK
  <2> QED
    BY <2>1, <2>2, Readings DEF IInv, TombstoneOutlives, SignInIsShort, RequestIsShort
<1> QED BY <1>1, Invariance, PTL DEF Spec, RevokedSessionsStayDead
================================================================================
