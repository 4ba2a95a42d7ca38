--------------------------- MODULE CitizenSignInProof ---------------------------
(***************************************************************************)
(* Proofs about CitizenSignIn, for any number of citizens, of sign-ins and *)
(* of requests that exchange a one-time id.                                *)
(***************************************************************************)
EXTENDS CitizenSignIn, TLAPS

(***************************************************************************)
(* The inductive invariant.                                                *)
(***************************************************************************)
\* What is in the audit log at each step of a sign-in.
AuditFollowsSteps ==
  \A i \in SignIns :
    /\ At(i, "testing") => signIn[i].user \in TestUsers
    /\ signIn[i].step \in {"verifying", "verified"} => "exchange" \in audit[i]
    /\ signIn[i].step \in {"audited", "stored", "in"} => Audited(i)

\* A session, then a one-time id, are stored by the last steps only.
KeysFollowSteps ==
  \A i \in SignIns :
    /\ session[i] # "none" => signIn[i].step \in {"stored", "in", "failed"}
    /\ signIn[i].step \in {"stored", "in"} => session[i] # "none"
    /\ oneTime[i] # "none" => signIn[i].step \in {"in", "failed"}

\* What the store says it has deleted is gone.
DeletedIsGone ==
  /\ \A i \in SignIns : signIn[i].deleted =>
       /\ signIn[i].step \notin {"no", "taking"}
       /\ signIn[i].flow \in Flows
       /\ nonce[signIn[i].flow] = "gone"
  /\ \A i \in SignIns : At(i, "taking") => signIn[i].flow \in Flows
  /\ \A c \in Clients : client[c].deleted =>
       /\ client[c].step = "done"
       /\ client[c].id \in SignIns
       /\ oneTime[client[c].id] = "gone"
  /\ \A c \in Clients : client[c].step = "taking" =>
       /\ client[c].id \in SignIns
       /\ oneTime[client[c].id] # "none"

IInv ==
  /\ TypeOK
  /\ AuditFollowsSteps
  /\ KeysFollowSteps
  /\ SessionsAreAudited
  /\ DeletedIsGone

(***************************************************************************)
(* The steps.                                                              *)
(***************************************************************************)
\* A sign-in that becomes another state leaves the others as they are.
LEMMA SignInBecomes ==
  ASSUME TypeOK, NEW i \in SignIns, NEW state \in SignIn,
         signIn' = [signIn EXCEPT ![i] = state]
  PROVE  /\ signIn' \in [SignIns -> SignIn]
         /\ signIn'[i] = state
         /\ \A j \in SignIns \ {i} : signIn'[j] = signIn[j]
BY DEF TypeOK

\* A sign-in that goes to its next step keeps the rest of its state.
LEMMA SignInGoes ==
  ASSUME TypeOK, NEW i \in SignIns, NEW step, Goes(i, step),
         step \in {"verifying", "verified", "audited", "stored", "in", "failed"}
  PROVE  /\ signIn' \in [SignIns -> SignIn]
         /\ signIn'[i].step = step
         /\ signIn'[i].user = signIn[i].user
         /\ signIn'[i].flow = signIn[i].flow
         /\ signIn'[i].deleted = signIn[i].deleted
         /\ \A j \in SignIns \ {i} : signIn'[j] = signIn[j]
<1> DEFINE state == [signIn[i] EXCEPT !.step = step]
<1>1. /\ state \in SignIn
      /\ state.step = step
      /\ state.user = signIn[i].user
      /\ state.flow = signIn[i].flow
      /\ state.deleted = signIn[i].deleted
  BY DEF TypeOK, SignIn
<1>2. signIn' = [signIn EXCEPT ![i] = state]
  BY DEF Goes
<1> HIDE DEF state
<1> QED BY <1>1, <1>2, SignInBecomes

\* A request obtains the nonce of a flow.
LEMMA GetsNonceStep ==
  ASSUME IInv, NEW i \in SignIns, NEW f \in Flows, GetsNonce(i, f)
  PROVE  IInv'
<1> DEFINE state == [signIn[i] EXCEPT !.step = "taking", !.flow = f]
<1>1. state.step = "taking" /\ state.flow = f /\ state.deleted = signIn[i].deleted
  BY DEF IInv, TypeOK, SignIn
<1>2. /\ signIn' \in [SignIns -> SignIn] /\ signIn'[i] = state
      /\ \A j \in SignIns \ {i} : signIn'[j] = signIn[j]
  <2>1. state \in SignIn
    BY DEF IInv, TypeOK, SignIn
  <2>2. signIn' = [signIn EXCEPT ![i] = state]
    BY DEF GetsNonce
  <2> HIDE DEF state
  <2> QED BY <2>1, <2>2, SignInBecomes DEF IInv
<1> HIDE DEF state
<1>3. TypeOK'
  BY <1>1, <1>2 DEF IInv, TypeOK, GetsNonce
<1>4. AuditFollowsSteps' /\ KeysFollowSteps' /\ SessionsAreAudited'
  BY <1>1, <1>2 DEF IInv, GetsNonce, At, Audited, AuditFollowsSteps, KeysFollowSteps, SessionsAreAudited
<1>5. DeletedIsGone'
  BY <1>1, <1>2 DEF IInv, GetsNonce, At, DeletedIsGone
<1> QED BY <1>3, <1>4, <1>5 DEF IInv

\* The provider answers, or a test session is asked for.
LEMMA UserStep ==
  ASSUME IInv, NEW i \in SignIns, NEW u \in Users, ExchangesCode(i, u) \/ AsksTestSession(i, u)
  PROVE  IInv'
<1>1. PICK step \in {"logging", "testing"} :
        /\ signIn' = [signIn EXCEPT ![i] = [signIn[i] EXCEPT !.step = step, !.user = u]]
        /\ step = "testing" => u \in TestUsers
        /\ signIn[i].step \in {"no", "exchanging"}
        /\ step = "logging" => signIn[i].step = "exchanging"
        /\ step = "testing" => signIn[i].step = "no"
        /\ UNCHANGED <<nonce, audit, session, oneTime, client>>
  BY DEF ExchangesCode, AsksTestSession, At
<1> DEFINE state == [signIn[i] EXCEPT !.step = step, !.user = u]
<1>2. /\ state.step = step /\ state.user = u
      /\ state.flow = signIn[i].flow /\ state.deleted = signIn[i].deleted
      /\ state \in SignIn
  BY DEF IInv, TypeOK, SignIn
<1>3. /\ signIn' \in [SignIns -> SignIn] /\ signIn'[i] = state
      /\ \A j \in SignIns \ {i} : signIn'[j] = signIn[j]
  BY <1>1, <1>2, SignInBecomes DEF IInv
<1> HIDE DEF state
<1>4. TypeOK'
  BY <1>1, <1>2, <1>3 DEF IInv, TypeOK
<1>5. AuditFollowsSteps' /\ KeysFollowSteps' /\ SessionsAreAudited'
  BY <1>1, <1>2, <1>3 DEF IInv, At, Audited, AuditFollowsSteps, KeysFollowSteps, SessionsAreAudited
<1>6. DeletedIsGone'
  BY <1>1, <1>2, <1>3 DEF IInv, At, DeletedIsGone
<1> QED BY <1>4, <1>5, <1>6 DEF IInv

\* A request deletes the nonce it has obtained.
LEMMA DeletesNonceStep ==
  ASSUME IInv, NEW i \in SignIns, DeletesNonce(i)
  PROVE  IInv'
<1>1. PICK reached \in BOOLEAN, answered \in BOOLEAN :
        /\ answered => reached
        /\ nonce' = IF reached THEN [nonce EXCEPT ![signIn[i].flow] = "gone"] ELSE nonce
        /\ signIn' = [signIn EXCEPT ![i] = [signIn[i] EXCEPT !.step = "exchanging", !.deleted = answered]]
  BY DEF DeletesNonce
<1> DEFINE state == [signIn[i] EXCEPT !.step = "exchanging", !.deleted = answered]
<1>2. /\ state.step = "exchanging" /\ state.deleted = answered
      /\ state.flow = signIn[i].flow /\ state.user = signIn[i].user
      /\ state \in SignIn
  BY DEF IInv, TypeOK, SignIn
<1>3. /\ signIn' \in [SignIns -> SignIn] /\ signIn'[i] = state
      /\ \A j \in SignIns \ {i} : signIn'[j] = signIn[j]
  BY <1>1, <1>2, SignInBecomes DEF IInv
<1> HIDE DEF state
<1>4. TypeOK'
  BY <1>1, <1>2, <1>3 DEF IInv, TypeOK, Key, DeletesNonce
<1>5. AuditFollowsSteps' /\ KeysFollowSteps' /\ SessionsAreAudited'
  BY <1>2, <1>3 DEF IInv, DeletesNonce, At, Audited, AuditFollowsSteps, KeysFollowSteps, SessionsAreAudited
<1>6. \A f \in Flows : nonce[f] = "gone" => nonce'[f] = "gone"
  BY <1>1 DEF IInv, TypeOK
<1>7. DeletedIsGone'
  BY <1>1, <1>2, <1>3, <1>6 DEF IInv, TypeOK, DeletesNonce, At, DeletedIsGone
<1> QED BY <1>4, <1>5, <1>7 DEF IInv

\* A sign-in goes to its next step, with an entry in the log, or fails.
LEMMA GoesStep ==
  ASSUME IInv, NEW i \in SignIns,
         \/ LogsExchange(i) \/ Verifies(i) \/ LogsVerification(i) \/ LogsTestSession(i)
         \/ SignInFails(i)
  PROVE  IInv'
<1>1. PICK step \in {"verifying", "verified", "audited", "failed"} :
        /\ Goes(i, step)
        /\ signIn[i].step \notin {"no", "taking"} \/ step = "failed"
        /\ signIn[i].step \notin {"no", "in", "failed"}
        /\ step \in {"verifying", "verified", "audited"} =>
             signIn[i].step \in {"logging", "verifying", "verified", "testing"}
        /\ step \in {"verifying", "verified"} => "exchange" \in audit'[i]
        /\ step = "audited" =>
             \/ "test" \in audit'[i] /\ signIn[i].user \in TestUsers
             \/ "exchange" \in audit'[i] /\ ("lollipop" \in audit'[i] \/ signIn[i].user \in TestUsers)
  BY DEF IInv, TypeOK, AuditFollowsSteps, At, Logs, LogsExchange, Verifies, LogsVerification,
         LogsTestSession, SignInFails
<1>2. /\ audit' \in [SignIns -> SUBSET Entry]
      /\ \A j \in SignIns : audit[j] \subseteq audit'[j]
      /\ UNCHANGED <<nonce, session, oneTime, client>>
  BY DEF IInv, TypeOK, Entry, Logs, LogsExchange, Verifies, LogsVerification, LogsTestSession,
         SignInFails
<1>3. /\ signIn' \in [SignIns -> SignIn]
      /\ signIn'[i].step = step
      /\ signIn'[i].user = signIn[i].user
      /\ signIn'[i].flow = signIn[i].flow
      /\ signIn'[i].deleted = signIn[i].deleted
      /\ \A j \in SignIns \ {i} : signIn'[j] = signIn[j]
  BY <1>1, SignInGoes DEF IInv
<1>4. TypeOK'
  BY <1>1, <1>2, <1>3 DEF IInv, TypeOK
<1>5. AuditFollowsSteps' /\ KeysFollowSteps' /\ SessionsAreAudited'
  BY <1>1, <1>2, <1>3 DEF IInv, At, Audited, AuditFollowsSteps, KeysFollowSteps, SessionsAreAudited
<1>6. DeletedIsGone'
  BY <1>1, <1>2, <1>3 DEF IInv, At, DeletedIsGone
<1> QED BY <1>4, <1>5, <1>6 DEF IInv

\* A sign-in stores its session, then its one-time id.
LEMMA StoresStep ==
  ASSUME IInv, NEW i \in SignIns, StoresSession(i) \/ StoresOneTimeId(i)
  PROVE  IInv'
<1>1. PICK step \in {"stored", "in"} :
        /\ Goes(i, step)
        /\ signIn[i].step = IF step = "stored" THEN "audited" ELSE "stored"
        /\ session' = IF step = "stored" THEN [session EXCEPT ![i] = "stored"] ELSE session
        /\ oneTime' = IF step = "in" THEN [oneTime EXCEPT ![i] = "stored"] ELSE oneTime
        /\ UNCHANGED <<nonce, audit, client>>
  BY DEF StoresSession, StoresOneTimeId, At
<1>2. /\ signIn' \in [SignIns -> SignIn]
      /\ signIn'[i].step = step
      /\ signIn'[i].user = signIn[i].user
      /\ signIn'[i].flow = signIn[i].flow
      /\ signIn'[i].deleted = signIn[i].deleted
      /\ \A j \in SignIns \ {i} : signIn'[j] = signIn[j]
  BY <1>1, SignInGoes DEF IInv
<1>3. TypeOK'
  BY <1>1, <1>2 DEF IInv, TypeOK, Key
<1>4. AuditFollowsSteps'
  BY <1>1, <1>2 DEF IInv, At, Audited, AuditFollowsSteps
<1>5. KeysFollowSteps'
  BY <1>1, <1>2 DEF IInv, TypeOK, KeysFollowSteps
<1>6. SessionsAreAudited'
  BY <1>1, <1>2 DEF IInv, TypeOK, At, Audited, AuditFollowsSteps, KeysFollowSteps, SessionsAreAudited
<1>7. DeletedIsGone'
  BY <1>1, <1>2 DEF IInv, TypeOK, At, KeysFollowSteps, DeletedIsGone
<1> QED BY <1>3, <1>4, <1>5, <1>6, <1>7 DEF IInv

\* A flow is opened, or a key expires.
LEMMA KeyStep ==
  ASSUME IInv,
         \/ \E f \in Flows : InitiateAuth(f) \/ NonceExpires(f)
         \/ \E i \in SignIns : SessionExpires(i) \/ OneTimeIdExpires(i)
  PROVE  IInv'
<1>1. /\ UNCHANGED <<signIn, audit, client>>
      /\ nonce' \in [Flows -> Key] /\ session' \in [SignIns -> Key] /\ oneTime' \in [SignIns -> Key]
      /\ \A f \in Flows : nonce[f] = "gone" => nonce'[f] = "gone"
      /\ \A i \in SignIns : /\ session'[i] = "none" <=> session[i] = "none"
                            /\ oneTime'[i] = "none" <=> oneTime[i] = "none"
                            /\ oneTime[i] = "gone" => oneTime'[i] = "gone"
  BY DEF IInv, TypeOK, Key, InitiateAuth, NonceExpires, SessionExpires, OneTimeIdExpires
<1> QED
  BY <1>1 DEF IInv, TypeOK, At, Audited, AuditFollowsSteps, KeysFollowSteps,
              SessionsAreAudited, DeletedIsGone

\* A request exchanges a one-time id.
LEMMA ClientStep ==
  ASSUME IInv, NEW c \in Clients,
         \/ \E i \in SignIns : GetsToken(c, i)
         \/ DeletesOneTimeId(c) \/ ExchangeFails(c)
  PROVE  IInv'
<1> USE DEF IInv
<1>1. TypeOK'
  BY DEF TypeOK, Client, Key, GetsToken, DeletesOneTimeId, ExchangeFails
<1>2. /\ UNCHANGED <<nonce, signIn, audit, session>>
      /\ \A i \in SignIns : /\ oneTime'[i] = "none" => oneTime[i] = "none"
                            /\ oneTime'[i] # "none" => oneTime[i] # "none"
                            /\ oneTime[i] = "gone" => oneTime'[i] = "gone"
  BY DEF TypeOK, DeletedIsGone, GetsToken, DeletesOneTimeId, ExchangeFails
<1>3. AuditFollowsSteps' /\ KeysFollowSteps' /\ SessionsAreAudited'
  BY <1>2 DEF At, Audited, AuditFollowsSteps, KeysFollowSteps, SessionsAreAudited
<1>4. \A d \in Clients : client'[d].deleted =>
        /\ client'[d].step = "done" /\ client'[d].id \in SignIns /\ oneTime'[client'[d].id] = "gone"
  BY <1>2 DEF TypeOK, Client, DeletedIsGone, GetsToken, DeletesOneTimeId, ExchangeFails
<1>5. \A d \in Clients : client'[d].step = "taking" =>
        /\ client'[d].id \in SignIns /\ oneTime'[client'[d].id] # "none"
  BY <1>2 DEF TypeOK, Client, DeletedIsGone, GetsToken, DeletesOneTimeId, ExchangeFails
<1>6. DeletedIsGone'
  BY <1>2, <1>4, <1>5 DEF At, DeletedIsGone
<1> QED BY <1>1, <1>3, <1>6

\* A step of the sign-ins, of the exchanges or of the store preserves the
\* invariant.
LEMMA InvStep == ASSUME IInv, Next PROVE IInv'
BY GetsNonceStep, UserStep, DeletesNonceStep, GoesStep, StoresStep, KeyStep, ClientStep DEF Next

\* The invariant holds in every state of the program.
LEMMA Invariance == Spec => []IInv
<1>1. Init => IInv
  BY TestUsersAssumption
  DEF Init, IInv, TypeOK, SignIn, Client, Key, Entry, At, Audited,
      AuditFollowsSteps, KeysFollowSteps, SessionsAreAudited, DeletedIsGone
<1>2. IInv /\ [Next]_vars => IInv'
  <2>1. CASE Next
    BY <2>1, InvStep
  <2>2. CASE UNCHANGED vars
    BY <2>2 DEF vars, IInv, TypeOK, At, Audited, AuditFollowsSteps, KeysFollowSteps,
                SessionsAreAudited, DeletedIsGone
  <2> QED BY <2>1, <2>2
<1> QED BY <1>1, <1>2, PTL DEF Spec

(***************************************************************************)
(* Theorems.                                                               *)
(***************************************************************************)
\* The keys, the sign-ins, the audit log and the exchanges have their types,
\* and the user of an exchanged code is a citizen.
THEOREM TypeCorrect == Spec => []TypeOK
<1>1. IInv => TypeOK
  BY DEF IInv
<1> QED BY <1>1, Invariance, PTL

\* No session, and no one-time id, exists for a sign-in that is not in the
\* audit log.
THEOREM AlwaysAudited == Spec => []SessionsAreAudited
<1>1. IInv => SessionsAreAudited
  BY DEF IInv
<1> QED BY <1>1, Invariance, PTL

\* A nonce or a one-time id whose deletion was confirmed is never obtained
\* again.
THEOREM UsedOnce == Spec => OneShot
<1> DEFINE NonceOnce ==
      \A i, j \in SignIns :
        /\ signIn[i].deleted /\ At(j, "no") /\ signIn'[j].step = "taking"
        => signIn'[j].flow # signIn[i].flow
<1> DEFINE IdOnce ==
      \A c, d \in Clients :
        /\ client[c].deleted /\ client[d].step = "no" /\ client'[d].step = "taking"
        => client'[d].id # client[c].id
<1>1. ASSUME IInv, Next PROVE NonceOnce
  <2> SUFFICES ASSUME NEW i \in SignIns, NEW j \in SignIns,
                      signIn[i].deleted, At(j, "no"), signIn'[j].step = "taking"
               PROVE  signIn'[j].flow # signIn[i].flow
    OBVIOUS
  <2>1. \E f \in Flows : GetsNonce(j, f)
    <3>1. \A k \in SignIns, step \in {"verifying", "verified", "audited", "stored", "in", "failed"} :
            ~Goes(k, step)
      BY <1>1, SignInGoes DEF IInv, At
    <3>2. \A k \in SignIns, u \in Users : ~ExchangesCode(k, u) /\ ~AsksTestSession(k, u)
      BY <1>1 DEF IInv, TypeOK, SignIn, At, ExchangesCode, AsksTestSession
    <3>3. \A k \in SignIns : ~DeletesNonce(k)
      BY <1>1 DEF IInv, TypeOK, SignIn, At, DeletesNonce
    <3>4. signIn' # signIn
      BY DEF At
    <3>5. \A k \in SignIns, f \in Flows : GetsNonce(k, f) => k = j
      BY <1>1 DEF IInv, TypeOK, At, GetsNonce
    <3> QED
      BY <1>1, <3>1, <3>2, <3>3, <3>4, <3>5
      DEF Next, InitiateAuth, NonceExpires, LogsExchange, Verifies, LogsVerification,
          LogsTestSession, StoresSession, StoresOneTimeId, SignInFails, SessionExpires,
          OneTimeIdExpires, GetsToken, DeletesOneTimeId, ExchangeFails
  <2>2. nonce[signIn[i].flow] = "gone"
    BY <1>1 DEF IInv, DeletedIsGone
  <2> QED BY <1>1, <2>1, <2>2 DEF IInv, TypeOK, SignIn, GetsNonce
<1>2. ASSUME IInv, Next PROVE IdOnce
  <2> SUFFICES ASSUME NEW c \in Clients, NEW d \in Clients,
                      client[c].deleted, client[d].step = "no", client'[d].step = "taking"
               PROVE  client'[d].id # client[c].id
    OBVIOUS
  <2>1. \E i \in SignIns : GetsToken(d, i)
    BY <1>2 DEF IInv, TypeOK, Client, Next, InitiateAuth, NonceExpires, GetsNonce,
                ExchangesCode, AsksTestSession, DeletesNonce, LogsExchange, Verifies,
                LogsVerification, LogsTestSession, StoresSession, StoresOneTimeId, SignInFails,
                SessionExpires, OneTimeIdExpires, GetsToken, DeletesOneTimeId, ExchangeFails
  <2>2. oneTime[client[c].id] = "gone"
    BY <1>2 DEF IInv, DeletedIsGone
  <2> QED BY <1>2, <2>1, <2>2 DEF IInv, TypeOK, Client, GetsToken
<1>3. IInv /\ [Next]_vars => [NonceOnce /\ IdOnce]_vars
  BY <1>1, <1>2
<1> QED BY <1>3, Invariance, PTL DEF Spec, OneShot
===============================================================================
