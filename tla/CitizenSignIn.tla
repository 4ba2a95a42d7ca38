------------------------------ MODULE CitizenSignIn ------------------------------
(***************************************************************************)
(* How a citizen signs in with FIMS, to ced-browser-be and to              *)
(* ced-card-request-be: initiateAuth stores a nonce, the callback takes it *)
(* and exchanges the code for the user, the exchange and its verification  *)
(* are audited, a session and a one-time id are stored, and the id is      *)
(* exchanged for the session's token.                                      *)
(*                                                                         *)
(* What must be used once is read and then deleted, in two commands: the   *)
(* requests of a callback or of an exchange that is repeated interleave    *)
(* between them, every call can fail, the answer of a deletion is ignored, *)
(* and any key may expire.                                                 *)
(***************************************************************************)
CONSTANTS
  Flows,      \* the states initiateAuth hands out
  SignIns,    \* the callbacks and the test sign-ins: each names its session
  Users,      \* the citizens
  TestUsers,  \* config.testUsers
  Clients,    \* the requests that exchange a one-time id
  None        \* no flow, no user, no id

ASSUME TestUsersAssumption == TestUsers \subseteq Users
ASSUME NoneAssumption == None \notin Flows \cup Users \cup SignIns

VARIABLES
  nonce,    \* the key nonce:state of each flow
  signIn,   \* the state of each sign-in
  audit,    \* the audit log: the entries of each sign-in
  session,  \* the session of each sign-in
  oneTime,  \* the key otp:id of each sign-in
  client    \* the state of each exchange

vars == <<nonce, signIn, audit, session, oneTime, client>>

Key == {"none", "stored", "gone"}

Entry == {"exchange", "lollipop", "test"}

\* deleted: the store has answered that it deleted the key.
SignIn == [step : {"no", "taking", "exchanging", "logging", "verifying", "verified",
                   "testing", "audited", "stored", "in", "failed"},
           flow : Flows \cup {None}, user : Users \cup {None}, deleted : BOOLEAN]

Client == [step : {"no", "taking", "done", "failed"}, id : SignIns \cup {None},
           deleted : BOOLEAN]

At(i, step) == signIn[i].step = step

Goes(i, step) == signIn' = [signIn EXCEPT ![i].step = step]

Logs(i, entry) == audit' = [audit EXCEPT ![i] = @ \cup {entry}]

(***************************************************************************)
(* initiateAuth.                                                           *)
(***************************************************************************)
InitiateAuth(f) ==
  /\ nonce[f] = "none"
  /\ nonce' = [nonce EXCEPT ![f] = "stored"]
  /\ UNCHANGED <<signIn, audit, session, oneTime, client>>

(***************************************************************************)
(* handleCallback.                                                         *)
(***************************************************************************)
\* A callback without its nonce, or from another issuer, is turned away.
GetsNonce(i, f) ==
  /\ At(i, "no")
  /\ nonce[f] = "stored"
  /\ signIn' = [signIn EXCEPT ![i].step = "taking", ![i].flow = f]
  /\ UNCHANGED <<nonce, audit, session, oneTime, client>>

\* A slip: the key is named without its prefix.
DeletesOtherNonce(i) ==
  /\ At(i, "taking")
  /\ \E answered \in BOOLEAN :
       signIn' = [signIn EXCEPT ![i].step = "exchanging", ![i].deleted = answered]
  /\ UNCHANGED <<nonce, audit, session, oneTime, client>>

\* The deletion may fail, or be carried out and its answer be lost.
DeletesNonce(i) ==
  /\ At(i, "taking")
  /\ \E reached, answered \in BOOLEAN :
       /\ answered => reached
       /\ nonce' = IF reached THEN [nonce EXCEPT ![signIn[i].flow] = "gone"] ELSE nonce
       /\ signIn' = [signIn EXCEPT ![i].step = "exchanging", ![i].deleted = answered]
  /\ UNCHANGED <<audit, session, oneTime, client>>

\* A slip: the provider's failure is taken for an answer.
ExchangesCodeUnchecked(i, u) ==
  /\ At(i, "exchanging")
  /\ \E answer \in {u, None} :
       signIn' = [signIn EXCEPT ![i].step = "logging", ![i].user = answer]
  /\ UNCHANGED <<nonce, audit, session, oneTime, client>>

\* The provider answers with the user of the code.
ExchangesCode(i, u) ==
  /\ At(i, "exchanging")
  /\ signIn' = [signIn EXCEPT ![i].step = "logging", ![i].user = u]
  /\ UNCHANGED <<nonce, audit, session, oneTime, client>>

\* A slip: a failure of the log does not stop the sign-in.
LogsExchangeIfPossible(i) ==
  /\ At(i, "logging")
  /\ Goes(i, IF signIn[i].user \in TestUsers THEN "audited" ELSE "verifying")
  /\ Logs(i, "exchange") \/ audit' = audit
  /\ UNCHANGED <<nonce, session, oneTime, client>>

\* The verification is skipped for test users.
LogsExchange(i) ==
  /\ At(i, "logging")
  /\ Logs(i, "exchange")
  /\ Goes(i, IF signIn[i].user \in TestUsers THEN "audited" ELSE "verifying")
  /\ UNCHANGED <<nonce, session, oneTime, client>>

Verifies(i) ==
  /\ At(i, "verifying")
  /\ Goes(i, "verified")
  /\ UNCHANGED <<nonce, audit, session, oneTime, client>>

LogsVerification(i) ==
  /\ At(i, "verified")
  /\ Logs(i, "lollipop")
  /\ Goes(i, "audited")
  /\ UNCHANGED <<nonce, session, oneTime, client>>

(***************************************************************************)
(* createTestSession.                                                      *)
(***************************************************************************)
AsksTestSession(i, u) ==
  /\ At(i, "no")
  /\ u \in TestUsers
  /\ signIn' = [signIn EXCEPT ![i].step = "testing", ![i].user = u]
  /\ UNCHANGED <<nonce, audit, session, oneTime, client>>

LogsTestSession(i) ==
  /\ At(i, "testing")
  /\ Logs(i, "test")
  /\ Goes(i, "audited")
  /\ UNCHANGED <<nonce, session, oneTime, client>>

(***************************************************************************)
(* buildSessionAndRedirect.                                                *)
(***************************************************************************)
StoresSession(i) ==
  /\ At(i, "audited")
  /\ session' = [session EXCEPT ![i] = "stored"]
  /\ Goes(i, "stored")
  /\ UNCHANGED <<nonce, audit, oneTime, client>>

StoresOneTimeId(i) ==
  /\ At(i, "stored")
  /\ oneTime' = [oneTime EXCEPT ![i] = "stored"]
  /\ Goes(i, "in")
  /\ UNCHANGED <<nonce, audit, session, client>>

\* A call fails, or the process crashes, after any of the steps above.
SignInFails(i) ==
  /\ signIn[i].step \notin {"no", "in", "failed"}
  /\ Goes(i, "failed")
  /\ UNCHANGED <<nonce, audit, session, oneTime, client>>

(***************************************************************************)
(* exchangeSessionId.                                                      *)
(***************************************************************************)
GetsToken(c, i) ==
  /\ client[c].step = "no"
  /\ oneTime[i] = "stored"
  /\ client' = [client EXCEPT ![c].step = "taking", ![c].id = i]
  /\ UNCHANGED <<nonce, signIn, audit, session, oneTime>>

DeletesOneTimeId(c) ==
  /\ client[c].step = "taking"
  /\ \E reached, answered \in BOOLEAN :
       /\ answered => reached
       /\ oneTime' = IF reached THEN [oneTime EXCEPT ![client[c].id] = "gone"] ELSE oneTime
       /\ client' = [client EXCEPT ![c].step = "done", ![c].deleted = answered]
  /\ UNCHANGED <<nonce, signIn, audit, session>>

ExchangeFails(c) ==
  /\ client[c].step = "taking"
  /\ client' = [client EXCEPT ![c].step = "failed"]
  /\ UNCHANGED <<nonce, signIn, audit, session, oneTime>>

(***************************************************************************)
(* The keys expire.                                                        *)
(***************************************************************************)
NonceExpires(f) ==
  /\ nonce[f] = "stored"
  /\ nonce' = [nonce EXCEPT ![f] = "gone"]
  /\ UNCHANGED <<signIn, audit, session, oneTime, client>>

SessionExpires(i) ==
  /\ session[i] = "stored"
  /\ session' = [session EXCEPT ![i] = "gone"]
  /\ UNCHANGED <<nonce, signIn, audit, oneTime, client>>

OneTimeIdExpires(i) ==
  /\ oneTime[i] = "stored"
  /\ oneTime' = [oneTime EXCEPT ![i] = "gone"]
  /\ UNCHANGED <<nonce, signIn, audit, session, client>>

Init ==
  /\ nonce = [f \in Flows |-> "none"]
  /\ signIn = [i \in SignIns |-> [step |-> "no", flow |-> None, user |-> None, deleted |-> FALSE]]
  /\ audit = [i \in SignIns |-> {}]
  /\ session = [i \in SignIns |-> "none"]
  /\ oneTime = [i \in SignIns |-> "none"]
  /\ client = [c \in Clients |-> [step |-> "no", id |-> None, deleted |-> FALSE]]

Next ==
  \/ \E f \in Flows : InitiateAuth(f) \/ NonceExpires(f)
  \/ \E i \in SignIns :
       \/ \E f \in Flows : GetsNonce(i, f)
       \/ \E u \in Users : ExchangesCode(i, u) \/ AsksTestSession(i, u)
       \/ DeletesNonce(i) \/ LogsExchange(i) \/ Verifies(i) \/ LogsVerification(i)
       \/ LogsTestSession(i) \/ StoresSession(i) \/ StoresOneTimeId(i) \/ SignInFails(i)
       \/ SessionExpires(i) \/ OneTimeIdExpires(i)
  \/ \E c \in Clients :
       \/ \E i \in SignIns : GetsToken(c, i)
       \/ DeletesOneTimeId(c) \/ ExchangeFails(c)

Spec == Init /\ [][Next]_vars

(***************************************************************************)
(* Properties.                                                             *)
(***************************************************************************)
\* The keys, the sign-ins, the audit log and the exchanges have their types, and
\* a sign-in its user once the code is exchanged.
TypeOK ==
  /\ nonce \in [Flows -> Key]
  /\ signIn \in [SignIns -> SignIn]
  /\ audit \in [SignIns -> SUBSET Entry]
  /\ session \in [SignIns -> Key]
  /\ oneTime \in [SignIns -> Key]
  /\ client \in [Clients -> Client]
  /\ \A i \in SignIns :
       signIn[i].step \in {"logging", "verifying", "verified", "testing", "audited", "stored", "in"}
       => signIn[i].user \in Users

Audited(i) ==
  \/ "test" \in audit[i] /\ signIn[i].user \in TestUsers
  \/ "exchange" \in audit[i] /\ ("lollipop" \in audit[i] \/ signIn[i].user \in TestUsers)

\* "failure is blocking (compliance requirement)": whichever call fails and
\* whenever the process stops, a session exists only if its sign-in is in the
\* audit log, verified unless it is a test user's, and a one-time id only for a
\* session.
SessionsAreAudited ==
  \A i \in SignIns :
    /\ session[i] # "none" => Audited(i)
    /\ oneTime[i] # "none" => session[i] # "none"

\* "One-shot": what a request has deleted, no later request obtains.  A nonce
\* or a token is obtained twice only by requests that overlap, or when the
\* deletion failed.
OneShot ==
  [][/\ \A i, j \in SignIns :
          /\ signIn[i].deleted /\ At(j, "no") /\ signIn'[j].step = "taking"
          => signIn'[j].flow # signIn[i].flow
     /\ \A c, d \in Clients :
          /\ client[c].deleted /\ client[d].step = "no" /\ client'[d].step = "taking"
          => client'[d].id # client[c].id]_vars
===============================================================================
