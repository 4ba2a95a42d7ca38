------------------------------ MODULE StepAttempts ------------------------------
(***************************************************************************)
(* What the support record promises about the steps of an application,     *)
(* whatever requests, checks and failures meet: a new attempt at a step    *)
(* has a key of its own and resets the steps after it, the same attempt is *)
(* made again, under its key, until it is answered but not once it is      *)
(* completed, and only an attempt under way is answered.  SupportRecord    *)
(* implements it.                                                          *)
(***************************************************************************)
CONSTANTS Clients, NoClient, Keys, NoKey

VARIABLES
  attempt,  \* the last attempt at each step
  used      \* the keys attempts have had

vars == <<attempt, used>>

Step == {"draft", "photo", "confirm"}
After == [draft |-> {"photo", "confirm"}, photo |-> {"confirm"}, confirm |-> {}]

NoAttempt == [client |-> NoClient, key |-> NoKey, status |-> "none"]
Forgotten == [s \in Step |-> NoAttempt]

\* The steps before stay, unless the application was not known.
Begin(s, client, key) ==
  /\ key \notin used
  /\ used' = used \cup {key}
  /\ \E kept \in {{}, Step \ (After[s] \cup {s})} :
       attempt' = [t \in Step |->
                     IF t = s THEN [client |-> client, key |-> key, status |-> "PENDING"]
                     ELSE IF t \in kept THEN attempt[t] ELSE NoAttempt]

Repeat(s) ==
  /\ attempt[s].status \in {"PENDING", "FAILED"}
  /\ attempt' = [attempt EXCEPT ![s].status = "PENDING"]
  /\ used' = used

Answer(s, outcome) ==
  /\ attempt[s].status = "PENDING"
  /\ attempt' = [attempt EXCEPT ![s].status = outcome]
  /\ used' = used

Forget ==
  /\ attempt' = Forgotten
  /\ used' = used

Init == attempt = Forgotten /\ used = {}

Next ==
  \/ \E s \in Step :
       \/ \E client \in Clients, key \in Keys : Begin(s, client, key)
       \/ Repeat(s)
       \/ \E outcome \in {"COMPLETED", "FAILED"} : Answer(s, outcome)
  \/ Forget

Spec == Init /\ [][Next]_vars
===============================================================================
