----------------------------- MODULE OutboxDelivery -----------------------------
(***************************************************************************)
(* What the transactional outbox promises about each email, whatever runs  *)
(* of the job overlap, fail or are swept: there are at most MaxAttempts    *)
(* attempts, every attempt calls the provider once at most, an attempt     *)
(* whose acceptance is known is not tried again, only such an attempt is   *)
(* recorded as sent, and what is sent or given up stays so.  MessageOutbox *)
(* implements it.                                                          *)
(***************************************************************************)
EXTENDS Integers

CONSTANTS Messages, MaxAttempts

VARIABLES
  status,      \* what is recorded of each message
  attempts,    \* how many attempts each has had
  calling,     \* the messages whose last attempt is still to call the provider
  deliveries,  \* how many times the provider took each
  known        \* the messages known to have been taken

vars == <<status, attempts, calling, deliveries, known>>

Commit(m) ==
  /\ status[m] = "absent"
  /\ status' = [status EXCEPT ![m] = "pending"]
  /\ UNCHANGED <<attempts, calling, deliveries, known>>

Try(m) ==
  /\ status[m] = "pending" /\ attempts[m] < MaxAttempts
  /\ status' = [status EXCEPT ![m] = "sending"]
  /\ attempts' = [attempts EXCEPT ![m] = @ + 1]
  /\ calling' = calling \cup {m}
  /\ UNCHANGED <<deliveries, known>>

\* Also of a message that has been given up: the sweep cannot stop its run.
Call(m, taken, told) ==
  /\ m \in calling \ known
  /\ told => taken
  /\ calling' = calling \ {m}
  /\ deliveries' = [deliveries EXCEPT ![m] = IF taken THEN @ + 1 ELSE @]
  /\ known' = IF told THEN known \cup {m} ELSE known
  /\ UNCHANGED <<status, attempts>>

Abandon(m) ==
  /\ m \in calling
  /\ calling' = calling \ {m}
  /\ UNCHANGED <<status, attempts, deliveries, known>>

Succeed(m) ==
  /\ status[m] = "sending" /\ m \in known
  /\ status' = [status EXCEPT ![m] = "sent"]
  /\ UNCHANGED <<attempts, calling, deliveries, known>>

Retry(m) ==
  /\ status[m] = "sending" /\ m \notin calling \cup known
  /\ attempts[m] < MaxAttempts
  /\ status' = [status EXCEPT ![m] = "pending"]
  /\ UNCHANGED <<attempts, calling, deliveries, known>>

\* The last attempt failed, or a sweep found the attempts of M too old.
GiveUp(M) ==
  /\ \A m \in M : status[m] = "sending"
  /\ status' = [m \in Messages |-> IF m \in M THEN "failed" ELSE status[m]]
  /\ UNCHANGED <<attempts, calling, deliveries, known>>

Init ==
  /\ status = [m \in Messages |-> "absent"]
  /\ attempts = [m \in Messages |-> 0]
  /\ calling = {}
  /\ deliveries = [m \in Messages |-> 0]
  /\ known = {}

Next ==
  \/ \E m \in Messages :
       \/ Commit(m) \/ Try(m) \/ Abandon(m) \/ Succeed(m) \/ Retry(m)
       \/ \E taken, told \in BOOLEAN : Call(m, taken, told)
  \/ \E M \in SUBSET Messages : GiveUp(M)

Spec == Init /\ [][Next]_vars
===============================================================================
