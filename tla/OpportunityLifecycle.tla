-------------------------- MODULE OpportunityLifecycle --------------------------
(***************************************************************************)
(* What the portal promises about one opportunity, whoever asks and in     *)
(* whatever order: the statuses it goes through and when the benefit on    *)
(* offer may change.  Opportunity implements it.                           *)
(***************************************************************************)
CONSTANT Benefits

VARIABLES status, offer

Create == status = "absent" /\ status' = "draft" /\ offer' \in Benefits

\* Only what the department is not looking at and citizens cannot see is
\* edited freely.
Edit == status \in {"draft", "test_rejected"} /\ status' = status /\ offer' \in Benefits

Submit == status \in {"draft", "test_rejected"} /\ status' = "test_pending" /\ offer' = offer

AskChanges == status = "test_pending" /\ status' = "test_rejected" /\ offer' = offer

Approve ==
  status \in {"test_pending", "test_rejected"} /\ status' = "published" /\ offer' = offer

Suspend == status = "published" /\ status' = "suspended" /\ offer' = offer

Republish == status = "suspended" /\ status' = "published" /\ offer' = offer

\* Another benefit for an approved opportunity goes through review again.
Amend ==
  /\ status \in {"published", "suspended"}
  /\ status' = "test_pending"
  /\ offer' \in Benefits \ {offer}

Delete ==
  /\ status \in {"draft", "test_rejected", "published", "suspended"}
  /\ status' = "deleted"
  /\ offer' = offer

Init == status = "absent" /\ offer \in Benefits

Next ==
  Create \/ Edit \/ Submit \/ AskChanges \/ Approve \/ Suspend \/ Republish \/ Amend \/ Delete

Spec == Init /\ [][Next]_<<status, offer>>
===============================================================================
