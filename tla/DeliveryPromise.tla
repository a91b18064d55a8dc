-------------------------- MODULE DeliveryPromise --------------------------
(***************************************************************************)
(* What queued delivery promises for every recipient (the "Delivery        *)
(* guarantees" in the header of src/src/lib/message-email.ts), with the    *)
(* price of trouble made explicit: a crash, a database error, a lost job   *)
(* or a lost SMTP answer.                                                  *)
(*                                                                         *)
(* Without trouble a row opens once, the e-mail is accepted at most once,  *)
(* SENT is recorded only for an accepted e-mail, FAILED only for one that  *)
(* never was, and an outcome is final.  Every trouble may cost one more    *)
(* e-mail, and after it a row may be closed as FAILED too early, or        *)
(* recorded anew; but SENT still tells of an accepted e-mail, and nobody   *)
(* is mailed again whose history says SENT.                                *)
(***************************************************************************)
EXTENDS Naturals

CONSTANT Rows

VARIABLES outcome,  \* what the teacher's history says of the recipient
          mails,    \* e-mails the recipient got
          trouble   \* what went wrong so far

vars == <<outcome, mails, trouble>>

Init ==
  /\ outcome = [d \in Rows |-> "ABSENT"]
  /\ mails = [d \in Rows |-> 0]
  /\ trouble = 0

Open ==
  /\ \A d \in Rows : outcome[d] = "ABSENT"
  /\ outcome' = [d \in Rows |-> "PENDING"]
  /\ UNCHANGED <<mails, trouble>>

\* Still to be told; after trouble also a row that was closed too early.
Unsettled(d) == \/ outcome[d] = "PENDING"
                \/ outcome[d] = "FAILED" /\ trouble > 0

\* A recipient deleted in mid-send may still get the e-mail.
Mail(d) ==
  /\ Unsettled(d) \/ outcome[d] = "GONE"
  /\ mails[d] <= trouble
  /\ mails' = [mails EXCEPT ![d] = @ + 1]
  /\ UNCHANGED <<outcome, trouble>>

Settle(d) ==
  /\ Unsettled(d)
  /\ \/ mails[d] > 0 /\ outcome' = [outcome EXCEPT ![d] = "SENT"]
     \/ /\ mails[d] = 0 \/ trouble > 0
        /\ outcome' = [outcome EXCEPT ![d] = "FAILED"]
  /\ UNCHANGED <<mails, trouble>>

\* After trouble, rows whose attempts seem used up are closed.
GiveUp(S) ==
  /\ trouble > 0 /\ \A d \in S : outcome[d] \in {"PENDING", "SENT", "FAILED"}
  /\ outcome' = [d \in Rows |-> IF d \in S THEN "FAILED" ELSE outcome[d]]
  /\ UNCHANGED <<mails, trouble>>

\* Nobody is mailed, or one e-mail whose acceptance nobody hears of.
Trouble ==
  /\ trouble' = trouble + 1
  /\ UNCHANGED outcome
  /\ \/ UNCHANGED mails
     \/ \E d \in Rows :
          /\ Unsettled(d) \/ outcome[d] = "GONE"
          /\ mails[d] <= trouble
          /\ mails' = [mails EXCEPT ![d] = @ + 1]

Delete ==
  /\ \A d \in Rows : outcome[d] # "ABSENT"
  /\ outcome' = [d \in Rows |-> "GONE"]
  /\ UNCHANGED <<mails, trouble>>

Next == \/ Open \/ Delete \/ Trouble
        \/ \E d \in Rows : Mail(d) \/ Settle(d)
        \/ \E S \in SUBSET Rows : GiveUp(S)

Spec == Init /\ [][Next]_vars
=============================================================================
