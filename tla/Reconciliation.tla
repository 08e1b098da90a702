--------------------------- MODULE Reconciliation ---------------------------
(***************************************************************************)
(* The reconciliation job: Stripe changes a payment intent and reports     *)
(* every change by an event; the webhook endpoint receives some of the     *)
(* events, in any order; the job replays those that Stripe could not       *)
(* deliver, compares the two statuses and cancels stale intents.           *)
(*                                                                         *)
(* Source: src/functions/form-payment-reconciliation/index.js (the job)    *)
(* and, under src/src/app/modules/payments, stripe.controller.ts,          *)
(* stripe.service.ts and payments.service.ts (the endpoints it calls).     *)
(*                                                                         *)
(* One payment and its intent are followed. The handler of an event is one *)
(* step here: PaymentLedger, which StripeEvents implements, says that it   *)
(* is atomic. Stripe, modelled from how the code uses it, is external: an  *)
(* intent is tried until a charge succeeds or it is canceled.              *)
(***************************************************************************)
EXTENDS PaymentState, FiniteSetsExt

CONSTANTS MaxIssued,    \* bound: events Stripe issues
          MaxFaults,    \* bound: failures of the job and of what it calls
          MaxExpired,   \* bound: events that become older than maxAgeHrs
          MinGap        \* least number of seconds between two events

ASSUME ReconciliationBounds ==
    /\ MaxIssued \in Nat /\ MaxFaults \in Nat /\ MaxExpired \in Nat
    /\ MinGap \in {0, 1}

VARIABLES
    intent,        \* the payment intent at Stripe
    issued,        \* the events Stripe has issued, in their order
    undelivered,   \* events of which Stripe has no acknowledgement
    expired,       \* how many events, the oldest, the job no longer asks for
    payment,       \* the payment document, as of the primary
    replica,       \* the status of the payment on a secondary
    old,           \* the intent is more than 30 minutes old
    job,           \* the await the job is at
    queue,         \* events the job has still to replay
    seen,          \* the status the job has read from a secondary
    faults         \* history: failures so far

vars == <<intent, issued, undelivered, expired, payment, replica, old,
          job, queue, seen, faults>>

stripe == <<intent, issued, undelivered>>

Incomplete == {"Pending", "Failed"}

Complete == {"Succeeded", "PartiallyRefunded", "FullyRefunded", "Disputed"}

IntentStatus == {"requires", "processing", "succeeded", "canceled"}

JobStates == {"idle", "list", "replay", "compare", "cancel"}

Init ==
    /\ intent = [status |-> "requires", charge |-> NoCharge, refund |-> "none",
                 disputed |-> FALSE]
    /\ issued = <<>>
    /\ undelivered = {}
    /\ expired = 0
    /\ payment = NewPayment
    /\ replica = "Pending"
    /\ old = FALSE
    /\ job = "idle"
    /\ queue = <<>>
    /\ seen = "Pending"
    /\ faults = 0

-----------------------------------------------------------------------------
(* Stripe.                                                                  *)

\* Stripe issues the next event, MinGap seconds or more after the last one.
Issue(type, charge, full) ==
    /\ Len(issued) < MaxIssued
    /\ \E gap \in MinGap .. 1 :
          LET now == gap + IF issued = <<>> THEN 0 ELSE Last(issued).created
          IN  issued' = Append(issued,
                               [id      |-> Len(issued) + 1, type   |-> type,
                                created |-> now,             charge |-> charge,
                                full    |-> full,            payout |-> NoPayout])
    /\ undelivered' = undelivered \cup {Len(issued) + 1}

\* Charges are numbered by the events that create them.
NewCharge == Len(issued) + 1

\* The payer tries to pay: the charge fails, is pending, or succeeds.
TryCharge ==
    /\ intent.status = "requires"
    /\ \E outcome \in {"charge.failed", "charge.pending", "charge.succeeded"} :
          /\ Issue(outcome, NewCharge, FALSE)
          /\ intent' = [intent EXCEPT
                !.charge = NewCharge,
                !.status = CASE outcome = "charge.failed"    -> "requires"
                             [] outcome = "charge.pending"   -> "processing"
                             [] outcome = "charge.succeeded" -> "succeeded"]
    /\ UNCHANGED <<expired, payment, replica, old, job, queue, seen, faults>>

SettleCharge ==
    /\ intent.status = "processing"
    /\ \E outcome \in {"charge.failed", "charge.succeeded"} :
          /\ Issue(outcome, intent.charge, FALSE)
          /\ intent' = [intent EXCEPT
                !.status = IF outcome = "charge.failed" THEN "requires"
                                                        ELSE "succeeded"]
    /\ UNCHANGED <<expired, payment, replica, old, job, queue, seen, faults>>

Refund ==
    /\ intent.status = "succeeded"
    /\ intent.refund # "full"
    /\ \E full \in BOOLEAN :
          /\ Issue("charge.refunded", intent.charge, full)
          /\ intent' = [intent EXCEPT !.refund = IF full THEN "full" ELSE "part"]
    /\ UNCHANGED <<expired, payment, replica, old, job, queue, seen, faults>>

Dispute ==
    /\ intent.status = "succeeded"
    /\ Issue(IF intent.disputed THEN "charge.dispute.closed"
                                ELSE "charge.dispute.created",
             intent.charge, FALSE)
    /\ intent' = [intent EXCEPT !.disputed = ~@]
    /\ UNCHANGED <<expired, payment, replica, old, job, queue, seen, faults>>

\* The webhook endpoint receives an event. Its answer may be lost: then
\* Stripe delivers the event again, until it gives up.
Receive(i) ==
    /\ i \in undelivered
    /\ payment' = IF IsDuplicate(payment, issued[i]) THEN payment
                  ELSE Process(payment, issued[i])
    /\ \E acked \in BOOLEAN :
          undelivered' = IF acked THEN undelivered \ {i} ELSE undelivered
    /\ UNCHANGED <<intent, issued, expired, replica, old, job, queue, seen,
                   faults>>

-----------------------------------------------------------------------------
(* The environment.                                                         *)

Replicate ==
    /\ replica' = payment.status
    /\ UNCHANGED <<stripe, expired, payment, old, job, queue, seen, faults>>

GrowOld ==
    /\ ~old
    /\ old' = TRUE
    /\ UNCHANGED <<stripe, expired, payment, replica, job, queue, seen, faults>>

\* The oldest event of those the job asks for becomes older than maxAgeHrs.
Expire ==
    /\ old
    /\ expired < MaxExpired /\ expired < Len(issued)
    /\ expired' = expired + 1
    /\ UNCHANGED <<stripe, payment, replica, old, job, queue, seen, faults>>

Fault == faults < MaxFaults /\ faults' = faults + 1

-----------------------------------------------------------------------------
(* The job.                                                                 *)

\* Mutant of JobStarts: payments that have failed are not retrieved.
JobStartsPending ==
    /\ job = "idle"
    /\ replica = "Pending"
    /\ job' = "list"
    /\ UNCHANGED <<stripe, expired, payment, replica, old, queue, seen, faults>>

\* The job finds the payment among the incomplete ones of a secondary.
JobStarts ==
    /\ job = "idle"
    /\ replica \in Incomplete
    /\ job' = "list"
    /\ UNCHANGED <<stripe, expired, payment, replica, old, queue, seen, faults>>

\* Stripe lists the events it has not delivered, the newest first.
JobLists ==
    /\ job = "list"
    /\ job' = "replay"
    /\ LET listed == undelivered \ 1 .. expired
       IN  \E events \in [1 .. Cardinality(listed) -> listed] :
              /\ \A i, j \in DOMAIN events : i < j => events[i] > events[j]
              /\ queue' = events
    /\ UNCHANGED <<stripe, expired, payment, replica, old, seen, faults>>

\* An event is handled as if Stripe had delivered it. Stripe is not told. An
\* error is reported, and the next event follows.
JobReplays ==
    /\ job = "replay" /\ queue # <<>>
    /\ queue' = Tail(queue)
    /\ \/ Fault /\ UNCHANGED payment
       \/ /\ payment' = IF IsDuplicate(payment, issued[Head(queue)])
                        THEN payment
                        ELSE Process(payment, issued[Head(queue)])
          /\ UNCHANGED faults
    /\ UNCHANGED <<stripe, expired, replica, old, job, seen>>

\* The payment is read from a secondary, then the intent from Stripe.
JobReads ==
    /\ job = "replay" /\ queue = <<>>
    /\ seen' = replica
    /\ job' = "compare"
    /\ UNCHANGED <<stripe, expired, payment, replica, old, queue, faults>>

\* Mutant of Agree: a failed payment is not incomplete.
AgreeUnlessPending(stripeStatus, status) ==
    CASE stripeStatus = "requires"   -> status = "Pending"
      [] stripeStatus = "succeeded"  -> status # "Pending"
      [] stripeStatus = "canceled"   -> status = "Canceled"
      [] stripeStatus = "processing" -> TRUE

\* The status of the payment is one the status of the intent allows.
Agree(stripeStatus, status) ==
    CASE stripeStatus = "requires"   -> status \in Incomplete
      [] stripeStatus = "succeeded"  -> status \in Complete
      [] stripeStatus = "canceled"   -> status = "Canceled"
      [] stripeStatus = "processing" -> TRUE

Stale == intent.status = "requires" /\ old /\ Agree("requires", seen)

\* A mismatch is reported for manual investigation; nothing is changed.
JobCompares(match) ==
    /\ job = "compare"
    /\ ~Stale
    /\ match = Agree(intent.status, seen)
    /\ job' = "idle"
    /\ seen' = "Pending"
    /\ UNCHANGED <<stripe, expired, payment, replica, old, queue, faults>>

JobReportsMatch    == JobCompares(TRUE)
JobReportsMismatch == JobCompares(FALSE)

\* Both sides say that the stale payment is incomplete.
JobDecidesToCancel ==
    /\ job = "compare"
    /\ Stale
    /\ job' = "cancel"
    /\ UNCHANGED <<stripe, expired, payment, replica, old, queue, seen, faults>>

\* Stripe cancels the intent.
JobCancels ==
    /\ job = "cancel"
    /\ intent.status = "requires"
    /\ Issue("payment_intent.canceled", intent.charge, FALSE)
    /\ intent' = [intent EXCEPT !.status = "canceled"]
    /\ job' = "idle"
    /\ seen' = "Pending"
    /\ UNCHANGED <<expired, payment, replica, old, queue, faults>>

\* Stripe refuses: the payer has been faster.
JobCancelRefused ==
    /\ job = "cancel"
    /\ intent.status # "requires"
    /\ job' = "idle"
    /\ seen' = "Pending"
    /\ UNCHANGED <<stripe, expired, payment, replica, old, queue, faults>>

\* A call to Stripe or to FormSG fails, or the job is stopped.
JobFails ==
    /\ job # "idle"
    /\ Fault
    /\ job' = "idle"
    /\ queue' = <<>>
    /\ seen' = "Pending"
    /\ UNCHANGED <<stripe, expired, payment, replica, old>>

-----------------------------------------------------------------------------
JobStep ==
    \/ JobStarts \/ JobLists \/ JobReplays \/ JobReads
    \/ JobReportsMatch \/ JobReportsMismatch
    \/ JobDecidesToCancel \/ JobCancels \/ JobCancelRefused

Next ==
    \/ TryCharge \/ SettleCharge \/ Refund \/ Dispute
    \/ \E i \in DOMAIN issued : Receive(i)
    \/ Replicate \/ GrowOld \/ Expire
    \/ JobStep \/ JobFails

Spec == Init /\ [][Next]_vars

\* The job runs again and again and the secondary catches up. No delivery by
\* Stripe is ever certain.
FairSpec == Spec /\ WF_vars(JobStep) /\ WF_vars(Replicate)

-----------------------------------------------------------------------------
(* Properties.                                                              *)

\* Every variable has its type.
TypeOK ==
    /\ intent.status \in IntentStatus
    /\ undelivered \subseteq DOMAIN issued
    /\ expired \in 0 .. Len(issued)
    /\ payment.status \in PaymentStatus
    /\ replica \in PaymentStatus
    /\ job \in JobStates
    /\ \A i \in DOMAIN queue : queue[i] \in DOMAIN issued
    /\ seen \in PaymentStatus
    /\ faults \in 0 .. MaxFaults

\* Whatever events are lost, late or out of order, FormSG is never ahead of
\* Stripe: "If the Stripe payment status is still pending, the FormSG payment
\* status cannot be anything other than pending".
NeverAhead ==
    /\ payment.status \in Complete => intent.status = "succeeded"
    /\ payment.status = "Canceled" => intent.status = "canceled"

\* "By re-sending all failed event deliveries, we are guaranteed that we are
\* consistent with Stripe".
Consistent ==
    (\A i \in DOMAIN issued : IsDuplicate(payment, issued[i]))
        => Agree(intent.status, payment.status)

\* A late event never makes a complete payment incomplete again.
CompleteStays ==
    [][payment.status \in Complete => payment'.status \in Complete]_payment

\* The report of a match is true of the payment itself, although the job has
\* read it from a secondary that may be behind, and before it read the intent.
HonestReport ==
    [][JobReportsMatch =>
          /\ intent.status = "succeeded" => payment.status \in Complete
          /\ intent.status = "canceled" => payment.status = "Canceled"]_vars

\* "The key requirement is that every payment must have its status
\* reconciled": the job alone, with no help from the deliveries of Stripe,
\* completes a payment that succeeded and cancels one that was canceled,
\* unless an event that has not been received is too old to be listed.
EventuallyReconciled ==
    LET unreconciled ==
            \/ intent.status = "succeeded" /\ payment.status \notin Complete
            \/ intent.status = "canceled" /\ payment.status # "Canceled"
        missed == \E i \in 1 .. expired : ~IsDuplicate(payment, issued[i])
    IN  []<>(~unreconciled \/ missed)

\* A payment that succeeded gets its submission: "we can trigger payment
\* movement by ensuring that FormSG receives and correctly processes all
\* Stripe events".
EventuallyConfirmed ==
    intent.status = "succeeded" ~> payment.completedPayment # NoEvent

=============================================================================
