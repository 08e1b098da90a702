--------------------------- MODULE PaymentLedger ----------------------------
(***************************************************************************)
(* What the Stripe event handler promises, with no handler in sight: an    *)
(* event is recorded in a payment in one atomic step together with the     *)
(* confirmation of its submission, at most once, and is acknowledged only  *)
(* when every payment it concerns has it.                                  *)
(***************************************************************************)
CONSTANTS Payment,             \* ids of the payment documents
          Event,               \* the events of Stripe
          Foreign,             \* a target outside of this environment
          NoEvent,             \* a payment that is not complete
          NewPayment,          \* the document of a new payment
          Targets(_),          \* what an event concerns
          IsDuplicate(_, _),   \* whether a document has an event already
          Acceptable(_, _, _), \* the checks an event must pass
          Confirms(_, _),      \* whether an event completes a payment
          Process(_, _)        \* the document after an event

VARIABLES payments,      \* the payments collection
          submissions,   \* payments whose submission has been confirmed
          acked          \* events Stripe will not deliver again

ledgerVars == <<payments, submissions, acked>>

Recorded(p, e) == IsDuplicate(payments[p], e)

LedgerInit ==
    /\ payments = [p \in Payment |-> NewPayment]
    /\ submissions = {}
    /\ acked = {}

\* A payment records a new event, and its submission appears if the event
\* is the first charge.succeeded.
Record(p, e) ==
    /\ ~Recorded(p, e)
    /\ Acceptable(p, payments[p], e)
    /\ Confirms(payments[p], e) => p \notin submissions
    /\ payments' = [payments EXCEPT ![p] = Process(@, e)]
    /\ submissions' = IF Confirms(payments[p], e)
                      THEN submissions \cup {p} ELSE submissions
    /\ UNCHANGED acked

\* The responses kept for the email confirmations are deleted, but never
\* before the payment is complete.
DeleteResponses(p) ==
    /\ payments[p].completedPayment # NoEvent
    /\ payments' = [payments EXCEPT ![p].responses = FALSE]
    /\ UNCHANGED <<submissions, acked>>

\* An event with no foreign target is acknowledged once all have it.
Acknowledge(e) ==
    /\ Foreign \notin Targets(e) => \A p \in Targets(e) : Recorded(p, e)
    /\ acked' = acked \cup {e}
    /\ UNCHANGED <<payments, submissions>>

LedgerNext ==
    \/ \E p \in Payment, e \in Event : Record(p, e)
    \/ \E p \in Payment : DeleteResponses(p)
    \/ \E e \in Event : Acknowledge(e)

LedgerSpec == LedgerInit /\ [][LedgerNext]_ledgerVars

=============================================================================
