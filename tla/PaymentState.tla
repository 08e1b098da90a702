---------------------------- MODULE PaymentState ----------------------------
(***************************************************************************)
(* The pure part of payment processing: how the status of a payment and    *)
(* its payout details are computed from the log of Stripe events, and the  *)
(* one way in which an event changes the payment document.                 *)
(*                                                                         *)
(* Source: src/src/app/modules/payments/stripe.utils.ts,                   *)
(* processStripeEventWithinSession in stripe.service.ts beside it, and     *)
(* src/src/app/models/payment.server.model.ts.                             *)
(*                                                                         *)
(* A Stripe event is a record with at least the fields                     *)
(*   type     event.type                                                   *)
(*   created  event.created, in whole seconds                              *)
(*   charge   the charge the event is about: the id of a charge object,    *)
(*            the charge of a dispute, the latest_charge of an intent      *)
(*   full     amount_captured === amount_refunded                          *)
(*   payout   the id of the payout object                                  *)
(*   id       event.id                                                     *)
(***************************************************************************)
EXTENDS Naturals, SequencesExt

CONSTANTS NoCharge,   \* chargeIdLatest = undefined
          NoPayout,   \* payout = undefined
          NoEvent     \* completedPayment = undefined

PaymentStatus == {"Pending", "Failed", "Succeeded", "PartiallyRefunded",
                  "FullyRefunded", "Disputed", "Canceled"}

\* The null status of the state machine: a state it cannot interpret.
Unknown == "null"

DisputeFollowUp ==
    {"charge.dispute.funds_withdrawn", "charge.dispute.updated",
     "charge.dispute.closed", "charge.dispute.funds_reinstated"}

DisputeTypes == DisputeFollowUp \cup {"charge.dispute.created"}

ChargeTypes ==
    {"payment_intent.canceled", "charge.failed", "charge.pending",
     "charge.refunded", "charge.succeeded"} \cup DisputeTypes

PayoutTypes ==
    {"payout.canceled", "payout.created", "payout.failed", "payout.paid",
     "payout.updated", "payout.reconciliation_completed"}

-----------------------------------------------------------------------------
\* Mutant of InsertByCreated: the log is not sorted.
AppendUnsorted(log, e) == Append(log, e)

(***************************************************************************)
(* The webhook log is kept sorted by the second of creation: the handler   *)
(* pushes the event and sorts. The sort is stable, so in a sorted log the  *)
(* event lands behind every event of its own second or an earlier one.     *)
(***************************************************************************)
InsertByCreated(log, e) ==
    InsertAt(log,
             Cardinality({i \in DOMAIN log : log[i].created <= e.created}) + 1,
             e)

RefundStatus(e) == IF e.full THEN "FullyRefunded" ELSE "PartiallyRefunded"

(***************************************************************************)
(* One transition of the state machine. Whatever the current status does   *)
(* not expect leads to the sink Unknown, and keeps chargeIdLatest.         *)
(***************************************************************************)
chargeStateReducer(state, e) ==
    LET incomplete == state.status \in {"Pending", "Failed"}
        paid       == state.status \in {"Succeeded", "PartiallyRefunded"}
        sameCharge == e.charge = state.chargeIdLatest
    IN  CASE incomplete /\ e.type = "charge.failed" ->
               [status |-> "Failed", chargeIdLatest |-> e.charge]
          [] incomplete /\ e.type = "charge.succeeded" ->
               [status |-> "Succeeded", chargeIdLatest |-> e.charge]
          [] incomplete /\ e.type = "payment_intent.canceled" /\ sameCharge ->
               [state EXCEPT !.status = "Canceled"]
          [] paid /\ e.type = "charge.refunded" /\ sameCharge ->
               [state EXCEPT !.status = RefundStatus(e)]
          [] paid /\ e.type = "charge.dispute.created" /\ sameCharge ->
               [state EXCEPT !.status = "Disputed"]
          [] /\ state.status = "Disputed"
             /\ e.type \in DisputeFollowUp
             /\ sameCharge ->
               state
          [] OTHER ->
               [state EXCEPT !.status = Unknown]

\* Mutant of FallbackStatus: a pending charge counts as paid.
PendingIsPaid(e) ==
    IF e.type = "charge.failed" THEN "Failed"
    ELSE IF e.type \in {"charge.pending", "charge.succeeded"} THEN "Succeeded"
    ELSE Unknown

\* The status the last charge event alone gives, when the machine is lost.
FallbackStatus(e) ==
    CASE e.type = "charge.failed"           -> "Failed"
      [] e.type = "charge.pending"          -> "Pending"
      [] e.type = "charge.succeeded"        -> "Succeeded"
      [] e.type = "charge.refunded"         -> RefundStatus(e)
      [] e.type \in DisputeTypes            -> "Disputed"
      [] e.type = "payment_intent.canceled" -> "Canceled"
      [] OTHER                              -> Unknown

\* Mutant of Fallback: the first event decides.
FallbackToFirst(charges) ==
    IF charges = <<>>
    THEN [status |-> Unknown, chargeIdLatest |-> NoCharge]
    ELSE [status         |-> FallbackStatus(Head(charges)),
          chargeIdLatest |-> Head(charges).charge]

Fallback(charges) ==
    IF charges = <<>>
    THEN [status |-> Unknown, chargeIdLatest |-> NoCharge]
    ELSE [status         |-> FallbackStatus(Last(charges)),
          chargeIdLatest |-> Last(charges).charge]

\* The events of certain types, in their order.
OfType(events, types) ==
    LET kept[n \in 0 .. Len(events)] ==
            IF n = 0 THEN <<>>
            ELSE IF events[n].type \in types THEN Append(kept[n - 1], events[n])
            ELSE kept[n - 1]
    IN  kept[Len(events)]

\* Mutant of computePaymentState: there is no fallback.
StateMachineOnly(events) ==
    FoldLeft(chargeStateReducer,
             [status |-> "Pending", chargeIdLatest |-> NoCharge],
             OfType(events, ChargeTypes))

\* A status of Unknown in the result stands for err(ComputePaymentStateError).
computePaymentState(events) ==
    LET charges == OfType(events, ChargeTypes)
        final   == FoldLeft(chargeStateReducer,
                            [status |-> "Pending", chargeIdLatest |-> NoCharge],
                            charges)
    IN  IF final.status \in PaymentStatus THEN final ELSE Fallback(charges)

-----------------------------------------------------------------------------
payoutStateReducer(payout, e) ==
    CASE e.type = "payout.created" -> e.payout
      [] e.type \in {"payout.canceled", "payout.failed"} -> NoPayout
      [] OTHER -> payout

computePayoutDetails(events) ==
    FoldLeft(payoutStateReducer, NoPayout, OfType(events, PayoutTypes))

-----------------------------------------------------------------------------
(* The payment document. *)

NewPayment ==
    [log              |-> <<>>,
     status           |-> "Pending",
     chargeIdLatest   |-> NoCharge,
     completedPayment |-> NoEvent,
     payout           |-> NoPayout,
     responses        |-> TRUE]

IsDuplicate(doc, e) == \E i \in DOMAIN doc.log : doc.log[i].id = e.id

\* The event confirms the pending submission of the payment. The completed
\* payment (date, receipt, fee) is a function of the event that confirms it.
Confirms(doc, e) ==
    e.type = "charge.succeeded" /\ doc.completedPayment = NoEvent

\* Steps 2 to 5: confirm, push and sort, compute the status and the payout.
Process(doc, e) ==
    LET log   == InsertByCreated(doc.log, e)
        state == computePaymentState(log)
    IN  [log              |-> log,
         status           |-> state.status,
         chargeIdLatest   |-> state.chargeIdLatest,
         completedPayment |-> IF Confirms(doc, e) THEN e
                              ELSE doc.completedPayment,
         payout           |-> computePayoutDetails(log),
         responses        |-> doc.responses]

=============================================================================
