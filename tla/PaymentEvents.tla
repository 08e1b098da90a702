--------------------------- MODULE PaymentEvents ----------------------------
(***************************************************************************)
(* The payments of one deployment and the Stripe events about them, as     *)
(* both the abstract ledger and the concurrent handler see them.           *)
(*                                                                         *)
(* Source: getMetadataPaymentId in stripe.utils.ts, and the checks in      *)
(* stripe.service.ts, under src/src/app/modules/payments.                  *)
(***************************************************************************)
EXTENDS PaymentState

CONSTANTS Payment,         \* ids of the payment documents
          Event,           \* the events Stripe has issued or will issue
          Foreign,         \* metadata of another environment or of a payment
                           \* made outside of FormSG
          TargetAccount    \* payment.targetAccountId of every payment

(***************************************************************************)
(* An event carries, besides the fields PaymentState reads, its id, the    *)
(* Stripe account that issued it, whether its charge has a valid receipt   *)
(* URL and balance transaction, and its targets: the metadata of the       *)
(* charges it concerns, in the order in which they are visited. Only a     *)
(* payout event has more than one target. An event of a type the handler   *)
(* ignores has none. A payout whose charges Stripe refuses to list, which  *)
(* the handler takes for one of another environment, has only a foreign    *)
(* target.                                                                 *)
(***************************************************************************)
Targets(e) == {e.targets[i] : i \in DOMAIN e.targets}

ASSUME EventAssumption ==
    /\ \A e \in Event : /\ e.created \in Nat
                        /\ e.targets \in Seq(Payment \cup {Foreign})
                        /\ e.type = "charge.succeeded" => Len(e.targets) = 1
    /\ \A e, f \in Event : e.id = f.id => e = f
    /\ NoEvent \notin Event
    /\ Foreign \notin Payment

\* The checks that refuse an event before the document is touched.
Acceptable(p, doc, e) ==
    /\ e.account = TargetAccount[p]
    /\ Confirms(doc, e) => e.receipt

=============================================================================
