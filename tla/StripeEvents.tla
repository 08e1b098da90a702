---------------------------- MODULE StripeEvents ----------------------------
(***************************************************************************)
(* The Stripe event handler: several requests, each carrying one event,    *)
(* run concurrently against the payments collection of a replica set.      *)
(*                                                                         *)
(* Source: handleStripeEvent, processStripeEvent and                       *)
(* processStripeEventWithinSession (stripe.service.ts), the post-payment   *)
(* actions (payments.service.ts), the copy of the pending submission       *)
(* (submission.service.ts) and the response to Stripe                      *)
(* (stripe.events.controller.ts), all under src/src/app/modules.           *)
(*                                                                         *)
(* One handler is one request. A step of a handler is the code between two *)
(* awaits. A transaction of MongoDB is modelled by what it guarantees: it  *)
(* reads a snapshot, a document it has written is held until it ends, the  *)
(* write of a document that is held, or changed since the snapshot, fails, *)
(* and its writes appear together when it commits.                         *)
(***************************************************************************)
EXTENDS PaymentEvents

CONSTANTS Handler,     \* requests the servers can be running at one time
          NoDoc,       \* snap of a handler outside a transaction
          MaxFaults,   \* bound: errors, crashes and lost responses
          NotifyCap    \* bound: notifications are counted up to this number

ASSUME BoundAssumption == /\ MaxFaults \in Nat
                          /\ NotifyCap \in Nat \ {0}

VARIABLES
    payments,      \* the payments collection, as of the primary
    submissions,   \* payments whose submission is in the submissions collection
    replica,       \* what a secondary knows of every payment
    acked,         \* events answered with 200 or 202: not delivered again
    notified,      \* history: notifications handed over for every payment
    faults,        \* history: faults so far
    pc,            \* the await every handler is at
    event,         \* the event every handler is processing
    todo,          \* targets of the event still to be processed
    err,           \* result so far: "ok", "foreign" (202) or "error"
    snap,          \* the payment document as the transaction read it
    read           \* the responses read from the secondary were not deleted

vars == <<payments, submissions, replica, acked, notified, faults,
          pc, event, todo, err, snap, read>>

LookupTypes == DisputeTypes \cup PayoutTypes \cup {"charge.refund.updated"}

InTransaction == {"confirm", "save", "commit"}

Control == {"idle", "lookup", "next", "post", "webhook", "confirmations",
            "delete", "receipt", "respond"} \cup InTransaction

Kinds == {"webhook", "confirmation", "receipt"}

\* The payment a handler is working on.
Cur(h) == Head(todo[h])

Init ==
    /\ payments = [p \in Payment |-> NewPayment]
    /\ submissions = {}
    /\ replica = [p \in Payment |-> [confirmed |-> FALSE, responses |-> TRUE]]
    /\ acked = {}
    /\ notified = [p \in Payment |-> [k \in Kinds |-> 0]]
    /\ faults = 0
    /\ pc = [h \in Handler |-> "idle"]
    /\ event = [h \in Handler |-> NoEvent]
    /\ todo = [h \in Handler |-> <<>>]
    /\ err = [h \in Handler |-> "ok"]
    /\ snap = [h \in Handler |-> NoDoc]
    /\ read = [h \in Handler |-> TRUE]

-----------------------------------------------------------------------------
(* Parts of the actions.                                                    *)

GoTo(h, label) == pc' = [pc EXCEPT ![h] = label]

\* A fault: an outage, a crash, a lost message. There are finitely many.
Fault == faults < MaxFaults /\ faults' = faults + 1

\* Mutant of FinishTarget: the result is that of the last charge.
KeepLastResult(h, result) ==
    /\ todo' = [todo EXCEPT ![h] = Tail(@)]
    /\ err' = [err EXCEPT ![h] = result]
    /\ snap' = [snap EXCEPT ![h] = NoDoc]
    /\ GoTo(h, "next")
    /\ UNCHANGED <<event, read>>

\* The current target is finished. An error does not stop a payout event:
\* its other charges are visited, and the last error is the result.
FinishTarget(h, result) ==
    /\ todo' = [todo EXCEPT ![h] = Tail(@)]
    /\ err' = [err EXCEPT ![h] = IF result = "ok" THEN @ ELSE result]
    /\ snap' = [snap EXCEPT ![h] = NoDoc]
    /\ GoTo(h, "next")
    /\ UNCHANGED <<event, read>>

\* A notification goes out. Counted up to NotifyCap.
Notify(p, kind) ==
    notified' = [notified EXCEPT ![p][kind] =
                    IF @ < NotifyCap THEN @ + 1 ELSE @]

\* An open transaction holds the payment document it has saved.
HoldsPayment(h, p) == pc[h] = "commit" /\ Cur(h) = p

\* An open transaction holds the submission it has inserted.
HoldsSubmission(h, p) ==
    /\ pc[h] \in {"save", "commit"}
    /\ Cur(h) = p
    /\ Confirms(snap[h], event[h])

-----------------------------------------------------------------------------
(* Delivery.                                                                *)

\* A request arrives with an event Stripe has no acknowledgement for: from
\* Stripe, again from Stripe while an earlier delivery is still running, or
\* replayed by the reconciliation job.
Deliver(h, e) ==
    /\ pc[h] = "idle"
    /\ e \notin acked
    /\ event' = [event EXCEPT ![h] = e]
    /\ todo' = [todo EXCEPT ![h] = e.targets]
    /\ GoTo(h, IF e.type \in LookupTypes THEN "lookup" ELSE "next")
    /\ UNCHANGED <<payments, submissions, replica, acked, notified, faults,
                   err, snap, read>>

\* Dispute and refund events carry no metadata, payouts no charges: they are
\* fetched from Stripe first.
Lookup(h) ==
    /\ pc[h] = "lookup"
    /\ GoTo(h, "next")
    /\ UNCHANGED <<payments, submissions, replica, acked, notified, faults,
                   event, todo, err, snap, read>>

LookupFails(h) ==
    /\ pc[h] = "lookup"
    /\ Fault
    /\ err' = [err EXCEPT ![h] = "error"]
    /\ GoTo(h, "respond")
    /\ UNCHANGED <<payments, submissions, replica, acked, notified,
                   event, todo, snap, read>>

\* getMetadataPaymentId fails: the charge is not of this environment.
SkipForeign(h) ==
    /\ pc[h] = "next" /\ todo[h] # <<>> /\ Cur(h) = Foreign
    /\ FinishTarget(h, "foreign")
    /\ UNCHANGED <<payments, submissions, replica, acked, notified, faults>>

-----------------------------------------------------------------------------
(* The transaction that records the event in one payment.                  *)

\* Find the payment in a new snapshot.
ReadsPayment(h) ==
    pc[h] = "next" /\ todo[h] # <<>> /\ Cur(h) \in Payment

\* Mutant of IgnoreDuplicate: a duplicate is an error.
RejectDuplicate(h) ==
    /\ ReadsPayment(h)
    /\ IsDuplicate(payments[Cur(h)], event[h])
    /\ FinishTarget(h, "error")
    /\ UNCHANGED <<payments, submissions, replica, acked, notified, faults>>

IgnoreDuplicate(h) ==
    /\ ReadsPayment(h)
    /\ IsDuplicate(payments[Cur(h)], event[h])
    /\ FinishTarget(h, "ok")
    /\ UNCHANGED <<payments, submissions, replica, acked, notified, faults>>

\* The account does not match, or the charge lacks a receipt.
RejectMalformed(h) ==
    /\ ReadsPayment(h)
    /\ ~IsDuplicate(payments[Cur(h)], event[h])
    /\ ~Acceptable(Cur(h), payments[Cur(h)], event[h])
    /\ FinishTarget(h, "error")
    /\ UNCHANGED <<payments, submissions, replica, acked, notified, faults>>

BeginTransaction(h) ==
    /\ ReadsPayment(h)
    /\ ~IsDuplicate(payments[Cur(h)], event[h])
    /\ Acceptable(Cur(h), payments[Cur(h)], event[h])
    /\ snap' = [snap EXCEPT ![h] = payments[Cur(h)]]
    /\ GoTo(h, IF Confirms(payments[Cur(h)], event[h])
               THEN "confirm" ELSE "save")
    /\ UNCHANGED <<payments, submissions, replica, acked, notified, faults,
                   event, todo, err, read>>

\* The balance transaction has been fetched. The pending submission is
\* inserted into the submissions collection under its own id.
SubmissionTaken(h) ==
    \/ Cur(h) \in submissions
    \/ \E g \in Handler \ {h} : HoldsSubmission(g, Cur(h))

\* Mutant of CopySubmission: the copy is not part of the transaction.
CopyAtOnce(h) ==
    /\ pc[h] = "confirm"
    /\ ~SubmissionTaken(h)
    /\ submissions' = submissions \cup {Cur(h)}
    /\ GoTo(h, "save")
    /\ UNCHANGED <<payments, replica, acked, notified, faults,
                   event, todo, err, snap, read>>

CopySubmission(h) ==
    /\ pc[h] = "confirm"
    /\ ~SubmissionTaken(h)
    /\ GoTo(h, "save")
    /\ UNCHANGED <<payments, submissions, replica, acked, notified, faults,
                   event, todo, err, snap, read>>

\* A duplicate key or a write conflict on the submission aborts the
\* transaction: a conflict here is not rethrown for a retry, and the recovery
\* insert under a new id is part of the transaction the failure aborted.
CopyFails(h) ==
    /\ pc[h] = "confirm"
    /\ SubmissionTaken(h)
    /\ FinishTarget(h, "error")
    /\ UNCHANGED <<payments, submissions, replica, acked, notified, faults>>

\* Mutant of PaymentConflict: the save is not part of the transaction.
NeverConflicts(h) == FALSE

PaymentConflict(h) ==
    \/ payments[Cur(h)] # snap[h]
    \/ \E g \in Handler \ {h} : HoldsPayment(g, Cur(h))

\* The new status could be computed: no ComputePaymentStateError.
Computable(h) == Process(snap[h], event[h]).status \in PaymentStatus

Save(h) ==
    /\ pc[h] = "save"
    /\ Computable(h)
    /\ ~PaymentConflict(h)
    /\ GoTo(h, "commit")
    /\ UNCHANGED <<payments, submissions, replica, acked, notified, faults,
                   event, todo, err, snap, read>>

\* Mutant of RetryTransaction: the save is tried again, not the transaction.
RetrySave(h) ==
    /\ pc[h] = "save"
    /\ Computable(h)
    /\ PaymentConflict(h)
    /\ GoTo(h, "commit")
    /\ UNCHANGED <<payments, submissions, replica, acked, notified, faults,
                   event, todo, err, snap, read>>

\* A write conflict on the payment is rethrown, and withTransaction aborts
\* and runs its callback again in a new snapshot.
RetryTransaction(h) ==
    /\ pc[h] = "save"
    /\ Computable(h)
    /\ PaymentConflict(h)
    /\ snap' = [snap EXCEPT ![h] = NoDoc]
    /\ GoTo(h, "next")
    /\ UNCHANGED <<payments, submissions, replica, acked, notified, faults,
                   event, todo, err, read>>

Commit(h) ==
    /\ pc[h] = "commit"
    /\ payments' = [payments EXCEPT ![Cur(h)] = Process(snap[h], event[h])]
    /\ submissions' = IF Confirms(snap[h], event[h])
                      THEN submissions \cup {Cur(h)} ELSE submissions
    /\ FinishTarget(h, "ok")
    /\ UNCHANGED <<replica, acked, notified, faults>>

\* A database or Stripe error, a ComputePaymentStateError, or withTransaction
\* giving up its retries aborts the transaction.
TransactionFails(h) ==
    /\ \/ ReadsPayment(h)
       \/ pc[h] \in InTransaction
    /\ Fault
    /\ FinishTarget(h, "error")
    /\ UNCHANGED <<payments, submissions, replica, acked, notified>>

-----------------------------------------------------------------------------
(* Post-payment actions: after every charge.succeeded event that did not   *)
(* fail, a duplicate included.                                              *)

\* The only target of a charge.succeeded event.
Paid(h) == Head(event[h].targets)

AllTargetsDone(h) ==
    /\ pc[h] = "next" /\ todo[h] = <<>>
    /\ GoTo(h, IF event[h].type = "charge.succeeded" /\ err[h] = "ok"
               THEN "post" ELSE "respond")
    /\ UNCHANGED <<payments, submissions, replica, acked, notified, faults,
                   event, todo, err, snap, read>>

\* The payment and its submission are read from a secondary.
ReadSecondary(h) ==
    /\ pc[h] = "post"
    /\ replica[Paid(h)].confirmed
    /\ read' = [read EXCEPT ![h] = replica[Paid(h)].responses]
    /\ GoTo(h, "webhook")
    /\ UNCHANGED <<payments, submissions, replica, acked, notified, faults,
                   event, todo, err, snap>>

\* Mutant of SecondaryStale: the missing payment is not an error.
SecondaryIgnored(h) ==
    /\ pc[h] = "post"
    /\ ~replica[Paid(h)].confirmed
    /\ GoTo(h, "respond")
    /\ UNCHANGED <<payments, submissions, replica, acked, notified, faults,
                   event, todo, err, snap, read>>

\* The secondary has not caught up: ConfirmedPaymentNotFoundError.
SecondaryStale(h) ==
    /\ pc[h] = "post"
    /\ ~replica[Paid(h)].confirmed
    /\ err' = [err EXCEPT ![h] = "error"]
    /\ GoTo(h, "respond")
    /\ UNCHANGED <<payments, submissions, replica, acked, notified, faults,
                   event, todo, snap, read>>

SendWebhook(h) ==
    /\ pc[h] = "webhook"
    /\ Notify(Paid(h), "webhook")
    /\ GoTo(h, "confirmations")
    /\ UNCHANGED <<payments, submissions, replica, acked, faults,
                   event, todo, err, snap, read>>

\* The emails go to the addresses found in the responses that were read.
SendConfirmations(h) ==
    /\ pc[h] = "confirmations"
    /\ IF read[h] THEN Notify(Paid(h), "confirmation")
                  ELSE UNCHANGED notified
    /\ GoTo(h, "delete")
    /\ UNCHANGED <<payments, submissions, replica, acked, faults,
                   event, todo, err, snap, read>>

\* findByIdAndUpdate outside of a transaction waits for one that holds the
\* document.
DeleteResponses(h) ==
    /\ pc[h] = "delete"
    /\ \A g \in Handler : ~HoldsPayment(g, Paid(h))
    /\ payments' = [payments EXCEPT ![Paid(h)].responses = FALSE]
    /\ GoTo(h, "receipt")
    /\ UNCHANGED <<submissions, replica, acked, notified, faults,
                   event, todo, err, snap, read>>

\* Mutant of NotificationFails: the responses are deleted all the same.
DeleteAnyway(h) ==
    /\ pc[h] \in {"webhook", "confirmations", "delete"}
    /\ Fault
    /\ GoTo(h, IF pc[h] = "delete" THEN "receipt" ELSE "delete")
    /\ UNCHANGED <<payments, submissions, replica, acked, notified,
                   event, todo, err, snap, read>>

\* A failure of the webhook (before or after it reached its receiver), of the
\* emails or of the deletion skips the rest, and is not an error.
NotificationFails(h) ==
    /\ pc[h] \in {"webhook", "confirmations", "delete"}
    /\ Fault
    /\ \/ UNCHANGED notified
       \/ pc[h] = "webhook" /\ Notify(Paid(h), "webhook")
       \/ pc[h] = "confirmations" /\ read[h] /\ Notify(Paid(h), "confirmation")
    /\ GoTo(h, "receipt")
    /\ UNCHANGED <<payments, submissions, replica, acked,
                   event, todo, err, snap, read>>

\* The payer is sent a confirmation. It counts when it is handed to the mail
\* service: a failure there is logged and is not an error.
SendReceipt(h) ==
    /\ pc[h] = "receipt"
    /\ Notify(Paid(h), "receipt")
    /\ GoTo(h, "respond")
    /\ UNCHANGED <<payments, submissions, replica, acked, faults,
                   event, todo, err, snap, read>>

\* The secondary, or the form behind the receipt, cannot be read.
PostActionsFail(h) ==
    /\ pc[h] \in {"post", "receipt"}
    /\ Fault
    /\ err' = [err EXCEPT ![h] = "error"]
    /\ GoTo(h, "respond")
    /\ UNCHANGED <<payments, submissions, replica, acked, notified,
                   event, todo, snap, read>>

-----------------------------------------------------------------------------
(* The response, and the environment.                                      *)

Reset(h) ==
    /\ GoTo(h, "idle")
    /\ event' = [event EXCEPT ![h] = NoEvent]
    /\ todo' = [todo EXCEPT ![h] = <<>>]
    /\ err' = [err EXCEPT ![h] = "ok"]
    /\ snap' = [snap EXCEPT ![h] = NoDoc]
    /\ read' = [read EXCEPT ![h] = TRUE]

\* 200 or 202 acknowledges the event, any other status makes Stripe retry.
Respond(h) ==
    /\ pc[h] = "respond"
    /\ acked' = IF err[h] = "error" THEN acked ELSE acked \cup {event[h]}
    /\ Reset(h)
    /\ UNCHANGED <<payments, submissions, replica, notified, faults>>

\* The server crashes, which aborts an open transaction, or the response is
\* lost, comes too late for Stripe, or goes to the reconciliation job.
Crash(h) ==
    /\ pc[h] # "idle"
    /\ Fault
    /\ Reset(h)
    /\ UNCHANGED <<payments, submissions, replica, acked, notified>>

Replicate(p) ==
    /\ replica' = [replica EXCEPT ![p] =
                      [confirmed |-> payments[p].completedPayment # NoEvent,
                       responses |-> payments[p].responses]]
    /\ UNCHANGED <<payments, submissions, acked, notified, faults,
                   pc, event, todo, err, snap, read>>

-----------------------------------------------------------------------------
\* The steps a running handler takes on its own, faults aside.
Progress(h) ==
    \/ Lookup(h) \/ SkipForeign(h)
    \/ IgnoreDuplicate(h) \/ RejectMalformed(h) \/ BeginTransaction(h)
    \/ CopySubmission(h) \/ CopyFails(h)
    \/ Save(h) \/ RetryTransaction(h) \/ Commit(h)
    \/ AllTargetsDone(h)
    \/ ReadSecondary(h) \/ SecondaryStale(h)
    \/ SendWebhook(h) \/ SendConfirmations(h) \/ DeleteResponses(h)
    \/ SendReceipt(h) \/ Respond(h)

Failure(h) ==
    \/ LookupFails(h) \/ TransactionFails(h) \/ NotificationFails(h)
    \/ PostActionsFail(h) \/ Crash(h)

Next ==
    \/ \E h \in Handler : \/ Progress(h)
                          \/ Failure(h)
                          \/ \E e \in Event : Deliver(h, e)
    \/ \E p \in Payment : Replicate(p)

Spec == Init /\ [][Next]_vars

\* A request that runs takes its next step, Stripe redelivers what has not
\* been acknowledged, and the secondary catches up.
Fairness ==
    /\ \A h \in Handler : WF_vars(Progress(h))
    /\ \A e \in Event : WF_vars(\E h \in Handler : Deliver(h, e))
    /\ \A p \in Payment : WF_vars(Replicate(p))

FairSpec == Spec /\ Fairness

-----------------------------------------------------------------------------
(* Properties.                                                              *)

Logged(p) == {payments[p].log[i] : i \in DOMAIN payments[p].log}

\* Every variable has its type. The charge and the payout are functions of
\* the log, and OrderIndependent says which.
TypeOK ==
    /\ \A p \in Payment : /\ payments[p].log \in Seq(Event)
                          /\ payments[p].status \in PaymentStatus
                          /\ payments[p].completedPayment \in Event \cup {NoEvent}
                          /\ payments[p].responses \in BOOLEAN
    /\ submissions \subseteq Payment
    /\ replica \in [Payment -> [confirmed : BOOLEAN, responses : BOOLEAN]]
    /\ acked \subseteq Event
    /\ notified \in [Payment -> [Kinds -> 0..NotifyCap]]
    /\ faults \in 0..MaxFaults
    /\ pc \in [Handler -> Control]
    /\ event \in [Handler -> Event \cup {NoEvent}]
    /\ todo \in [Handler -> Seq(Payment \cup {Foreign})]
    /\ err \in [Handler -> {"ok", "foreign", "error"}]
    /\ read \in [Handler -> BOOLEAN]

\* Deliveries of one event that run at the same time, or one after the other,
\* leave one entry in the log: the check for duplicates is made in the
\* snapshot that the conflict check of the save protects.
LoggedOnce ==
    \A p \in Payment : \A i, j \in DOMAIN payments[p].log :
        payments[p].log[i].id = payments[p].log[j].id => i = j

\* A payment has its submission exactly when it is complete, exactly when a
\* charge.succeeded event is in its log, and the event that completed it is
\* one of those.
SubmissionIffPaid ==
    \A p \in Payment :
        /\ p \in submissions <=> payments[p].completedPayment # NoEvent
        /\ p \in submissions <=>
              \E e \in Logged(p) : e.type = "charge.succeeded"
        /\ payments[p].completedPayment \in Logged(p) \cup {NoEvent}

\* Events of different seconds may arrive in any order: status, charge and
\* payout are those of the events received, in the order of their creation.
InOrder(s) == \A i, j \in DOMAIN s : i < j => s[i].created < s[j].created

OrderIndependent ==
    \A p \in Payment : \A sorted \in [1..Cardinality(Logged(p)) -> Logged(p)] :
        InOrder(sorted) =>
            /\ payments[p].status = computePaymentState(sorted).status
            /\ payments[p].chargeIdLatest =
                  computePaymentState(sorted).chargeIdLatest
            /\ payments[p].payout = computePayoutDetails(sorted)

\* The log holds events of the payment only, from the Stripe account the form
\* was linked to, and a payment is completed by a charge with a receipt.
LogIsAuthentic ==
    \A p \in Payment :
        /\ \A e \in Logged(p) : p \in Targets(e) /\ e.account = TargetAccount[p]
        /\ p \in submissions => payments[p].completedPayment.receipt

\* An event Stripe will not deliver again is in the log of every payment of
\* this environment that it concerns.
AckedIsRecorded ==
    \A e \in acked : \A p \in Targets(e) \ {Foreign} :
        IsDuplicate(payments[p], e)

\* The responses of the respondent are deleted only when the confirmation
\* emails they are kept for have been sent.
DeletedAfterConfirmation ==
    \A p \in Payment :
        ~payments[p].responses => notified[p]["confirmation"] > 0

\* A charge.succeeded event is acknowledged only when its payment is complete
\* and the confirmation to the payer has been handed to the mail service.
AckedIsReceipted ==
    \A e \in acked : e.type = "charge.succeeded" =>
        \A p \in Targets(e) \ {Foreign} :
            p \in submissions /\ notified[p]["receipt"] > 0

\* No step, of whichever of the concurrent writers of the document, loses
\* what another has written: a logged event stays, the completed payment
\* never changes, deleted responses do not come back.
NoLostUpdate ==
    [][\A p \in Payment :
          /\ \A i \in DOMAIN payments[p].log :
                IsDuplicate(payments'[p], payments[p].log[i])
          /\ payments[p].completedPayment # NoEvent =>
                payments'[p].completedPayment = payments[p].completedPayment
          /\ ~payments[p].responses => ~payments'[p].responses]_payments

\* Every event is acknowledged in the end: neither conflicts nor stale reads
\* of the secondary keep the deliveries of an event failing for ever.
EventuallyAcked == \A e \in Event : <>(e \in acked)

\* The concurrent handlers are atomic: they do what the ledger does.
Ledger == INSTANCE PaymentLedger WITH
             payments <- payments, submissions <- submissions, acked <- acked

ImplementsLedger == Ledger!LedgerSpec

-----------------------------------------------------------------------------
(* The inductive strengthening: what a running handler may rely on.         *)

Running(h) == pc[h] # "idle"

PostActions == {"post", "webhook", "confirmations", "delete", "receipt"}

\* The targets still to be visited are targets of the event, and each of the
\* others has recorded the event unless the result says otherwise.
VisitsTargets(h) ==
    /\ pc[h] \in {"idle", "lookup"} => err[h] = "ok"
    /\ Running(h) =>
          /\ event[h] \in Event
          /\ \A i \in DOMAIN todo[h] : todo[h][i] \in Targets(event[h])
          /\ err[h] = "ok" =>
                \A t \in Targets(event[h]) :
                    \/ \E i \in DOMAIN todo[h] : todo[h][i] = t
                    \/ t \in Payment /\ IsDuplicate(payments[t], event[h])
          /\ err[h] = "foreign" => Foreign \in Targets(event[h])
          /\ pc[h] = "respond" /\ err[h] # "error" => todo[h] = <<>>

\* An open transaction works on an acceptable new event, in its snapshot.
OwnsSnapshot(h) ==
    pc[h] \in InTransaction =>
        /\ todo[h] # <<>>
        /\ Cur(h) \in Payment
        /\ ~IsDuplicate(snap[h], event[h])
        /\ Acceptable(Cur(h), snap[h], event[h])

\* First committer wins: a payment about to be committed is what the
\* transaction read, and only one transaction is about to commit it. The same
\* holds of the submission.
CommitsFresh(h) ==
    /\ pc[h] = "commit" =>
          /\ snap[h] = payments[Cur(h)]
          /\ Process(snap[h], event[h]).status \in PaymentStatus
          /\ \A g \in Handler \ {h} : ~HoldsPayment(g, Cur(h))
    /\ pc[h] \in {"save", "commit"} /\ Confirms(snap[h], event[h]) =>
          ~SubmissionTaken(h)

\* The actions after a payment run for a charge.succeeded event it recorded.
ActsOnPaid(h) ==
    pc[h] \in PostActions =>
        event[h].type = "charge.succeeded" /\ err[h] = "ok" /\ todo[h] = <<>>

HandlerInv ==
    \A h \in Handler : /\ VisitsTargets(h)
                        /\ OwnsSnapshot(h)
                        /\ CommitsFresh(h)
                        /\ ActsOnPaid(h)

=============================================================================
