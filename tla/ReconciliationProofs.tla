------------------------ MODULE ReconciliationProofs ------------------------
(***************************************************************************)
(* Proofs about Reconciliation, for any number of events, failures and     *)
(* expired events.                                                         *)
(*                                                                         *)
(* Since the last event of a log alone decides the status (LastDecides),   *)
(* a payment is compared with its intent by their last events. Those are   *)
(* the same when everything is logged and no two events share a second;    *)
(* and what Stripe issues after a success or a cancellation is of that     *)
(* kind again.                                                             *)
(***************************************************************************)
EXTENDS Reconciliation, PaymentStateProofs

StripeEvent == [id : Nat, type : ChargeTypes, created : Nat,
                charge : Nat \cup {NoCharge}, full : BOOLEAN,
                payout : {NoPayout}]

Intent == [status : IntentStatus, charge : Nat \cup {NoCharge},
           refund : {"none", "part", "full"}, disputed : BOOLEAN]

-----------------------------------------------------------------------------
(* What Stripe has issued.                                                  *)

Attempt == {"charge.failed", "charge.pending"}

AfterSuccess == {"charge.refunded", "charge.dispute.created",
                 "charge.dispute.closed"}

Paid == AfterSuccess \cup {"charge.succeeded"}

Cancellation == {"payment_intent.canceled"}

\* The attempts come first, then a success with what follows it, or the
\* cancellation; and each event is MinGap seconds later than the one before.
IssuedInv ==
    /\ issued \in Seq(StripeEvent)
    /\ \A i \in DOMAIN issued : issued[i].id = i
    /\ \A i, j \in DOMAIN issued :
          i < j => issued[i].created + MinGap <= issued[j].created
    /\ intent \in Intent
    /\ \A i \in DOMAIN issued :
          issued[i].type \in Attempt \cup Paid \cup Cancellation
    /\ \A i \in DOMAIN issued : issued[i].type \in Paid =>
          /\ intent.status = "succeeded"
          /\ \A j \in DOMAIN issued : i < j => issued[j].type \in Paid
    /\ \A i \in DOMAIN issued : issued[i].type \in Cancellation =>
          intent.status = "canceled" /\ i = Len(issued)
    /\ intent.status = "succeeded" =>
          issued # <<>> /\ issued[Len(issued)].type \in Paid
    /\ intent.status = "canceled" =>
          issued # <<>> /\ issued[Len(issued)].type \in Cancellation

\* What an event of each kind makes of a payment.
LEMMA KindOfStatus ==
    \A e \in StripeEvent :
       /\ e.type \in Attempt => FallbackStatus(e) \in Incomplete
       /\ e.type \in Paid => FallbackStatus(e) \in Complete
       /\ e.type \in Cancellation => FallbackStatus(e) = "Canceled"
       /\ FallbackStatus(e) \in PaymentStatus
  BY DEF StripeEvent, Attempt, Paid, AfterSuccess, Cancellation, Incomplete,
     Complete, FallbackStatus, RefundStatus, ChargeTypes, DisputeTypes,
     DisputeFollowUp, PaymentStatus

\* How an intent may change with the event that is issued.
Advances(from, to, type) ==
    \/ /\ from \in {"requires", "processing"}
       /\ \/ type \in Attempt /\ to \in {"requires", "processing"}
          \/ type = "charge.succeeded" /\ to = "succeeded"
          \/ type \in Cancellation /\ to = "canceled"
    \/ from = "succeeded" /\ type \in AfterSuccess /\ to = "succeeded"

\* Issuing an event appends it, and preserves what is known of the events.
LEMMA IssueNext ==
    ASSUME IssuedInv, NEW type \in ChargeTypes,
           NEW charge \in Nat \cup {NoCharge}, NEW full \in BOOLEAN,
           Issue(type, charge, full),
           Advances(intent.status, intent'.status, type),
           intent' \in Intent
    PROVE  /\ IssuedInv'
           /\ Len(issued) \in Nat /\ DOMAIN issued = 1 .. Len(issued)
           /\ DOMAIN issued' = 1 .. Len(issued) + 1
           /\ \A i \in DOMAIN issued : issued'[i] = issued[i]
<1> DEFINE n == Len(issued)
<1>1. n \in Nat /\ DOMAIN issued = 1 .. n /\ MinGap \in {0, 1}
  BY ReconciliationBounds DEF IssuedInv
<1>0. \A k \in 1 .. n : issued[k].created \in Nat
  <2>1. \A k \in 1 .. n : issued[k] \in StripeEvent
    <3> HIDE DEF StripeEvent
    <3> QED
      BY <1>1, ElementOfSeq DEF IssuedInv
  <2>2. \A e \in StripeEvent : e.created \in Nat
    BY DEF StripeEvent
  <2> HIDE DEF n
  <2> QED
    BY <2>1, <2>2
<1>2. PICK e : /\ issued' = Append(issued, e)
               /\ e.id = n + 1 /\ e.type = type /\ e \in StripeEvent
               /\ n # 0 => issued[n].created + MinGap <= e.created
  <2>1. PICK gap \in MinGap .. 1 :
           issued' = Append(issued,
             [id |-> n + 1, type |-> type,
              created |-> gap + IF issued = <<>> THEN 0 ELSE Last(issued).created,
              charge |-> charge, full |-> full, payout |-> NoPayout])
    BY DEF Issue
  <2> DEFINE created == gap + IF issued = <<>> THEN 0 ELSE Last(issued).created
  <2>2. created \in Nat /\ (n # 0 => issued[n].created + MinGap <= created)
    <3>1. n # 0 => /\ Last(issued) = issued[n]
                   /\ issued[n].created \in Nat
                   /\ issued # <<>>
      BY <1>1, <1>0 DEF Last
    <3>2. n = 0 => issued = <<>>
      BY DEF IssuedInv
    <3>3. gap \in Nat /\ MinGap <= gap
      BY <1>1
    <3> HIDE DEF n
    <3> QED
      BY <1>1, <3>1, <3>2, <3>3
  <2> HIDE DEF created, n
  <2> PICK e : e = [id |-> n + 1, type |-> type, created |-> created,
                    charge |-> charge, full |-> full, payout |-> NoPayout]
    OBVIOUS
  <2>3. e \in StripeEvent
    BY <1>1, <2>2 DEF StripeEvent
  <2> QED
    BY <2>1, <2>2, <2>3 DEF created, n
<1>3. /\ issued' \in Seq(StripeEvent) /\ Len(issued') = n + 1
      /\ DOMAIN issued' = 1 .. n + 1
      /\ \A i \in 1 .. n : issued'[i] = issued[i]
      /\ issued'[n + 1] = e
  BY <1>2 DEF IssuedInv
<1>4. \A i \in DOMAIN issued' : i \in 1 .. n \/ i = n + 1
  BY <1>1, <1>3
<1> HIDE DEF n
<1>5. \A i \in DOMAIN issued' : issued'[i].id = i
  BY <1>1, <1>2, <1>3, <1>4 DEF IssuedInv
<1>6. ASSUME NEW i \in DOMAIN issued', NEW j \in DOMAIN issued', i < j
      PROVE  issued'[i].created + MinGap <= issued'[j].created
  <2>1. i \in 1 .. n /\ issued'[i] = issued[i]
    BY <1>1, <1>3, <1>6
  <2>2. \A k \in 1 .. n : issued[k].created \in Nat
    BY <1>0
  <2>3. CASE j \in 1 .. n
    BY <1>1, <1>3, <1>6, <2>1, <2>3 DEF IssuedInv
  <2>4. CASE j = n + 1
    <3>1. n \in 1 .. n /\ issued[n].created + MinGap <= e.created
      BY <1>1, <1>2, <2>1
    <3>2. e.created \in Nat
      BY <1>2 DEF StripeEvent
    <3>3. i = n \/ issued[i].created + MinGap <= issued[n].created
      BY <1>1, <2>1, <3>1 DEF IssuedInv
    <3> QED
      BY <1>1, <1>3, <2>1, <2>2, <2>4, <3>1, <3>2, <3>3
  <2> QED
    BY <1>4, <2>3, <2>4
<1>8. e.type \in Attempt \cup Paid \cup Cancellation
  BY <1>2 DEF Advances, Paid
<1>9. \A i \in DOMAIN issued' :
         issued'[i].type \in Attempt \cup Paid \cup Cancellation
  BY <1>1, <1>3, <1>4, <1>8 DEF IssuedInv
<1>10. \A i \in 1 .. n : issued[i].type \in Paid => intent.status = "succeeded"
  BY <1>1 DEF IssuedInv
<1>11. \A i \in 1 .. n : issued[i].type \notin Cancellation
  BY <1>1 DEF IssuedInv, Advances
<1>12. intent.status = "succeeded" => e.type \in Paid
                                      /\ intent'.status = "succeeded"
  BY <1>2 DEF Advances, Paid
<1>13. \A i \in DOMAIN issued' : issued'[i].type \in Paid =>
          /\ intent'.status = "succeeded"
          /\ \A j \in DOMAIN issued' : i < j => issued'[j].type \in Paid
  <2> TAKE i \in DOMAIN issued'
  <2>1. CASE i \in 1 .. n
    <3> HAVE issued'[i].type \in Paid
    <3>1. issued[i].type \in Paid /\ intent.status = "succeeded"
      BY <1>3, <1>10, <2>1
    <3>2. \A j \in 1 .. n : i < j => issued[j].type \in Paid
      BY <1>1, <2>1, <3>1 DEF IssuedInv
    <3> QED
      BY <1>3, <1>4, <1>12, <3>1, <3>2
  <2>2. CASE i = n + 1
    <3>1. \A j \in DOMAIN issued' : ~(i < j)
      BY <1>1, <1>3, <2>2
    <3>2. e.type \in Paid => intent'.status = "succeeded"
      BY <1>2 DEF Advances, Paid, Attempt, AfterSuccess, Cancellation
    <3> QED
      BY <1>3, <2>2, <3>1, <3>2
  <2> QED
    BY <1>4, <2>1, <2>2
<1>14. \A i \in DOMAIN issued' : issued'[i].type \in Cancellation =>
          intent'.status = "canceled" /\ i = Len(issued')
  <2>1. e.type \in Cancellation => intent'.status = "canceled"
    BY <1>2 DEF Advances, Paid, Attempt, AfterSuccess, Cancellation
  <2> QED
    BY <1>3, <1>4, <1>11, <2>1
<1>15. issued' # <<>> /\ issued'[Len(issued')] = e
  BY <1>1, <1>3
<1>16. /\ intent'.status = "succeeded" => e.type \in Paid
       /\ intent'.status = "canceled" => e.type \in Cancellation
  BY <1>2 DEF Advances, Paid
<1>17. IssuedInv'
  BY <1>3, <1>5, <1>6, <1>9, <1>13, <1>14, <1>15, <1>16 DEF IssuedInv
<1> QED
  BY <1>1, <1>3, <1>17 DEF n

-----------------------------------------------------------------------------
(* What has been logged of it.                                              *)

\* A log of issued events, by their second, of which the last decides.
PaymentInv ==
    /\ payment.log \in Seq(StripeEvent)
    /\ \A i \in DOMAIN payment.log :
          \E k \in DOMAIN issued : payment.log[i] = issued[k]
    /\ Chronological(payment.log)
    /\ payment.status = IF payment.log = <<>> THEN "Pending"
                        ELSE FallbackStatus(Last(payment.log))

\* The last event of a log, among those that were issued.
LEMMA LastLogged ==
    ASSUME IssuedInv, PaymentInv, payment.log # <<>>
    PROVE  \E k \in DOMAIN issued :
              /\ Last(payment.log) = issued[k]
              /\ payment.status = FallbackStatus(issued[k])
              /\ issued[k] \in StripeEvent
              /\ \A i \in DOMAIN payment.log :
                    payment.log[i].created <= issued[k].created
<1> PICK log \in Seq(StripeEvent) : log = payment.log
  BY DEF PaymentInv
<1>1. Len(log) \in Nat \ {0} /\ DOMAIN log = 1 .. Len(log)
  BY LenProperties, EmptySeq
<1>2. PICK k \in DOMAIN issued : log[Len(log)] = issued[k]
  BY <1>1 DEF PaymentInv
<1>3. \A i \in DOMAIN log : log[i] \in StripeEvent /\ log[i].created \in Nat
  <2>1. \A i \in DOMAIN log : log[i] \in StripeEvent
    BY <1>1, ElementOfSeq
  <2>2. \A e \in StripeEvent : e.created \in Nat
    BY DEF StripeEvent
  <2> QED
    BY <2>1, <2>2
<1>4. \A i \in DOMAIN log : log[i].created <= log[Len(log)].created
  <2> TAKE i \in DOMAIN log
  <2>1. i = Len(log) \/ i < Len(log)
    BY <1>1
  <2>2. i < Len(log) => log[i].created <= log[Len(log)].created
    BY <1>1 DEF PaymentInv, Chronological
  <2> QED
    BY <1>1, <1>3, <2>1, <2>2
<1>5. Last(payment.log) = log[Len(log)]
  BY DEF Last
<1>6. payment.status = FallbackStatus(issued[k])
  BY <1>2, <1>5 DEF PaymentInv
<1> QED
  BY <1>1, <1>2, <1>3, <1>4, <1>5, <1>6

\* The status a log gives is that of its last event.
LEMMA StatusOfLog ==
    ASSUME NEW log \in Seq(StripeEvent)
    PROVE  computePaymentState(log).status =
              IF log = <<>> THEN "Pending" ELSE FallbackStatus(Last(log))
<1>1. \A i \in 1 .. Len(log) : log[i].type \in ChargeTypes
  <2>1. \A i \in 1 .. Len(log) : log[i] \in StripeEvent
    BY ElementOfSeq
  <2>2. \A e \in StripeEvent : e.type \in ChargeTypes
    BY DEF StripeEvent
  <2> QED
    BY <2>1, <2>2
<1>2. OfType(log, ChargeTypes) = log
  BY <1>1, OfTypeAll
<1>3. computePaymentState(log) = IF log = <<>> THEN Unpaid ELSE Fallback(log)
  BY <1>2, LastDecides
<1> QED
  BY <1>3 DEF Unpaid, Fallback

\* More events have been issued.
LEMMA LoggedStill ==
    ASSUME PaymentInv, UNCHANGED payment, DOMAIN issued \subseteq DOMAIN issued',
           \A i \in DOMAIN issued : issued'[i] = issued[i]
    PROVE  PaymentInv'
  BY DEF PaymentInv

\* Behind an event that is inserted, the last of the log stays the last.
LEMMA LastInserted ==
    ASSUME NEW log \in Seq(StripeEvent), NEW e \in StripeEvent
    PROVE  LET new == InsertByCreated(log, e)
           IN  /\ Len(new) = Len(log) + 1
               /\ Last(new) = e \/ (log # <<>> /\ Last(new) = Last(log))
<1> DEFINE new == InsertByCreated(log, e)
<1> HIDE DEF StripeEvent
<1>1. PICK place \in 0 .. Len(log) :
         /\ Len(new) = Len(log) + 1
         /\ \A i \in 1 .. (Len(log) + 1) :
               new[i] = IF i <= place THEN log[i]
                        ELSE IF i = place + 1 THEN e ELSE log[i - 1]
  BY InsertShifts
<1> HIDE DEF new
<1>2. Len(log) \in Nat /\ (log = <<>> => Len(log) = 0)
  BY LenProperties
<1>3. new[Len(log) + 1] = IF Len(log) = place THEN e ELSE log[Len(log)]
  BY <1>1, <1>2
<1>4. Last(new) = new[Len(log) + 1] /\ Last(log) = log[Len(log)]
  BY <1>1 DEF Last
<1>5. log = <<>> => Len(log) = place
  BY <1>1, <1>2
<1> QED
  BY <1>1, <1>3, <1>4, <1>5 DEF new

\* An event that is entered becomes the last of the log, or leaves it.
LEMMA Entered ==
    ASSUME IssuedInv, PaymentInv, NEW k \in DOMAIN issued,
           payment' = Process(payment, issued[k]), UNCHANGED issued
    PROVE  /\ PaymentInv'
           /\ payment'.log # <<>>
           /\ \/ Last(payment'.log) = issued[k]
              \/ /\ payment.log # <<>>
                 /\ Last(payment'.log) = Last(payment.log)
           /\ \A i \in DOMAIN payment.log :
                 \E j \in DOMAIN payment'.log : payment'.log[j] = payment.log[i]
           /\ \E j \in DOMAIN payment'.log : payment'.log[j] = issued[k]
<1> PICK log \in Seq(StripeEvent) : log = payment.log
  BY DEF PaymentInv
<1> PICK e \in StripeEvent : e = issued[k]
  BY ElementOfSeq DEF IssuedInv
<1> PICK new : new = InsertByCreated(log, e)
  OBVIOUS
<1>1. payment'.log = new /\ payment'.status = computePaymentState(new).status
  BY DEF Process
<1>2. new \in Seq(StripeEvent) /\ ToSet(new) = ToSet(log) \cup {e}
  BY InsertEntries
<1>3. /\ Len(new) = Len(log) + 1
      /\ Last(new) = e \/ (log # <<>> /\ Last(new) = Last(log))
  BY LastInserted
<1>4. Len(log) \in Nat /\ new # <<>>
  BY <1>3, LenProperties
<1>5. Chronological(new)
  <2>1. \A x \in StripeEvent : x.created \in Nat
    BY DEF StripeEvent
  <2>2. Chronological(log)
    BY DEF PaymentInv
  <2> QED
    BY <2>1, <2>2, InsertChronological
<1>6. /\ \A i \in DOMAIN new : new[i] = e \/ \E j \in DOMAIN log : new[i] = log[j]
      /\ \A i \in DOMAIN log : \E j \in DOMAIN new : new[j] = log[i]
      /\ \E j \in DOMAIN new : new[j] = e
  <2>1. \A x : x \in ToSet(new) <=> x \in ToSet(log) \/ x = e
    BY <1>2
  <2>2. \A x : x \in ToSet(new) <=> \E j \in DOMAIN new : new[j] = x
    BY DEF ToSet
  <2>3. \A x : x \in ToSet(log) <=> \E j \in DOMAIN log : log[j] = x
    BY DEF ToSet
  <2>4. ASSUME NEW i \in DOMAIN new
        PROVE  new[i] = e \/ \E j \in DOMAIN log : new[i] = log[j]
    <3>1. new[i] \in ToSet(new)
      BY <2>2
    <3> QED
      BY <2>1, <2>3, <3>1
  <2>5. ASSUME NEW i \in DOMAIN log
        PROVE  \E j \in DOMAIN new : new[j] = log[i]
    <3>1. log[i] \in ToSet(log)
      BY <2>3
    <3> QED
      BY <2>1, <2>2, <3>1
  <2>6. \E j \in DOMAIN new : new[j] = e
    BY <2>1, <2>2
  <2> QED
    BY <2>4, <2>5, <2>6
<1>7. PaymentInv'
  <2>1. \A i \in DOMAIN new : \E j \in DOMAIN issued : new[i] = issued[j]
    BY <1>6 DEF PaymentInv
  <2>2. computePaymentState(new).status =
           IF new = <<>> THEN "Pending" ELSE FallbackStatus(Last(new))
    BY <1>2, StatusOfLog
  <2> QED
    BY <1>1, <1>2, <1>5, <2>1, <2>2 DEF PaymentInv
<1> QED
  BY <1>1, <1>3, <1>4, <1>6, <1>7

\* Nothing that is logged makes a complete payment incomplete, or a canceled
\* one anything else.
LEMMA EnteredKeeps ==
    ASSUME MinGap = 1, IssuedInv, PaymentInv, NEW k \in DOMAIN issued,
           payment' = Process(payment, issued[k]), UNCHANGED issued
    PROVE  /\ payment.status \in Complete => payment'.status \in Complete
           /\ payment.status = "Canceled" => payment'.status = "Canceled"
<1> SUFFICES ASSUME payment.log # <<>>
             PROVE  /\ payment.status \in Complete => payment'.status \in Complete
                    /\ payment.status = "Canceled" => payment'.status = "Canceled"
  BY DEF PaymentInv, Complete
<1>1. PICK m \in DOMAIN issued :
         /\ Last(payment.log) = issued[m]
         /\ payment.status = FallbackStatus(issued[m])
         /\ issued[m] \in StripeEvent
         /\ \A i \in DOMAIN payment.log :
               payment.log[i].created <= issued[m].created
  BY LastLogged
<1>2. \A i \in DOMAIN issued : issued[i] \in StripeEvent
                               /\ issued[i].created \in Nat
  <2>1. \A i \in DOMAIN issued : issued[i] \in StripeEvent
    BY ElementOfSeq, LenProperties DEF IssuedInv
  <2>2. \A e \in StripeEvent : e.created \in Nat
    BY DEF StripeEvent
  <2> QED
    BY <2>1, <2>2
<1>3. PICK n \in DOMAIN issued :
         /\ Last(payment'.log) = issued[n]
         /\ n = k \/ n = m
         /\ payment'.status = FallbackStatus(issued[n])
  <2>1. /\ PaymentInv' /\ payment'.log # <<>>
        /\ Last(payment'.log) = issued[k]
              \/ Last(payment'.log) = Last(payment.log)
    BY Entered
  <2> QED
    BY <1>1, <2>1 DEF PaymentInv
<1>4. m <= n
  <2>1. PICK position : position \in DOMAIN payment'.log /\ payment'.log[position] = issued[m]
    <3>1. Len(payment.log) \in DOMAIN payment.log
      BY LenProperties, EmptySeq DEF PaymentInv
    <3>2. payment.log[Len(payment.log)] = issued[m]
      BY <1>1 DEF Last
    <3> QED
      BY <3>1, <3>2, Entered
  <2>2. issued[m].created <= issued[n].created
    <3>2. PaymentInv' /\ payment'.log # <<>>
      BY Entered
    <3>3. payment'.log \in Seq(StripeEvent) /\ Chronological(payment'.log)
      BY <3>2 DEF PaymentInv
    <3>4. /\ Len(payment'.log) \in Nat
          /\ DOMAIN payment'.log = 1 .. Len(payment'.log)
          /\ payment'.log[Len(payment'.log)] = issued[n]
      BY <1>3, <3>3, LenProperties DEF Last
    <3>5. position = Len(payment'.log) \/ position < Len(payment'.log)
      BY <2>1, <3>4
    <3>6. position < Len(payment'.log)
             => payment'.log[position].created <= issued[n].created
      BY <2>1, <3>3, <3>4 DEF Chronological
    <3>7. position = Len(payment'.log) => issued[m] = issued[n]
      BY <2>1, <3>4
    <3> QED
      BY <1>2, <2>1, <3>5, <3>6, <3>7
  <2>3. n < m => issued[n].created + 1 <= issued[m].created
    BY DEF IssuedInv
  <2>4. m \in Nat /\ n \in Nat
    BY LenProperties DEF IssuedInv
  <2> QED
    BY <1>2, <2>2, <2>3, <2>4
<1>5. issued[m].type \in Paid => issued[n].type \in Paid
  <2>1. m = n \/ m < n
    BY <1>4, LenProperties DEF IssuedInv
  <2> QED
    BY <2>1 DEF IssuedInv
<1>6. issued[m].type \in Cancellation => n = m
  <2>1. issued[m].type \in Cancellation => m = Len(issued)
    BY DEF IssuedInv
  <2> QED
    BY <1>4, <2>1, LenProperties DEF IssuedInv
<1>7. issued[m].type \in Attempt \cup Paid \cup Cancellation
  BY DEF IssuedInv
<1>8. Incomplete \cap Complete = {} /\ "Canceled" \notin Incomplete \cup Complete
  BY DEF Incomplete, Complete
<1> QED
  BY <1>1, <1>2, <1>3, <1>5, <1>6, <1>7, <1>8, KindOfStatus

-----------------------------------------------------------------------------
(* The invariant.                                                           *)

\* The other variables have their types.
Typed ==
    /\ undelivered \subseteq DOMAIN issued
    /\ expired \in 0 .. Len(issued)
    /\ replica \in PaymentStatus
    /\ job \in JobStates
    /\ queue \in Seq(DOMAIN issued)
    /\ seen \in PaymentStatus
    /\ faults \in 0 .. MaxFaults

ReconciliationInv == IssuedInv /\ PaymentInv /\ Typed

\* Initially no event has been issued and nothing logged.
LEMMA InvInit == Init => ReconciliationInv
<1> SUFFICES ASSUME Init PROVE ReconciliationInv
  OBVIOUS
<1>1. issued = <<>> /\ DOMAIN issued = {} /\ Len(issued) = 0
  BY DEF Init
<1>2. <<>> \in Seq(StripeEvent) /\ <<>> \in Seq(DOMAIN issued)
  OBVIOUS
<1>3. IssuedInv
  BY <1>1, <1>2 DEF Init, IssuedInv, Intent, IntentStatus
<1>4. PaymentInv
  BY <1>1, <1>2 DEF Init, PaymentInv, NewPayment, Chronological
<1>5. Typed
  BY <1>1, <1>2, ReconciliationBounds DEF Init, Typed, PaymentStatus, JobStates
<1> QED
  BY <1>3, <1>4, <1>5 DEF ReconciliationInv

\* The types are those of a sequence of events that grows.
LEMMA TypedStill ==
    ASSUME IssuedInv, Typed,
           Len(issued) \in Nat, DOMAIN issued = 1 .. Len(issued),
           IssuedInv', DOMAIN issued' = 1 .. Len(issued) + 1,
           undelivered' = undelivered \cup {Len(issued) + 1},
           UNCHANGED <<expired, replica, queue, faults>>,
           job' \in JobStates, seen' \in PaymentStatus
    PROVE  Typed'
<1>1. undelivered' \subseteq DOMAIN issued'
  BY DEF Typed
<1>2. Len(issued') = Len(issued) + 1
  BY LenProperties DEF IssuedInv
<1>3. expired' \in 0 .. Len(issued')
  BY <1>2 DEF Typed
<1>4. queue' \in Seq(DOMAIN issued')
  <2>1. DOMAIN issued \subseteq DOMAIN issued'
    OBVIOUS
  <2>2. \A S, T : S \subseteq T => Seq(S) \subseteq Seq(T)
    OBVIOUS
  <2>3. queue' = queue
    OBVIOUS
  <2> QED
    BY <2>1, <2>2, <2>3 DEF Typed
<1> QED
  BY <1>1, <1>3, <1>4 DEF Typed

\* The event types that Stripe issues for an intent are charge events.
LEMMA IssuedTypes ==
    /\ Attempt \cup Paid \cup Cancellation \subseteq ChargeTypes
    /\ \A outcome \in {"charge.failed", "charge.pending", "charge.succeeded"} :
          outcome \in ChargeTypes
  BY DEF Attempt, Paid, AfterSuccess, Cancellation, ChargeTypes, DisputeTypes,
     DisputeFollowUp

\* Whatever Stripe issues, what is logged of it and the types stay right.
LEMMA Issues ==
    ASSUME ReconciliationInv, NEW type \in ChargeTypes,
           NEW charge \in Nat \cup {NoCharge}, NEW full \in BOOLEAN,
           Issue(type, charge, full),
           Advances(intent.status, intent'.status, type),
           intent' \in Intent,
           UNCHANGED <<expired, payment, replica, queue, faults>>,
           job' \in JobStates, seen' \in PaymentStatus
    PROVE  ReconciliationInv'
<1>1. IssuedInv /\ PaymentInv /\ Typed
  BY DEF ReconciliationInv
<1>2. /\ IssuedInv'
      /\ Len(issued) \in Nat /\ DOMAIN issued = 1 .. Len(issued)
      /\ DOMAIN issued' = 1 .. Len(issued) + 1
      /\ \A i \in DOMAIN issued : issued'[i] = issued[i]
  BY <1>1, IssueNext
<1>3. PaymentInv'
  BY <1>1, <1>2, LoggedStill
<1>4. undelivered' = undelivered \cup {Len(issued) + 1}
  BY DEF Issue
<1>5. Typed'
  BY <1>1, <1>2, <1>4, TypedStill
<1> QED
  BY <1>2, <1>3, <1>5 DEF ReconciliationInv

\* The steps of the payer, of the merchant and of the bank.
LEMMA StripeSteps ==
    ASSUME ReconciliationInv, TryCharge \/ SettleCharge \/ Refund \/ Dispute
    PROVE  ReconciliationInv'
<1>1. /\ intent \in Intent /\ NewCharge \in Nat
      /\ job \in JobStates /\ seen \in PaymentStatus
  BY LenProperties DEF ReconciliationInv, IssuedInv, Typed, NewCharge
<1>2. CASE TryCharge
  <2>1. PICK outcome \in {"charge.failed", "charge.pending", "charge.succeeded"} :
           /\ Issue(outcome, NewCharge, FALSE)
           /\ intent' = [intent EXCEPT
                 !.charge = NewCharge,
                 !.status = CASE outcome = "charge.failed"    -> "requires"
                              [] outcome = "charge.pending"   -> "processing"
                              [] outcome = "charge.succeeded" -> "succeeded"]
    BY <1>2 DEF TryCharge
  <2>2. /\ intent.status = "requires" /\ outcome \in ChargeTypes
        /\ UNCHANGED <<expired, payment, replica, queue, faults, job, seen>>
    BY <1>2, IssuedTypes DEF TryCharge
  <2>3. intent' \in Intent /\ Advances("requires", intent'.status, outcome)
    BY <1>1, <2>1 DEF Intent, IntentStatus, Advances, Attempt
  <2> QED
    BY <1>1, <2>1, <2>2, <2>3, Issues
<1>3. CASE SettleCharge
  <2>1. PICK outcome \in {"charge.failed", "charge.succeeded"} :
           /\ Issue(outcome, intent.charge, FALSE)
           /\ intent' = [intent EXCEPT
                 !.status = IF outcome = "charge.failed" THEN "requires"
                                                         ELSE "succeeded"]
    BY <1>3 DEF SettleCharge
  <2>2. /\ intent.status = "processing" /\ outcome \in ChargeTypes
        /\ UNCHANGED <<expired, payment, replica, queue, faults, job, seen>>
    BY <1>3, IssuedTypes DEF SettleCharge
  <2>3. intent' \in Intent /\ Advances("processing", intent'.status, outcome)
    BY <1>1, <2>1 DEF Intent, IntentStatus, Advances, Attempt
  <2>4. intent.charge \in Nat \cup {NoCharge}
    BY <1>1 DEF Intent
  <2> QED
    BY <1>1, <2>1, <2>2, <2>3, <2>4, Issues
<1>4. CASE Refund
  <2>1. PICK full \in BOOLEAN :
           /\ Issue("charge.refunded", intent.charge, full)
           /\ intent' = [intent EXCEPT !.refund = IF full THEN "full" ELSE "part"]
    BY <1>4 DEF Refund
  <2>2. /\ intent.status = "succeeded" /\ "charge.refunded" \in ChargeTypes
        /\ UNCHANGED <<expired, payment, replica, queue, faults, job, seen>>
    BY <1>4 DEF Refund, ChargeTypes
  <2>3. /\ intent' \in Intent
        /\ intent.status = intent'.status
        /\ intent.charge \in Nat \cup {NoCharge}
    BY <1>1, <2>1 DEF Intent
  <2>4. Advances(intent.status, intent'.status, "charge.refunded")
    BY <2>2, <2>3 DEF Advances, AfterSuccess
  <2> QED
    BY <1>1, <2>1, <2>2, <2>3, <2>4, Issues
<1>5. CASE Dispute
  <2>1. PICK type \in {"charge.dispute.created", "charge.dispute.closed"} :
           Issue(type, intent.charge, FALSE)
    BY <1>5 DEF Dispute
  <2>2. /\ intent' = [intent EXCEPT !.disputed = ~@]
        /\ intent.status = "succeeded" /\ type \in ChargeTypes
        /\ UNCHANGED <<expired, payment, replica, queue, faults, job, seen>>
    BY <1>5 DEF Dispute, ChargeTypes, DisputeTypes, DisputeFollowUp
  <2>3. /\ intent' \in Intent
        /\ intent.status = intent'.status
        /\ intent.charge \in Nat \cup {NoCharge}
    BY <1>1, <2>2 DEF Intent
  <2>4. Advances(intent.status, intent'.status, type)
    BY <2>2, <2>3 DEF Advances, AfterSuccess
  <2> QED
    BY <1>1, <2>1, <2>2, <2>3, <2>4, Issues
<1> QED
  BY <1>2, <1>3, <1>4, <1>5

\* An event is received, or replayed, or left as a duplicate.
LEMMA HandledNext ==
    ASSUME ReconciliationInv, NEW k \in DOMAIN issued, UNCHANGED issued,
           payment' = IF IsDuplicate(payment, issued[k]) THEN payment
                      ELSE Process(payment, issued[k])
    PROVE  PaymentInv'
<1>1. CASE IsDuplicate(payment, issued[k])
  BY <1>1, LoggedStill DEF ReconciliationInv
<1>2. CASE ~IsDuplicate(payment, issued[k])
  BY <1>2, Entered DEF ReconciliationInv
<1> QED
  BY <1>1, <1>2

\* The invariant is inductive.
LEMMA InvNext == ReconciliationInv /\ [Next]_vars => ReconciliationInv'
<1> SUFFICES ASSUME ReconciliationInv, [Next]_vars
             PROVE  ReconciliationInv'
  OBVIOUS
<1>1. IssuedInv /\ PaymentInv /\ Typed
  BY DEF ReconciliationInv
<1>2. Len(issued) \in Nat /\ DOMAIN issued = 1 .. Len(issued)
  BY <1>1, LenProperties DEF IssuedInv
<1>3. UNCHANGED <<intent, issued>> => IssuedInv'
  BY <1>1 DEF IssuedInv
<1>4. UNCHANGED <<payment, issued>> => PaymentInv'
  BY <1>1, LoggedStill
<1>5. payment.status \in PaymentStatus
  <2>1. PICK log \in Seq(StripeEvent) : log = payment.log
    BY <1>1 DEF PaymentInv
  <2>2. log # <<>> => Last(log) \in StripeEvent
    BY ElementOfSeq, LenProperties, EmptySeq DEF Last
  <2> QED
    BY <1>1, <2>1, <2>2, KindOfStatus DEF PaymentInv, PaymentStatus
<1>6. CASE TryCharge \/ SettleCharge \/ Refund \/ Dispute
  BY <1>6, StripeSteps
<1>7. ASSUME NEW k \in DOMAIN issued, Receive(k)
      PROVE  ReconciliationInv'
  <2>1. PaymentInv' /\ UNCHANGED <<intent, issued>>
    BY <1>7, HandledNext DEF Receive
  <2>2. Typed'
    BY <1>1, <1>7 DEF Receive, Typed
  <2> QED
    BY <1>3, <2>1, <2>2 DEF ReconciliationInv
<1>8. CASE Replicate \/ GrowOld \/ Expire
  <2>1. Typed'
    BY <1>1, <1>2, <1>5, <1>8
       DEF Replicate, GrowOld, Expire, stripe, Typed
  <2>2. UNCHANGED <<intent, issued, payment>>
    BY <1>8 DEF Replicate, GrowOld, Expire, stripe
  <2> QED
    BY <1>3, <1>4, <2>1, <2>2 DEF ReconciliationInv
<1>9. CASE JobLists
  <2>1. queue' \in Seq(DOMAIN issued)
    <3>1. PICK listed : listed = undelivered \ 1 .. expired
      OBVIOUS
    <3>2. queue' \in [1 .. Cardinality(listed) -> listed]
      BY <1>9, <3>1 DEF JobLists
    <3>3. listed \subseteq DOMAIN issued
      BY <1>1, <3>1 DEF Typed
    <3>4. IsFiniteSet(listed)
      <4>1. IsFiniteSet(DOMAIN issued)
        BY <1>2, FS_Interval
      <4> QED
        BY <3>3, <4>1, FS_Subset
    <3>5. Cardinality(listed) \in Nat
      BY <3>4, FS_CardinalityType
    <3>6. queue' \in Seq(listed)
      BY <3>2, <3>5
    <3> QED
      BY <3>3, <3>6, SeqMonotonic
  <2>2. Typed'
    BY <1>1, <1>9, <2>1 DEF JobLists, stripe, Typed, JobStates
  <2>3. UNCHANGED <<intent, issued, payment>>
    BY <1>9 DEF JobLists, stripe
  <2> QED
    BY <1>3, <1>4, <2>2, <2>3 DEF ReconciliationInv
<1>10. CASE JobReplays
  <2>1. Head(queue) \in DOMAIN issued /\ Tail(queue) \in Seq(DOMAIN issued)
    BY <1>1, <1>10, HeadTailProperties DEF Typed, JobReplays
  <2>2. PaymentInv'
    BY <1>4, <1>10, <2>1, HandledNext DEF JobReplays, stripe
  <2>3. Typed' /\ UNCHANGED <<intent, issued>>
    BY <1>1, <1>10, <2>1, ReconciliationBounds
       DEF JobReplays, stripe, Typed, Fault
  <2> QED
    BY <1>3, <2>2, <2>3 DEF ReconciliationInv
<1>11. CASE \/ JobStarts \/ JobReads \/ JobReportsMatch \/ JobReportsMismatch
            \/ JobDecidesToCancel \/ JobCancelRefused \/ JobFails
  <2>1. UNCHANGED <<intent, issued, payment, undelivered, expired, replica>>
    BY <1>11 DEF JobStarts, JobReads, JobReportsMatch, JobReportsMismatch,
       JobCompares, JobDecidesToCancel, JobCancelRefused, JobFails, stripe
  <2>2. /\ job' \in JobStates /\ seen' \in PaymentStatus
        /\ queue' \in Seq(DOMAIN issued)
        /\ faults' \in 0 .. MaxFaults
    <3>1. <<>> \in Seq(DOMAIN issued) /\ "Pending" \in PaymentStatus
      BY DEF PaymentStatus
    <3>2. CASE JobStarts \/ JobReads \/ JobDecidesToCancel
      BY <1>1, <3>2
         DEF JobStarts, JobReads, JobDecidesToCancel, JobStates, Typed
    <3>3. CASE JobReportsMatch \/ JobReportsMismatch \/ JobCancelRefused
      BY <1>1, <3>1, <3>3
         DEF JobReportsMatch, JobReportsMismatch, JobCompares,
         JobCancelRefused, JobStates, Typed
    <3>4. CASE JobFails
      BY <1>1, <3>1, <3>4, ReconciliationBounds
         DEF JobFails, Fault, JobStates, Typed
    <3> QED
      BY <1>11, <3>2, <3>3, <3>4
  <2> QED
    BY <1>1, <1>3, <1>4, <2>1, <2>2 DEF ReconciliationInv, Typed
<1>12. CASE JobCancels
  <2>1. /\ Issue("payment_intent.canceled", intent.charge, FALSE)
        /\ intent' = [intent EXCEPT !.status = "canceled"]
        /\ intent.status = "requires"
        /\ job' = "idle" /\ seen' = "Pending"
        /\ UNCHANGED <<expired, payment, replica, queue, faults>>
    BY <1>12 DEF JobCancels
  <2>2. /\ intent' \in Intent
        /\ intent'.status = "canceled"
        /\ intent.charge \in Nat \cup {NoCharge}
    BY <1>1, <2>1 DEF IssuedInv, Intent, IntentStatus
  <2>3. Advances("requires", "canceled", "payment_intent.canceled")
    BY DEF Advances, Cancellation
  <2>4. /\ job' \in JobStates /\ seen' \in PaymentStatus
        /\ "payment_intent.canceled" \in ChargeTypes
    BY <2>1 DEF JobStates, PaymentStatus, ChargeTypes
  <2> QED
    BY <2>1, <2>2, <2>3, <2>4, Issues
<1>13. CASE UNCHANGED vars
  BY <1>1, <1>3, <1>4, <1>13 DEF vars, ReconciliationInv, Typed
<1> QED
  BY <1>6, <1>7, <1>8, <1>9, <1>10, <1>11, <1>12, <1>13 DEF Next, JobStep

\* The invariant that needs nothing of MinGap.
LEMMA InvAlways == Spec => []ReconciliationInv
<1> QED
  BY InvInit, InvNext, PTL DEF Spec

-----------------------------------------------------------------------------
(* What follows from the invariant.                                         *)

\* The status of a payment is one that the code knows.
LEMMA StatusKnown == ReconciliationInv => payment.status \in PaymentStatus
<1> SUFFICES ASSUME IssuedInv, PaymentInv PROVE payment.status \in PaymentStatus
  BY DEF ReconciliationInv
<1>1. CASE payment.log = <<>>
  BY <1>1 DEF PaymentInv, PaymentStatus
<1>2. CASE payment.log # <<>>
  BY <1>2, LastLogged, KindOfStatus
<1> QED
  BY <1>1, <1>2

\* Every variable has its type, whatever the bounds: in particular the status
\* of a payment is always one that the code knows.
THEOREM ReconciliationTypes == Spec => []TypeOK
<1>1. ReconciliationInv => TypeOK
  <2> SUFFICES ASSUME ReconciliationInv PROVE TypeOK
    OBVIOUS
  <2>1. intent.status \in IntentStatus
    BY DEF ReconciliationInv, IssuedInv, Intent
  <2>2. \A i \in DOMAIN queue : queue[i] \in DOMAIN issued
    BY ElementOfSeq, LenProperties DEF ReconciliationInv, Typed
  <2> QED
    BY <2>1, <2>2, StatusKnown DEF ReconciliationInv, Typed, TypeOK
<1> QED
  BY <1>1, InvAlways, PTL

\* FormSG is never ahead of Stripe, also when two events share a second: a
\* payment is complete only after a success, canceled only after a
\* cancellation, for the last event of its log is of that kind.
THEOREM NeverAheadOfStripe == Spec => []NeverAhead
<1>1. ReconciliationInv => NeverAhead
  <2> SUFFICES ASSUME IssuedInv, PaymentInv PROVE NeverAhead
    BY DEF ReconciliationInv
  <2>1. CASE payment.log = <<>>
    BY <2>1 DEF PaymentInv, NeverAhead, Complete
  <2>2. CASE payment.log # <<>>
    <3>1. PICK k \in DOMAIN issued :
             /\ payment.status = FallbackStatus(issued[k])
             /\ issued[k] \in StripeEvent
      BY <2>2, LastLogged
    <3>2. issued[k].type \in Attempt \cup Paid \cup Cancellation
      BY DEF IssuedInv
    <3>3. /\ issued[k].type \in Paid => intent.status = "succeeded"
          /\ issued[k].type \in Cancellation => intent.status = "canceled"
      BY DEF IssuedInv
    <3>4. /\ Incomplete \cap Complete = {}
          /\ "Canceled" \notin Incomplete \cup Complete
      BY DEF Incomplete, Complete
    <3> QED
      BY <3>1, <3>2, <3>3, <3>4, KindOfStatus DEF NeverAhead
  <2> QED
    BY <2>1, <2>2
<1> QED
  BY <1>1, InvAlways, PTL

\* When no two events share a second and everything that was issued has been
\* logged, the last event of the log is the last that was issued: the payment
\* agrees with its intent.
THEOREM ConsistentOnceLogged ==
    ASSUME MinGap = 1
    PROVE  Spec => []Consistent
<1>1. ReconciliationInv => Consistent
  <2> SUFFICES ASSUME IssuedInv, PaymentInv,
                      \A i \in DOMAIN issued : IsDuplicate(payment, issued[i])
               PROVE  Agree(intent.status, payment.status)
    BY DEF ReconciliationInv, Consistent
  <2>0. Len(issued) \in Nat /\ DOMAIN issued = 1 .. Len(issued)
    BY LenProperties DEF IssuedInv
  <2>1. \A i \in DOMAIN issued : issued[i] \in StripeEvent
                                 /\ issued[i].created \in Nat
    <3>1. \A i \in DOMAIN issued : issued[i] \in StripeEvent
      BY ElementOfSeq, LenProperties DEF IssuedInv
    <3>2. \A e \in StripeEvent : e.created \in Nat
      BY DEF StripeEvent
    <3> QED
      BY <3>1, <3>2
  <2>2. CASE issued = <<>>
    <3>1. payment.log = <<>>
      <4>1. DOMAIN payment.log = {}
        BY <2>2 DEF PaymentInv
      <4>2. payment.log \in Seq(StripeEvent)
        BY DEF PaymentInv
      <4> HIDE DEF StripeEvent
      <4> QED
        BY <4>1, <4>2, EmptySeq
    <3>2. payment.status = "Pending"
      BY <3>1 DEF PaymentInv
    <3>3. intent.status \notin {"succeeded", "canceled"}
      BY <2>2 DEF IssuedInv
    <3>4. intent.status \in IntentStatus
      BY DEF IssuedInv, Intent
    <3> QED
      BY <3>2, <3>3, <3>4 DEF Agree, IntentStatus, Incomplete
  <2>3. CASE issued # <<>>
    <3> DEFINE n == Len(issued)
    <3>1. n \in DOMAIN issued
      BY <2>0, <2>3, EmptySeq DEF IssuedInv
    <3>2. PICK i \in DOMAIN payment.log : payment.log[i].id = issued[n].id
      BY <3>1 DEF IsDuplicate
    <3>3. payment.log[i] = issued[n]
      <4>1. PICK k \in DOMAIN issued : payment.log[i] = issued[k]
        BY DEF PaymentInv
      <4>2. issued[k].id = k /\ issued[n].id = n
        BY <3>1 DEF IssuedInv
      <4> QED
        BY <3>2, <4>1, <4>2
    <3>4. payment.log # <<>>
      BY <3>2
    <3>5. PICK m \in DOMAIN issued :
             /\ payment.status = FallbackStatus(issued[m])
             /\ \A j \in DOMAIN payment.log :
                   payment.log[j].created <= issued[m].created
      BY <3>4, LastLogged
    <3>6. m = n
      <4>1. issued[n].created <= issued[m].created
        BY <3>3, <3>5
      <4>2. m < n => issued[m].created + 1 <= issued[n].created
        BY <3>1 DEF IssuedInv
      <4>3. m \in Nat /\ m <= n /\ n \in Nat
        BY <2>0
      <4>4. issued[m].created \in Nat /\ issued[n].created \in Nat
        BY <2>1, <3>1
      <4> HIDE DEF n
      <4> QED
        BY <4>1, <4>2, <4>3, <4>4
    <3>7. payment.status = FallbackStatus(issued[n]) /\ issued[n] \in StripeEvent
      BY <2>1, <3>1, <3>5, <3>6
    <3>8. issued[n].type \in Attempt \cup Paid \cup Cancellation
      BY <3>1 DEF IssuedInv
    <3>9. /\ issued[n].type \in Paid => intent.status = "succeeded"
          /\ issued[n].type \in Cancellation => intent.status = "canceled"
          /\ intent.status = "succeeded" => issued[n].type \in Paid
          /\ intent.status = "canceled" => issued[n].type \in Cancellation
          /\ intent.status \in IntentStatus
      BY <3>1 DEF IssuedInv, Intent
    <3> HIDE DEF n
    <3> QED
      BY <3>7, <3>8, <3>9, KindOfStatus DEF Agree, IntentStatus
  <2> QED
    BY <2>2, <2>3
<1> QED
  BY <1>1, InvAlways, PTL

-----------------------------------------------------------------------------
(* What a step may never do, when no two events share a second.             *)

\* What a step of any kind may do with a payment.
LEMMA PaymentSteps ==
    ASSUME ReconciliationInv, [Next]_vars
    PROVE  \/ UNCHANGED payment
           \/ /\ UNCHANGED <<issued, replica, seen>>
              /\ \E k \in DOMAIN issued : payment' = Process(payment, issued[k])
<1>1. ASSUME NEW k \in DOMAIN issued, Receive(k)
      PROVE  \/ UNCHANGED payment
             \/ /\ UNCHANGED <<issued, replica, seen>>
                /\ payment' = Process(payment, issued[k])
  BY <1>1 DEF Receive
<1>2. CASE JobReplays
  <2>1. Head(queue) \in DOMAIN issued
    BY <1>2, HeadTailProperties DEF JobReplays, ReconciliationInv, Typed
  <2> QED
    BY <1>2, <2>1 DEF JobReplays, stripe
<1>3. CASE TryCharge \/ SettleCharge \/ Refund \/ Dispute
           \/ Replicate \/ GrowOld \/ Expire
  BY <1>3 DEF TryCharge, SettleCharge, Refund, Dispute, Replicate, GrowOld,
     Expire
<1>4. CASE \/ JobStarts \/ JobLists \/ JobReads
           \/ JobReportsMatch \/ JobReportsMismatch
           \/ JobDecidesToCancel \/ JobCancels \/ JobCancelRefused \/ JobFails
  BY <1>4 DEF JobStarts, JobLists, JobReads, JobReportsMatch,
     JobReportsMismatch, JobCompares, JobDecidesToCancel, JobCancels,
     JobCancelRefused, JobFails
<1>5. CASE UNCHANGED vars
  BY <1>5 DEF vars
<1> QED
  BY <1>1, <1>2, <1>3, <1>4, <1>5 DEF Next, JobStep

\* A complete payment stays complete and a canceled one canceled.
LEMMA Final ==
    ASSUME MinGap = 1, ReconciliationInv, [Next]_vars
    PROVE  /\ payment.status \in Complete => payment'.status \in Complete
           /\ payment.status = "Canceled" => payment'.status = "Canceled"
<1>1. CASE UNCHANGED payment
  BY <1>1
<1>2. CASE /\ UNCHANGED <<issued, replica, seen>>
           /\ \E k \in DOMAIN issued : payment' = Process(payment, issued[k])
  BY <1>2, EnteredKeeps DEF ReconciliationInv
<1> QED
  BY <1>1, <1>2, PaymentSteps

\* A late event, delivered or replayed, never makes a complete payment
\* incomplete again: an older event is inserted before the last of the log,
\* and one after a success is of the kind that keeps the payment complete.
THEOREM CompleteForGood ==
    ASSUME MinGap = 1
    PROVE  Spec => CompleteStays
<1>1. ReconciliationInv /\ [Next]_vars
         => [payment.status \in Complete => payment'.status \in Complete]_payment
  BY Final
<1> QED
  BY <1>1, InvAlways, PTL DEF Spec, CompleteStays

\* What has been read from a secondary, however old, is final when it is a
\* complete or a canceled status.
ReadInv ==
    \A read \in {replica, seen} :
       /\ read \in Complete => payment.status \in Complete
       /\ read = "Canceled" => payment.status = "Canceled"

\* The invariant about what the job has read, which needs MinGap = 1.
LEMMA ReadInvAlways ==
    ASSUME MinGap = 1
    PROVE  Spec => []ReadInv
<1>1. Init => ReadInv
  BY DEF Init, ReadInv, Complete
<1>2. ReadInv /\ ReconciliationInv /\ [Next]_vars => ReadInv'
  <2> SUFFICES ASSUME ReadInv, ReconciliationInv, [Next]_vars
               PROVE  ReadInv'
    OBVIOUS
  <2>1. /\ replica' \in {replica, payment'.status}
        /\ seen' \in {seen, replica, "Pending"}
    <3>1. CASE Replicate
      BY <3>1 DEF Replicate
    <3>2. ASSUME NEW k \in DOMAIN issued, Receive(k)
          PROVE  UNCHANGED <<replica, seen>>
      BY <3>2 DEF Receive
    <3>3. CASE TryCharge \/ SettleCharge \/ Refund \/ Dispute
               \/ GrowOld \/ Expire
      BY <3>3 DEF TryCharge, SettleCharge, Refund, Dispute, GrowOld, Expire
    <3>4. CASE \/ JobStarts \/ JobLists \/ JobReplays \/ JobReads
               \/ JobReportsMatch \/ JobReportsMismatch
               \/ JobDecidesToCancel \/ JobCancels \/ JobCancelRefused
               \/ JobFails
      BY <3>4 DEF JobStarts, JobLists, JobReplays, JobReads, JobReportsMatch,
         JobReportsMismatch, JobCompares, JobDecidesToCancel, JobCancels,
         JobCancelRefused, JobFails
    <3>5. CASE UNCHANGED vars
      BY <3>5 DEF vars
    <3> QED
      BY <3>1, <3>2, <3>3, <3>4, <3>5 DEF Next, JobStep
  <2>2. "Pending" \notin Complete
    BY DEF Complete
  <2> QED
    BY <2>1, <2>2, Final DEF ReadInv
<1> QED
  BY <1>1, <1>2, InvAlways, PTL DEF Spec

\* The report of a match is true of the payment itself, although the job has
\* read it from a secondary that may be behind: what it reads as complete or
\* canceled is final.
THEOREM ReportIsHonest ==
    ASSUME MinGap = 1
    PROVE  Spec => HonestReport
<1>1. ReadInv /\ [Next]_vars
         => [JobReportsMatch =>
                /\ intent.status = "succeeded" => payment.status \in Complete
                /\ intent.status = "canceled" => payment.status = "Canceled"]_vars
  <2> SUFFICES ASSUME ReadInv, JobReportsMatch
               PROVE  /\ intent.status = "succeeded" => payment.status \in Complete
                      /\ intent.status = "canceled" => payment.status = "Canceled"
    OBVIOUS
  <2>1. Agree(intent.status, seen)
    BY DEF JobReportsMatch, JobCompares
  <2> QED
    BY <2>1 DEF Agree, ReadInv
<1> QED
  BY <1>1, ReadInvAlways, PTL DEF Spec, HonestReport

=============================================================================
