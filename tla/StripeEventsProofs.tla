------------------------- MODULE StripeEventsProofs -------------------------
(***************************************************************************)
(* Proofs about the Stripe event handler, for every number of handlers,    *)
(* payments, events and faults.                                            *)
(***************************************************************************)
EXTENDS StripeEvents, PaymentStateProofs

-----------------------------------------------------------------------------
(* Types.                                                                   *)

\* What the fold over the log computes cannot be typed by induction over the
\* log; it is the value of the fold for some log.
ComputedCharge == {computePaymentState(log).chargeIdLatest : log \in Seq(Event)}
ComputedPayout == {computePayoutDetails(log) : log \in Seq(Event)}

PaymentDoc ==
    [log              : Seq(Event),
     status           : PaymentStatus,
     chargeIdLatest   : ComputedCharge \cup {NoCharge},
     completedPayment : Event \cup {NoEvent},
     payout           : ComputedPayout \cup {NoPayout},
     responses        : BOOLEAN]

TypeInv ==
    /\ payments \in [Payment -> PaymentDoc]
    /\ submissions \subseteq Payment
    /\ replica \in [Payment -> [confirmed : BOOLEAN, responses : BOOLEAN]]
    /\ acked \subseteq Event
    /\ notified \in [Payment -> [Kinds -> 0..NotifyCap]]
    /\ faults \in 0..MaxFaults
    /\ pc \in [Handler -> Control]
    /\ event \in [Handler -> Event \cup {NoEvent}]
    /\ todo \in [Handler -> Seq(Payment \cup {Foreign})]
    /\ err \in [Handler -> {"ok", "foreign", "error"}]
    /\ snap \in [Handler -> PaymentDoc \cup {NoDoc}]
    /\ \A h \in Handler : pc[h] \in InTransaction => snap[h] \in PaymentDoc
    /\ read \in [Handler -> BOOLEAN]

\* The types the proofs use say more than those the runs check.
LEMMA TypeInvImpliesTypeOK == TypeInv => TypeOK
  BY DEF TypeInv, TypeOK, PaymentDoc

\* An event that can be processed leaves a payment document.
LEMMA ProcessType ==
    ASSUME NEW doc \in PaymentDoc, NEW e \in Event,
           Process(doc, e).status \in PaymentStatus
    PROVE  /\ Process(doc, e) \in PaymentDoc
           /\ Process(doc, e).log = InsertByCreated(doc.log, e)
           /\ Process(doc, e).responses = doc.responses
           /\ Process(doc, e).completedPayment =
                 IF Confirms(doc, e) THEN e ELSE doc.completedPayment
<1> DEFINE log == InsertByCreated(doc.log, e)
<1>1. log \in Seq(Event)
  BY InsertEntries DEF PaymentDoc
<1> HIDE DEF log
<1>2. /\ computePaymentState(log).chargeIdLatest \in ComputedCharge
      /\ computePayoutDetails(log) \in ComputedPayout
  BY <1>1 DEF ComputedCharge, ComputedPayout
<1>3. Process(doc, e) =
        [log              |-> log,
         status           |-> computePaymentState(log).status,
         chargeIdLatest   |-> computePaymentState(log).chargeIdLatest,
         completedPayment |-> IF Confirms(doc, e) THEN e
                              ELSE doc.completedPayment,
         payout           |-> computePayoutDetails(log),
         responses        |-> doc.responses]
  BY DEF Process, log
<1>4. /\ doc.completedPayment \in Event \cup {NoEvent}
      /\ doc.responses \in BOOLEAN
  BY DEF PaymentDoc
<1>5. computePaymentState(log).status \in PaymentStatus
  BY <1>3
<1>6. Process(doc, e) \in PaymentDoc
  BY <1>1, <1>2, <1>3, <1>4, <1>5 DEF PaymentDoc
<1> QED
  BY <1>3, <1>6 DEF log

\* Types of what a running handler works on.
LEMMA HandlerTypes ==
    ASSUME TypeInv, HandlerInv, NEW h \in Handler
    PROVE  /\ todo[h] # <<>> => /\ Cur(h) \in Payment \cup {Foreign}
                               /\ Tail(todo[h]) \in Seq(Payment \cup {Foreign})
           /\ pc[h] # "idle" => event[h] \in Event
           /\ pc[h] \in InTransaction => /\ todo[h] # <<>>
                                         /\ Cur(h) \in Payment
                                         /\ snap[h] \in PaymentDoc
<1>1. todo[h] \in Seq(Payment \cup {Foreign})
  BY DEF TypeInv
<1>2. todo[h] # <<>> => /\ Cur(h) \in Payment \cup {Foreign}
                        /\ Tail(todo[h]) \in Seq(Payment \cup {Foreign})
  BY <1>1, HeadTailProperties DEF Cur
<1> QED
  BY <1>2 DEF TypeInv, HandlerInv, VisitsTargets, OwnsSnapshot, Running

\* Behind a payment that was recorded is the payment of the event.
LEMMA PaidType ==
    ASSUME TypeInv, HandlerInv, NEW h \in Handler, pc[h] \in PostActions
    PROVE  /\ Paid(h) \in Payment
           /\ Targets(event[h]) = {Paid(h)}
           /\ event[h] \in Event
           /\ event[h].type = "charge.succeeded"
           /\ IsDuplicate(payments[Paid(h)], event[h])
<1>1. /\ event[h] \in Event /\ event[h].type = "charge.succeeded"
      /\ err[h] = "ok" /\ todo[h] = <<>>
  BY DEF HandlerInv, VisitsTargets, ActsOnPaid, Running, PostActions
<1>2. /\ event[h].targets \in Seq(Payment \cup {Foreign})
      /\ Len(event[h].targets) = 1
  BY <1>1, EventAssumption
<1>3. Paid(h) = event[h].targets[1] /\ DOMAIN event[h].targets = {1}
  BY <1>2 DEF Paid
<1>4. Targets(event[h]) = {Paid(h)}
  BY <1>3 DEF Targets
<1>5. /\ Paid(h) \in Payment
      /\ IsDuplicate(payments[Paid(h)], event[h])
  <2>1. pc[h] # "idle"
    BY DEF PostActions
  <2>2. DOMAIN todo[h] = {}
    BY <1>1
  <2> QED
    BY <1>1, <1>4, <2>1, <2>2 DEF HandlerInv, VisitsTargets, Running
<1> QED
  BY <1>1, <1>4, <1>5

\* The types hold at first.
LEMMA TypeInvInit == Init => TypeInv
<1> SUFFICES ASSUME Init PROVE TypeInv
  OBVIOUS
<1>1. NewPayment \in PaymentDoc
  BY DEF NewPayment, PaymentDoc, PaymentStatus
<1>2. \A h \in Handler : pc[h] \notin InTransaction
  BY DEF Init, InTransaction
<1> QED
  BY <1>1, <1>2, BoundAssumption DEF Init, TypeInv, Control

\* Each step keeps the types.
LEMMA TypeInvNext == TypeInv /\ HandlerInv /\ [Next]_vars => TypeInv'
<1> SUFFICES ASSUME TypeInv, HandlerInv, [Next]_vars
             PROVE  TypeInv'
  OBVIOUS
<1> USE DEF GoTo, FinishTarget, Reset, Fault
<1>1. ASSUME NEW h \in Handler, NEW e \in Event, Deliver(h, e)
      PROVE  TypeInv'
  <2>1. e.targets \in Seq(Payment \cup {Foreign})
    BY EventAssumption
  <2> QED
    BY <1>1, <2>1 DEF Deliver, TypeInv, Control, InTransaction
<1>2. ASSUME NEW h \in Handler, Lookup(h)
      PROVE  TypeInv'
  BY <1>2, BoundAssumption DEF Lookup, TypeInv, Control, InTransaction
<1>3. ASSUME NEW h \in Handler, LookupFails(h)
      PROVE  TypeInv'
  BY <1>3, BoundAssumption DEF LookupFails, TypeInv, Control, InTransaction
<1>4. ASSUME NEW h \in Handler, SkipForeign(h)
      PROVE  TypeInv'
  BY <1>4, HandlerTypes, BoundAssumption
     DEF SkipForeign, ReadsPayment, TypeInv, Control, InTransaction
<1>5. ASSUME NEW h \in Handler, IgnoreDuplicate(h)
      PROVE  TypeInv'
  BY <1>5, HandlerTypes, BoundAssumption
     DEF IgnoreDuplicate, ReadsPayment, TypeInv, Control, InTransaction
<1>6. ASSUME NEW h \in Handler, RejectMalformed(h)
      PROVE  TypeInv'
  BY <1>6, HandlerTypes, BoundAssumption
     DEF RejectMalformed, ReadsPayment, TypeInv, Control, InTransaction
<1>7. ASSUME NEW h \in Handler, BeginTransaction(h)
      PROVE  TypeInv'
  BY <1>7 DEF BeginTransaction, ReadsPayment, TypeInv, Control, InTransaction
<1>8. ASSUME NEW h \in Handler, CopySubmission(h)
      PROVE  TypeInv'
  BY <1>8, BoundAssumption DEF CopySubmission, TypeInv, Control, InTransaction
<1>9. ASSUME NEW h \in Handler, CopyFails(h)
      PROVE  TypeInv'
  BY <1>9, HandlerTypes, BoundAssumption
     DEF CopyFails, ReadsPayment, TypeInv, Control, InTransaction
<1>10. ASSUME NEW h \in Handler, Save(h)
      PROVE  TypeInv'
  BY <1>10, BoundAssumption DEF Save, TypeInv, Control, InTransaction
<1>11. ASSUME NEW h \in Handler, RetryTransaction(h)
      PROVE  TypeInv'
  BY <1>11, BoundAssumption DEF RetryTransaction, TypeInv, Control, InTransaction
<1>12. ASSUME NEW h \in Handler, Commit(h)
      PROVE  TypeInv'
  <2>1. Process(snap[h], event[h]) \in PaymentDoc
    BY <1>12, HandlerTypes, ProcessType DEF Commit, HandlerInv, CommitsFresh, InTransaction
  <2> QED
    BY <1>12, <2>1, HandlerTypes DEF Commit, TypeInv, Control, InTransaction
<1>13. ASSUME NEW h \in Handler, TransactionFails(h)
      PROVE  TypeInv'
  BY <1>13, HandlerTypes, BoundAssumption
     DEF TransactionFails, ReadsPayment, TypeInv, Control, InTransaction
<1>14. ASSUME NEW h \in Handler, AllTargetsDone(h)
      PROVE  TypeInv'
  BY <1>14, BoundAssumption DEF AllTargetsDone, TypeInv, Control, InTransaction
<1>15. ASSUME NEW h \in Handler, ReadSecondary(h)
      PROVE  TypeInv'
  <2>1. Paid(h) \in Payment
    BY <1>15, PaidType DEF ReadSecondary, PostActions
  <2> QED
    BY <1>15, <2>1 DEF ReadSecondary, TypeInv, Control, InTransaction
<1>16. ASSUME NEW h \in Handler, SecondaryStale(h)
      PROVE  TypeInv'
  BY <1>16, BoundAssumption DEF SecondaryStale, TypeInv, Control, InTransaction
<1>17. ASSUME NEW h \in Handler, SendWebhook(h)
      PROVE  TypeInv'
  <2>1. Paid(h) \in Payment
    BY <1>17, PaidType DEF SendWebhook, PostActions
  <2>2. \A kind \in Kinds : Notify(Paid(h), kind) =>
           notified' \in [Payment -> [Kinds -> 0..NotifyCap]]
    BY <2>1, BoundAssumption DEF Notify, TypeInv
  <2> QED
    BY <1>17, <2>2, BoundAssumption DEF SendWebhook, TypeInv, Control, InTransaction, Kinds
<1>18. ASSUME NEW h \in Handler, SendConfirmations(h)
      PROVE  TypeInv'
  <2>1. Paid(h) \in Payment
    BY <1>18, PaidType DEF SendConfirmations, PostActions
  <2>2. \A kind \in Kinds : Notify(Paid(h), kind) =>
           notified' \in [Payment -> [Kinds -> 0..NotifyCap]]
    BY <2>1, BoundAssumption DEF Notify, TypeInv
  <2> QED
    BY <1>18, <2>2, BoundAssumption DEF SendConfirmations, TypeInv, Control, InTransaction, Kinds
<1>19. ASSUME NEW h \in Handler, DeleteResponses(h)
      PROVE  TypeInv'
  <2>1. Paid(h) \in Payment
    BY <1>19, PaidType DEF DeleteResponses, PostActions
  <2>2. [payments[Paid(h)] EXCEPT !.responses = FALSE] \in PaymentDoc
    <3>1. payments[Paid(h)] \in PaymentDoc
      BY <2>1 DEF TypeInv
    <3> QED
      BY <3>1 DEF PaymentDoc
  <2>3. payments' = [payments EXCEPT ![Paid(h)] =
                       [payments[Paid(h)] EXCEPT !.responses = FALSE]]
    BY <1>19 DEF DeleteResponses
  <2>4. payments' \in [Payment -> PaymentDoc]
    BY <2>1, <2>2, <2>3 DEF TypeInv
  <2> QED
    BY <1>19, <2>4 DEF DeleteResponses, TypeInv, Control, InTransaction
<1>20. ASSUME NEW h \in Handler, NotificationFails(h)
      PROVE  TypeInv'
  <2>1. Paid(h) \in Payment
    BY <1>20, PaidType DEF NotificationFails, PostActions
  <2>2. \A kind \in Kinds : Notify(Paid(h), kind) =>
           notified' \in [Payment -> [Kinds -> 0..NotifyCap]]
    BY <2>1, BoundAssumption DEF Notify, TypeInv
  <2> QED
    BY <1>20, <2>2, BoundAssumption DEF NotificationFails, TypeInv, Control, InTransaction, Kinds
<1>21. ASSUME NEW h \in Handler, SendReceipt(h)
      PROVE  TypeInv'
  <2>1. Paid(h) \in Payment
    BY <1>21, PaidType DEF SendReceipt, PostActions
  <2>2. \A kind \in Kinds : Notify(Paid(h), kind) =>
           notified' \in [Payment -> [Kinds -> 0..NotifyCap]]
    BY <2>1, BoundAssumption DEF Notify, TypeInv
  <2> QED
    BY <1>21, <2>2, BoundAssumption DEF SendReceipt, TypeInv, Control, InTransaction, Kinds
<1>22. ASSUME NEW h \in Handler, PostActionsFail(h)
      PROVE  TypeInv'
  BY <1>22, BoundAssumption DEF PostActionsFail, TypeInv, Control, InTransaction
<1>23. ASSUME NEW h \in Handler, Respond(h)
      PROVE  TypeInv'
  BY <1>23, HandlerTypes DEF Respond, TypeInv, Control, InTransaction
<1>24. ASSUME NEW h \in Handler, Crash(h)
      PROVE  TypeInv'
  BY <1>24, BoundAssumption DEF Crash, TypeInv, Control, InTransaction
<1>25. ASSUME NEW p \in Payment, Replicate(p)
      PROVE  TypeInv'
  BY <1>25 DEF Replicate, TypeInv, PaymentDoc
<1>26. CASE UNCHANGED vars
  BY <1>26 DEF vars, TypeInv
<1> QED
  BY <1>1, <1>2, <1>3, <1>4, <1>5, <1>6, <1>7, <1>8, <1>9, <1>10, <1>11, <1>12, <1>13, <1>14, <1>15, <1>16, <1>17, <1>18, <1>19, <1>20, <1>21, <1>22, <1>23, <1>24, <1>25, <1>26 DEF Next, Progress, Failure

-----------------------------------------------------------------------------
(* The two writers of the payments collection.                              *)

\* A commit applies the event to the payment as it is now, not as it was.
LEMMA CommitEffect ==
    ASSUME TypeInv, HandlerInv, NEW h \in Handler, Commit(h)
    PROVE  /\ Cur(h) \in Payment /\ event[h] \in Event
           /\ payments' = [payments EXCEPT ![Cur(h)] =
                              Process(payments[Cur(h)], event[h])]
           /\ payments'[Cur(h)] = Process(payments[Cur(h)], event[h])
           /\ payments[Cur(h)] \in PaymentDoc
           /\ Process(payments[Cur(h)], event[h]).status \in PaymentStatus
           /\ ~IsDuplicate(payments[Cur(h)], event[h])
           /\ Acceptable(Cur(h), payments[Cur(h)], event[h])
           /\ Confirms(payments[Cur(h)], event[h]) => Cur(h) \notin submissions
           /\ submissions' = IF Confirms(payments[Cur(h)], event[h])
                             THEN submissions \cup {Cur(h)} ELSE submissions
           /\ Cur(h) \in Targets(event[h])
<1>1. pc[h] = "commit" /\ pc[h] \in InTransaction
  BY DEF Commit, InTransaction
<1>2. /\ todo[h] # <<>> /\ Cur(h) \in Payment /\ event[h] \in Event
      /\ snap[h] = payments[Cur(h)]
  BY <1>1, HandlerTypes DEF HandlerInv, CommitsFresh
<1>3. Cur(h) \in Targets(event[h])
  <2>1. 1 \in DOMAIN todo[h] /\ Cur(h) = todo[h][1]
    BY <1>2, LenProperties, EmptySeq DEF TypeInv, Cur
  <2> QED
    BY <1>1, <2>1 DEF HandlerInv, VisitsTargets, Running
<1>4. /\ Process(snap[h], event[h]).status \in PaymentStatus
      /\ ~IsDuplicate(snap[h], event[h])
      /\ Acceptable(Cur(h), snap[h], event[h])
      /\ Confirms(snap[h], event[h]) => Cur(h) \notin submissions
  BY <1>1 DEF HandlerInv, CommitsFresh, OwnsSnapshot, SubmissionTaken
<1>5. payments' = [payments EXCEPT ![Cur(h)] = Process(snap[h], event[h])]
  BY DEF Commit
<1>6. payments \in [Payment -> PaymentDoc]
  BY DEF TypeInv
<1>7. submissions' = IF Confirms(snap[h], event[h])
                     THEN submissions \cup {Cur(h)} ELSE submissions
  BY DEF Commit
<1> QED
  BY <1>2, <1>3, <1>4, <1>5, <1>6, <1>7

\* The deletion of the responses changes nothing else in a document.
LEMMA DeleteEffect ==
    ASSUME TypeInv, HandlerInv, NEW h \in Handler, DeleteResponses(h)
    PROVE  /\ Paid(h) \in Payment
           /\ payments' = [payments EXCEPT ![Paid(h)].responses = FALSE]
           /\ submissions' = submissions
           /\ \A p \in Payment :
                 /\ payments'[p].log = payments[p].log
                 /\ payments'[p].completedPayment = payments[p].completedPayment
                 /\ p # Paid(h) => payments'[p] = payments[p]
<1>1. Paid(h) \in Payment
  BY PaidType DEF DeleteResponses, PostActions
<1>2. /\ payments' = [payments EXCEPT ![Paid(h)] =
                        [payments[Paid(h)] EXCEPT !.responses = FALSE]]
      /\ submissions' = submissions
  BY DEF DeleteResponses
<1>3. payments[Paid(h)] \in PaymentDoc
  BY <1>1 DEF TypeInv
<1>4. /\ payments'[Paid(h)].log = payments[Paid(h)].log
      /\ payments'[Paid(h)].completedPayment =
            payments[Paid(h)].completedPayment
  BY <1>1, <1>2, <1>3 DEF TypeInv, PaymentDoc
<1>5. \A p \in Payment : p # Paid(h) => payments'[p] = payments[p]
  BY <1>2 DEF TypeInv
<1> QED
  BY <1>1, <1>2, <1>4, <1>5

\* No other step touches the payments collection or the submissions.
LEMMA OtherSteps ==
    ASSUME [Next]_vars,
           \A h \in Handler : ~Commit(h) /\ ~DeleteResponses(h)
    PROVE  payments' = payments /\ submissions' = submissions
  BY DEF Next, Progress, Failure, Deliver, Lookup, LookupFails, SkipForeign,
         IgnoreDuplicate, RejectMalformed, BeginTransaction, CopySubmission,
         CopyFails, Save, RetryTransaction, TransactionFails, AllTargetsDone,
         ReadSecondary, SecondaryStale, SendWebhook, SendConfirmations,
         NotificationFails, SendReceipt, PostActionsFail, Respond, Crash,
         Replicate, vars

\* A recorded event stays recorded, and its entry in the log stays.
LEMMA LogGrows ==
    ASSUME TypeInv, HandlerInv, [Next]_vars
    PROVE  \A p \in Payment :
             /\ ToSet(payments[p].log) \subseteq ToSet(payments'[p].log)
             /\ \A e : IsDuplicate(payments[p], e) => IsDuplicate(payments'[p], e)
<1>1. ASSUME NEW h \in Handler, Commit(h), NEW p \in Payment
      PROVE  ToSet(payments[p].log) \subseteq ToSet(payments'[p].log)
  <2>1. CASE p = Cur(h)
    <3>1. /\ payments[p] \in PaymentDoc /\ event[h] \in Event
          /\ payments'[p] = Process(payments[p], event[h])
          /\ Process(payments[p], event[h]).status \in PaymentStatus
      BY <1>1, <2>1, CommitEffect
    <3> DEFINE log == payments[p].log
               new == InsertByCreated(log, event[h])
    <3>2. payments'[p].log = new
      BY <3>1, ProcessType
    <3>3. log \in Seq(Event)
      BY <3>1 DEF PaymentDoc
    <3>4. ToSet(log) \subseteq ToSet(new)
      <4> HIDE DEF log
      <4> QED
        BY <3>1, <3>3, InsertEntries
    <3> HIDE DEF new
    <3> QED
      BY <3>2, <3>4
  <2>2. CASE p # Cur(h)
    <3>1. payments'[p] = payments[p]
      BY <1>1, <2>2, CommitEffect DEF TypeInv
    <3> QED
      BY <3>1
  <2> QED
    BY <2>1, <2>2
<1>2. \A p \in Payment : ToSet(payments[p].log) \subseteq ToSet(payments'[p].log)
  <2>1. CASE \E h \in Handler : Commit(h)
    BY <1>1, <2>1
  <2>2. CASE \E h \in Handler : DeleteResponses(h)
    BY <2>2, DeleteEffect
  <2>3. CASE \A h \in Handler : ~Commit(h) /\ ~DeleteResponses(h)
    BY <2>3, OtherSteps
  <2> QED
    BY <2>1, <2>2, <2>3
<1> QED
  BY <1>2 DEF IsDuplicate, ToSet

-----------------------------------------------------------------------------
(* The inductive invariant.                                                 *)

SameHandler(g) ==
    /\ pc'[g] = pc[g] /\ event'[g] = event[g] /\ todo'[g] = todo[g]
    /\ err'[g] = err[g] /\ snap'[g] = snap[g]

\* What a handler relies on survives the step of another one, if that step
\* leaves alone the documents the handler holds.
LEMMA OthersKeep ==
    ASSUME TypeInv, HandlerInv, [Next]_vars, NEW h, NEW g \in Handler \ {h},
           \A k \in Handler \ {h} : SameHandler(k),
           HoldsPayment(g, Cur(g)) =>
              payments'[Cur(g)] = payments[Cur(g)] /\ ~HoldsPayment(h, Cur(g))',
           HoldsSubmission(g, Cur(g)) =>
              Cur(g) \notin submissions' /\ ~HoldsSubmission(h, Cur(g))'
    PROVE  /\ VisitsTargets(g)' /\ OwnsSnapshot(g)'
           /\ CommitsFresh(g)' /\ ActsOnPaid(g)'
<1> SameHandler(g)
  OBVIOUS
<1>1. VisitsTargets(g) /\ OwnsSnapshot(g) /\ CommitsFresh(g) /\ ActsOnPaid(g)
  BY DEF HandlerInv
<1>2. VisitsTargets(g)'
  BY <1>1, LogGrows DEF VisitsTargets, Running, SameHandler
<1>3. OwnsSnapshot(g)' /\ ActsOnPaid(g)'
  BY <1>1 DEF OwnsSnapshot, ActsOnPaid, SameHandler, Cur
<1>4. ASSUME pc'[g] = "commit"
      PROVE  /\ snap'[g] = payments'[Cur(g)']
             /\ Process(snap'[g], event'[g]).status \in PaymentStatus
             /\ \A k \in Handler \ {g} : ~HoldsPayment(k, Cur(g))'
  <2>1. pc[g] = "commit" /\ Cur(g)' = Cur(g)
    BY <1>4 DEF SameHandler, Cur
  <2>2. HoldsPayment(g, Cur(g))
    BY <2>1 DEF HoldsPayment
  <2>3. \A k \in Handler \ {g} : k # h => ~HoldsPayment(k, Cur(g))'
    BY <1>1, <2>1 DEF CommitsFresh, HoldsPayment, SameHandler, Cur
  <2> QED
    BY <1>1, <2>1, <2>2, <2>3 DEF CommitsFresh, SameHandler
<1>5. ASSUME pc'[g] \in {"save", "commit"}, Confirms(snap[g], event[g])'
      PROVE  ~SubmissionTaken(g)'
  <2>1. /\ pc[g] \in {"save", "commit"} /\ Cur(g)' = Cur(g)
        /\ Confirms(snap[g], event[g])
    BY <1>5 DEF SameHandler, Cur
  <2>2. HoldsSubmission(g, Cur(g))
    BY <2>1 DEF HoldsSubmission
  <2>3. \A k \in Handler \ {g} : k # h => ~HoldsSubmission(k, Cur(g))'
    BY <1>1, <2>1 DEF CommitsFresh, SubmissionTaken, HoldsSubmission, SameHandler, Cur
  <2> QED
    BY <2>1, <2>2, <2>3 DEF SubmissionTaken
<1> QED
  BY <1>2, <1>3, <1>4, <1>5 DEF CommitsFresh

\* A step that leaves the collections alone and opens no transaction keeps
\* the invariant, if it keeps the progress of its own handler.
LEMMA QuietStep ==
    ASSUME TypeInv, HandlerInv, [Next]_vars, NEW h,
           \A k \in Handler \ {h} : SameHandler(k),
           payments' = payments, submissions' = submissions,
           pc'[h] \notin InTransaction, VisitsTargets(h)', ActsOnPaid(h)'
    PROVE  HandlerInv'
<1>1. ASSUME NEW g \in Handler \ {h}
      PROVE  /\ VisitsTargets(g)' /\ OwnsSnapshot(g)'
             /\ CommitsFresh(g)' /\ ActsOnPaid(g)'
  <2>1. ~HoldsPayment(h, Cur(g))' /\ ~HoldsSubmission(h, Cur(g))'
    BY DEF HoldsPayment, HoldsSubmission, InTransaction
  <2>2. HoldsSubmission(g, Cur(g)) => Cur(g) \notin submissions
    BY DEF HandlerInv, CommitsFresh, SubmissionTaken, HoldsSubmission
  <2> QED
    BY <2>1, <2>2, OthersKeep
<1>2. OwnsSnapshot(h)' /\ CommitsFresh(h)'
  BY DEF OwnsSnapshot, CommitsFresh, InTransaction
<1> QED
  BY <1>1, <1>2 DEF HandlerInv

\* A handler that finishes a target has visited one more: it succeeded only if
\* the payment has the event, and took it for foreign only if it is.
LEMMA FinishVisits ==
    ASSUME TypeInv, HandlerInv, [Next]_vars, NEW h \in Handler,
           Running(h), todo[h] # <<>>,
           NEW result \in {"ok", "foreign", "error"}, FinishTarget(h, result),
           result = "ok" =>
              Cur(h) \in Payment /\ IsDuplicate(payments'[Cur(h)], event[h]),
           result = "foreign" => Cur(h) = Foreign
    PROVE  /\ VisitsTargets(h)' /\ ActsOnPaid(h)'
           /\ pc'[h] = "next"
           /\ \A k \in Handler \ {h} : SameHandler(k)
<1>1. /\ pc'[h] = "next" /\ event'[h] = event[h]
      /\ todo'[h] = Tail(todo[h])
      /\ err'[h] = IF result = "ok" THEN err[h] ELSE result
      /\ \A k \in Handler \ {h} : SameHandler(k)
  BY DEF FinishTarget, GoTo, TypeInv, SameHandler
<1>2. ActsOnPaid(h)'
  BY <1>1 DEF ActsOnPaid, PostActions
<1>3. /\ todo[h] \in Seq(Payment \cup {Foreign})
      /\ Cur(h) = todo[h][1] /\ 1 \in DOMAIN todo[h]
      /\ \A i \in DOMAIN Tail(todo[h]) :
            i + 1 \in DOMAIN todo[h] /\ Tail(todo[h])[i] = todo[h][i + 1]
      /\ \A i \in DOMAIN todo[h] :
            i # 1 => i - 1 \in DOMAIN Tail(todo[h])
                     /\ Tail(todo[h])[i - 1] = todo[h][i]
  <2>1. todo[h] \in Seq(Payment \cup {Foreign})
    BY DEF TypeInv
  <2> QED
    BY <2>1 DEF Cur
<1>4. VisitsTargets(h)
  BY DEF HandlerInv
<1>5. \A i \in DOMAIN todo'[h] : todo'[h][i] \in Targets(event[h])
  BY <1>1, <1>3, <1>4 DEF VisitsTargets
<1>6. ASSUME err'[h] = "ok", NEW t \in Targets(event[h])
      PROVE  \/ \E i \in DOMAIN todo'[h] : todo'[h][i] = t
             \/ t \in Payment /\ IsDuplicate(payments'[t], event[h])
  <2>1. result = "ok" /\ err[h] = "ok"
    BY <1>1, <1>6
  <2>2. CASE t = Cur(h)
    BY <2>1, <2>2
  <2>3. CASE \E i \in DOMAIN todo[h] : todo[h][i] = t /\ i # 1
    BY <2>3, <1>1, <1>3
  <2>4. CASE t \in Payment /\ IsDuplicate(payments[t], event[h])
    BY <2>4, LogGrows
  <2> QED
    BY <2>1, <2>2, <2>3, <2>4, <1>3, <1>4 DEF VisitsTargets
<1>7. err'[h] = "foreign" => Foreign \in Targets(event[h])
  BY <1>1, <1>3, <1>4 DEF VisitsTargets
<1>8. VisitsTargets(h)'
  <2>1. event[h] \in Event
    BY <1>4 DEF VisitsTargets
  <2> QED
    BY <2>1, <1>1, <1>5, <1>6, <1>7 DEF VisitsTargets, Running
<1> QED
  BY <1>1, <1>2, <1>8

\* A target finished outside of a commit.
LEMMA FinishStep ==
    ASSUME TypeInv, HandlerInv, [Next]_vars, NEW h \in Handler,
           Running(h), todo[h] # <<>>,
           payments' = payments, submissions' = submissions,
           NEW result \in {"ok", "foreign", "error"}, FinishTarget(h, result),
           result = "ok" =>
              Cur(h) \in Payment /\ IsDuplicate(payments[Cur(h)], event[h]),
           result = "foreign" => Cur(h) = Foreign
    PROVE  HandlerInv'
<1>1. /\ VisitsTargets(h)' /\ ActsOnPaid(h)' /\ pc'[h] = "next"
      /\ \A k \in Handler \ {h} : SameHandler(k)
  BY FinishVisits
<1> QED
  BY <1>1, QuietStep DEF InTransaction

\* A step of a running handler within its lookup, its actions after the
\* payment, or on its way to the response.
LEMMA PlainStep ==
    ASSUME TypeInv, HandlerInv, [Next]_vars, NEW h \in Handler, Running(h),
           payments' = payments, submissions' = submissions,
           event' = event, todo' = todo, snap' = snap,
           NEW label \in PostActions \cup {"next", "respond"}, GoTo(h, label),
           err' = err \/ err' = [err EXCEPT ![h] = "error"],
           label = "respond" => err'[h] = "error" \/ todo[h] = <<>>,
           label \in PostActions =>
              /\ event[h].type = "charge.succeeded"
              /\ err'[h] = "ok" /\ todo[h] = <<>>
    PROVE  HandlerInv'
<1>1. /\ pc'[h] = label
      /\ err'[h] \in {err[h], "error"}
      /\ \A k \in Handler \ {h} : SameHandler(k)
  BY DEF GoTo, TypeInv, SameHandler
<1>2. VisitsTargets(h)'
  BY <1>1 DEF HandlerInv, VisitsTargets, Running, PostActions
<1>3. ActsOnPaid(h)'
  BY <1>1 DEF ActsOnPaid, PostActions
<1> QED
  BY <1>1, <1>2, <1>3, QuietStep DEF InTransaction, PostActions

\* The end of a request, with or without a response.
LEMMA ResetStep ==
    ASSUME TypeInv, HandlerInv, [Next]_vars, NEW h \in Handler, Reset(h),
           payments' = payments, submissions' = submissions
    PROVE  HandlerInv'
<1>1. /\ pc'[h] = "idle" /\ err'[h] = "ok"
      /\ \A k \in Handler \ {h} : SameHandler(k)
  BY DEF Reset, GoTo, TypeInv, SameHandler
<1>2. VisitsTargets(h)' /\ ActsOnPaid(h)'
  BY <1>1 DEF VisitsTargets, Running, ActsOnPaid, PostActions
<1> QED
  BY <1>1, <1>2, QuietStep DEF InTransaction

\* The invariant holds at first, and every step keeps it.
LEMMA HandlerInvInit == Init => HandlerInv
  BY DEF Init, HandlerInv, VisitsTargets, OwnsSnapshot, CommitsFresh,
         ActsOnPaid, Running, InTransaction, PostActions

\* No step of a handler breaks what any handler relies on.
LEMMA HandlerInvNext == TypeInv /\ HandlerInv /\ [Next]_vars => HandlerInv'
<1> SUFFICES ASSUME TypeInv, HandlerInv, [Next]_vars
             PROVE  HandlerInv'
  OBVIOUS
<1>1. ASSUME NEW h \in Handler, NEW e \in Event, Deliver(h, e)
      PROVE  HandlerInv'
  <2>1. /\ pc'[h] \in {"lookup", "next"} /\ event'[h] = e
        /\ todo'[h] = e.targets /\ err'[h] = err[h] /\ pc[h] = "idle"
        /\ \A k \in Handler \ {h} : SameHandler(k)
        /\ payments' = payments /\ submissions' = submissions
    BY <1>1 DEF Deliver, GoTo, TypeInv, SameHandler
  <2>2. err[h] = "ok"
    BY <2>1 DEF HandlerInv, VisitsTargets
  <2>3. VisitsTargets(h)' /\ ActsOnPaid(h)'
    BY <2>1, <2>2 DEF VisitsTargets, Running, Targets, ActsOnPaid, PostActions
  <2> QED
    BY <2>1, <2>3, QuietStep DEF InTransaction
<1>2. ASSUME NEW h \in Handler, Lookup(h)
      PROVE  HandlerInv'
  BY <1>2, PlainStep DEF Lookup, Running, PostActions
<1>3. ASSUME NEW h \in Handler, LookupFails(h)
      PROVE  HandlerInv'
  <2>1. err'[h] = "error"
    BY <1>3 DEF LookupFails, TypeInv
  <2> QED
    BY <1>3, <2>1, PlainStep DEF LookupFails, Running, PostActions
<1>4. ASSUME NEW h \in Handler, SkipForeign(h)
      PROVE  HandlerInv'
  BY <1>4, FinishStep DEF SkipForeign, Running
<1>5. ASSUME NEW h \in Handler, IgnoreDuplicate(h)
      PROVE  HandlerInv'
  BY <1>5, FinishStep DEF IgnoreDuplicate, ReadsPayment, Running
<1>6. ASSUME NEW h \in Handler, RejectMalformed(h)
      PROVE  HandlerInv'
  BY <1>6, FinishStep DEF RejectMalformed, ReadsPayment, Running
<1>7. ASSUME NEW h \in Handler, BeginTransaction(h)
      PROVE  HandlerInv'
  <2>1. /\ pc'[h] = IF Confirms(payments[Cur(h)], event[h])
                    THEN "confirm" ELSE "save"
        /\ snap'[h] = payments[Cur(h)] /\ event'[h] = event[h]
        /\ todo'[h] = todo[h] /\ err'[h] = err[h]
        /\ \A k \in Handler \ {h} : SameHandler(k)
        /\ payments' = payments /\ submissions' = submissions
        /\ pc[h] = "next" /\ todo[h] # <<>> /\ Cur(h) \in Payment
        /\ ~IsDuplicate(payments[Cur(h)], event[h])
        /\ Acceptable(Cur(h), payments[Cur(h)], event[h])
        /\ Cur(h)' = Cur(h)
    BY <1>7 DEF BeginTransaction, ReadsPayment, GoTo, TypeInv, SameHandler, Cur
  <2>2. pc'[h] = "save" => ~Confirms(snap'[h], event'[h])
    BY <2>1
  <2>3. VisitsTargets(h)' /\ ActsOnPaid(h)' /\ OwnsSnapshot(h)' /\ CommitsFresh(h)'
    <3>1. VisitsTargets(h)'
      BY <2>1 DEF HandlerInv, VisitsTargets, Running
    <3>2. ActsOnPaid(h)' /\ OwnsSnapshot(h)'
      BY <2>1 DEF ActsOnPaid, PostActions, OwnsSnapshot
    <3>3. CommitsFresh(h)'
      BY <2>1, <2>2 DEF CommitsFresh
    <3> QED
      BY <3>1, <3>2, <3>3
  <2>4. ASSUME NEW g \in Handler \ {h}
        PROVE  /\ VisitsTargets(g)' /\ OwnsSnapshot(g)'
               /\ CommitsFresh(g)' /\ ActsOnPaid(g)'
    <3>1. ~HoldsPayment(h, Cur(g))' /\ ~HoldsSubmission(h, Cur(g))'
      BY <2>1, <2>2 DEF HoldsPayment, HoldsSubmission
    <3>2. HoldsSubmission(g, Cur(g)) => Cur(g) \notin submissions
      BY DEF HandlerInv, CommitsFresh, SubmissionTaken, HoldsSubmission
    <3> QED
      BY <2>1, <3>1, <3>2, OthersKeep
  <2> QED
    BY <2>3, <2>4 DEF HandlerInv
<1>8. ASSUME NEW h \in Handler, CopySubmission(h)
      PROVE  HandlerInv'
  <2>1. /\ pc[h] = "confirm" /\ pc'[h] = "save" /\ ~SubmissionTaken(h)
        /\ SameHandler(h) \/ pc'[h] = "save"
        /\ snap' = snap /\ event' = event /\ todo' = todo /\ err' = err
        /\ \A k \in Handler \ {h} : SameHandler(k)
        /\ payments' = payments /\ submissions' = submissions
        /\ Cur(h)' = Cur(h)
    BY <1>8 DEF CopySubmission, GoTo, TypeInv, SameHandler, Cur
  <2>2. VisitsTargets(h)' /\ ActsOnPaid(h)' /\ OwnsSnapshot(h)'
    BY <2>1 DEF HandlerInv, VisitsTargets, Running, ActsOnPaid, PostActions,
                OwnsSnapshot, InTransaction
  <2>3. \A g \in Handler \ {h} : ~HoldsSubmission(g, Cur(h))'
    BY <2>1 DEF SubmissionTaken, HoldsSubmission, SameHandler, Cur
  <2>4. CommitsFresh(h)'
    BY <2>1, <2>3 DEF CommitsFresh, SubmissionTaken
  <2>5. ASSUME NEW g \in Handler \ {h}
        PROVE  /\ VisitsTargets(g)' /\ OwnsSnapshot(g)'
               /\ CommitsFresh(g)' /\ ActsOnPaid(g)'
    <3>1. ~HoldsPayment(h, Cur(g))'
      BY <2>1 DEF HoldsPayment
    <3>2. HoldsSubmission(g, Cur(g)) =>
             Cur(g) \notin submissions /\ ~HoldsSubmission(h, Cur(g))'
      <4> SUFFICES ASSUME HoldsSubmission(g, Cur(g))
                   PROVE  /\ Cur(g) \notin submissions
                          /\ ~HoldsSubmission(h, Cur(g))'
        OBVIOUS
      <4>1. Cur(g) \notin submissions
        BY DEF HandlerInv, CommitsFresh, SubmissionTaken, HoldsSubmission
      <4>2. Cur(g) # Cur(h)
        BY <2>1 DEF SubmissionTaken
      <4>3. Cur(g)' = Cur(g)
        BY <2>1 DEF Cur
      <4> QED
        BY <2>1, <4>1, <4>2, <4>3 DEF HoldsSubmission
    <3> QED
      BY <2>1, <3>1, <3>2, OthersKeep
  <2> QED
    BY <2>2, <2>4, <2>5 DEF HandlerInv
<1>9. ASSUME NEW h \in Handler, CopyFails(h)
      PROVE  HandlerInv'
  BY <1>9, FinishStep DEF CopyFails, Running, HandlerInv, OwnsSnapshot, InTransaction
<1>10. ASSUME NEW h \in Handler, Save(h)
      PROVE  HandlerInv'
  <2>1. /\ pc[h] = "save" /\ pc'[h] = "commit" /\ ~PaymentConflict(h)
        /\ Computable(h)
        /\ snap' = snap /\ event' = event /\ todo' = todo /\ err' = err
        /\ \A k \in Handler \ {h} : SameHandler(k)
        /\ payments' = payments /\ submissions' = submissions
        /\ Cur(h)' = Cur(h)
    BY <1>10 DEF Save, GoTo, TypeInv, SameHandler, Cur
  <2>2. VisitsTargets(h)' /\ ActsOnPaid(h)' /\ OwnsSnapshot(h)'
    BY <2>1 DEF HandlerInv, VisitsTargets, Running, ActsOnPaid, PostActions,
                OwnsSnapshot, InTransaction
  <2>3. \A g \in Handler \ {h} : ~HoldsPayment(g, Cur(h))'
    BY <2>1 DEF PaymentConflict, HoldsPayment, SameHandler, Cur
  <2>4. Confirms(snap[h], event[h]) => ~SubmissionTaken(h)'
    <3>1. Confirms(snap[h], event[h]) => ~SubmissionTaken(h)
      BY <2>1 DEF HandlerInv, CommitsFresh
    <3> QED
      BY <2>1, <3>1 DEF SubmissionTaken, HoldsSubmission, SameHandler, Cur
  <2>5. CommitsFresh(h)'
    BY <2>1, <2>3, <2>4 DEF CommitsFresh, PaymentConflict, Computable
  <2>6. ASSUME NEW g \in Handler \ {h}
        PROVE  /\ VisitsTargets(g)' /\ OwnsSnapshot(g)'
               /\ CommitsFresh(g)' /\ ActsOnPaid(g)'
    <3>1. HoldsPayment(g, Cur(g)) => ~HoldsPayment(h, Cur(g))'
      BY <2>1 DEF PaymentConflict, HoldsPayment, Cur
    <3>2. HoldsSubmission(g, Cur(g)) =>
             Cur(g) \notin submissions /\ ~HoldsSubmission(h, Cur(g))'
      <4>1. HoldsSubmission(g, Cur(g)) => ~SubmissionTaken(g)
        BY DEF HandlerInv, CommitsFresh, HoldsSubmission
      <4>2. HoldsSubmission(h, Cur(g))' => HoldsSubmission(h, Cur(g))
        BY <2>1 DEF HoldsSubmission, Cur
      <4> QED
        BY <4>1, <4>2 DEF SubmissionTaken
    <3> QED
      BY <2>1, <3>1, <3>2, OthersKeep
  <2> QED
    BY <2>2, <2>5, <2>6 DEF HandlerInv
<1>11. ASSUME NEW h \in Handler, RetryTransaction(h)
      PROVE  HandlerInv'
  <2>1. /\ pc[h] = "save" /\ pc'[h] = "next"
        /\ event' = event /\ todo' = todo /\ err' = err
        /\ \A k \in Handler \ {h} : SameHandler(k)
        /\ payments' = payments /\ submissions' = submissions
    BY <1>11 DEF RetryTransaction, GoTo, TypeInv, SameHandler
  <2>2. VisitsTargets(h)' /\ ActsOnPaid(h)'
    BY <2>1 DEF HandlerInv, VisitsTargets, Running, ActsOnPaid, PostActions
  <2> QED
    BY <2>1, <2>2, QuietStep DEF InTransaction
<1>12. ASSUME NEW h \in Handler, Commit(h)
      PROVE  HandlerInv'
  <2>1. /\ Running(h) /\ todo[h] # <<>> /\ FinishTarget(h, "ok")
        /\ pc[h] = "commit" /\ Cur(h) \in Payment
    BY <1>12, HandlerTypes DEF Commit, Running, InTransaction
  <2>2. IsDuplicate(payments'[Cur(h)], event[h])
    <3>1. /\ payments[Cur(h)] \in PaymentDoc /\ event[h] \in Event
          /\ payments'[Cur(h)] = Process(payments[Cur(h)], event[h])
          /\ Process(payments[Cur(h)], event[h]).status \in PaymentStatus
      BY <1>12, CommitEffect
    <3> DEFINE log == payments[Cur(h)].log
               new == InsertByCreated(log, event[h])
    <3>2. payments'[Cur(h)].log = new
      BY <3>1, ProcessType
    <3>3. log \in Seq(Event)
      BY <3>1 DEF PaymentDoc
    <3>4. event[h] \in ToSet(new)
      <4> HIDE DEF log
      <4> QED
        BY <3>1, <3>3, InsertEntries
    <3> HIDE DEF new
    <3> QED
      BY <3>2, <3>4 DEF IsDuplicate, ToSet
  <2>3. /\ VisitsTargets(h)' /\ ActsOnPaid(h)' /\ pc'[h] = "next"
        /\ \A k \in Handler \ {h} : SameHandler(k)
    BY <2>1, <2>2, FinishVisits
  <2>4. OwnsSnapshot(h)' /\ CommitsFresh(h)'
    BY <2>3 DEF OwnsSnapshot, CommitsFresh, InTransaction
  <2>5. ASSUME NEW g \in Handler \ {h}
        PROVE  /\ VisitsTargets(g)' /\ OwnsSnapshot(g)'
               /\ CommitsFresh(g)' /\ ActsOnPaid(g)'
    <3>1. ~HoldsPayment(h, Cur(g))' /\ ~HoldsSubmission(h, Cur(g))'
      BY <2>3 DEF HoldsPayment, HoldsSubmission
    <3>2. HoldsPayment(g, Cur(g)) => payments'[Cur(g)] = payments[Cur(g)]
      <4>1. HoldsPayment(g, Cur(g)) => Cur(g) \in Payment
        BY HandlerTypes DEF HoldsPayment, InTransaction
      <4>2. HoldsPayment(g, Cur(g)) => Cur(g) # Cur(h)
        BY <2>1 DEF HandlerInv, CommitsFresh
      <4> QED
        BY <1>12, <4>1, <4>2, CommitEffect DEF TypeInv
    <3>3. HoldsSubmission(g, Cur(g)) => Cur(g) \notin submissions'
      <4> SUFFICES ASSUME HoldsSubmission(g, Cur(g))
                   PROVE  Cur(g) \notin submissions'
        OBVIOUS
      <4>1. Cur(g) \notin submissions /\ ~HoldsSubmission(h, Cur(g))
        BY DEF HandlerInv, CommitsFresh, SubmissionTaken, HoldsSubmission
      <4>2. Confirms(snap[h], event[h]) => Cur(g) # Cur(h)
        BY <2>1, <4>1 DEF HoldsSubmission
      <4>3. submissions' = IF Confirms(snap[h], event[h])
                           THEN submissions \cup {Cur(h)} ELSE submissions
        BY <1>12 DEF Commit
      <4> QED
        BY <4>1, <4>2, <4>3
    <3> QED
      BY <2>3, <3>1, <3>2, <3>3, OthersKeep
  <2> QED
    BY <2>3, <2>4, <2>5 DEF HandlerInv
<1>13. ASSUME NEW h \in Handler, TransactionFails(h)
      PROVE  HandlerInv'
  BY <1>13, FinishStep DEF TransactionFails, ReadsPayment, Running, HandlerInv,
                           OwnsSnapshot, InTransaction
<1>14. ASSUME NEW h \in Handler, AllTargetsDone(h)
      PROVE  HandlerInv'
  BY <1>14, PlainStep DEF AllTargetsDone, Running, PostActions
<1>15. ASSUME NEW h \in Handler, ReadSecondary(h)
      PROVE  HandlerInv'
  BY <1>15, PlainStep DEF ReadSecondary, Running, PostActions, HandlerInv, ActsOnPaid
<1>16. ASSUME NEW h \in Handler, SecondaryStale(h)
      PROVE  HandlerInv'
  <2>1. err'[h] = "error"
    BY <1>16 DEF SecondaryStale, TypeInv
  <2> QED
    BY <1>16, <2>1, PlainStep DEF SecondaryStale, Running, PostActions
<1>17. ASSUME NEW h \in Handler, SendWebhook(h)
      PROVE  HandlerInv'
  BY <1>17, PlainStep DEF SendWebhook, Running, PostActions, HandlerInv, ActsOnPaid
<1>18. ASSUME NEW h \in Handler, SendConfirmations(h)
      PROVE  HandlerInv'
  BY <1>18, PlainStep DEF SendConfirmations, Running, PostActions, HandlerInv, ActsOnPaid
<1>19. ASSUME NEW h \in Handler, DeleteResponses(h)
      PROVE  HandlerInv'
  <2>1. /\ pc[h] = "delete" /\ pc'[h] = "receipt"
        /\ \A g \in Handler : ~HoldsPayment(g, Paid(h))
        /\ event' = event /\ todo' = todo /\ err' = err /\ snap' = snap
        /\ \A k \in Handler \ {h} : SameHandler(k)
        /\ submissions' = submissions
    BY <1>19 DEF DeleteResponses, GoTo, TypeInv, SameHandler
  <2>2. VisitsTargets(h)'
    BY <2>1, LogGrows DEF HandlerInv, VisitsTargets, Running
  <2>3. ActsOnPaid(h)' /\ OwnsSnapshot(h)' /\ CommitsFresh(h)'
    BY <2>1 DEF HandlerInv, ActsOnPaid, PostActions, OwnsSnapshot,
                CommitsFresh, InTransaction
  <2>4. ASSUME NEW g \in Handler \ {h}
        PROVE  /\ VisitsTargets(g)' /\ OwnsSnapshot(g)'
               /\ CommitsFresh(g)' /\ ActsOnPaid(g)'
    <3>1. ~HoldsPayment(h, Cur(g))' /\ ~HoldsSubmission(h, Cur(g))'
      BY <2>1 DEF HoldsPayment, HoldsSubmission
    <3>2. HoldsPayment(g, Cur(g)) => payments'[Cur(g)] = payments[Cur(g)]
      <4>1. HoldsPayment(g, Cur(g)) => Cur(g) \in Payment /\ Cur(g) # Paid(h)
        BY <2>1, HandlerTypes DEF HoldsPayment, InTransaction
      <4> QED
        BY <1>19, <4>1, DeleteEffect
    <3>3. HoldsSubmission(g, Cur(g)) => Cur(g) \notin submissions
      BY DEF HandlerInv, CommitsFresh, SubmissionTaken, HoldsSubmission
    <3> QED
      BY <2>1, <3>1, <3>2, <3>3, OthersKeep
  <2> QED
    BY <2>2, <2>3, <2>4 DEF HandlerInv
<1>20. ASSUME NEW h \in Handler, NotificationFails(h)
      PROVE  HandlerInv'
  BY <1>20, PlainStep DEF NotificationFails, Running, PostActions, HandlerInv, ActsOnPaid
<1>21. ASSUME NEW h \in Handler, SendReceipt(h)
      PROVE  HandlerInv'
  BY <1>21, PlainStep DEF SendReceipt, Running, PostActions, HandlerInv, ActsOnPaid
<1>22. ASSUME NEW h \in Handler, PostActionsFail(h)
      PROVE  HandlerInv'
  <2>1. err'[h] = "error"
    BY <1>22 DEF PostActionsFail, TypeInv
  <2> QED
    BY <1>22, <2>1, PlainStep DEF PostActionsFail, Running, PostActions
<1>23. ASSUME NEW h \in Handler, Respond(h)
      PROVE  HandlerInv'
  BY <1>23, ResetStep DEF Respond
<1>24. ASSUME NEW h \in Handler, Crash(h)
      PROVE  HandlerInv'
  BY <1>24, ResetStep DEF Crash
<1>25. ASSUME NEW p \in Payment, Replicate(p)
      PROVE  HandlerInv'
  BY <1>25 DEF Replicate, HandlerInv, VisitsTargets, OwnsSnapshot, CommitsFresh,
               ActsOnPaid, Running, HoldsPayment, HoldsSubmission, SubmissionTaken, Cur
<1>26. CASE UNCHANGED vars
  BY <1>26 DEF vars, HandlerInv, VisitsTargets, OwnsSnapshot, CommitsFresh,
               ActsOnPaid, Running, HoldsPayment, HoldsSubmission, SubmissionTaken, Cur
<1> QED
  BY <1>1, <1>2, <1>3, <1>4, <1>5, <1>6, <1>7, <1>8, <1>9, <1>10, <1>11, <1>12,
     <1>13, <1>14, <1>15, <1>16, <1>17, <1>18, <1>19, <1>20, <1>21, <1>22,
     <1>23, <1>24, <1>25, <1>26 DEF Next, Progress, Failure

\* The types and what the handlers rely on, together, are inductive.
LEMMA Invariants == Spec => [](TypeInv /\ HandlerInv)
<1>1. Init => TypeInv /\ HandlerInv
  BY TypeInvInit, HandlerInvInit
<1>2. TypeInv /\ HandlerInv /\ [Next]_vars => TypeInv' /\ HandlerInv'
  BY TypeInvNext, HandlerInvNext
<1> QED
  BY <1>1, <1>2, PTL DEF Spec

-----------------------------------------------------------------------------
(* The theorems.                                                            *)

\* Every variable of the handlers has its type in every reachable state.
THEOREM TypeCorrect == Spec => []TypeOK
  BY Invariants, TypeInvImpliesTypeOK, PTL

\* What a running handler relies on is never taken from it by another one.
THEOREM HandlersCorrect == Spec => []HandlerInv
  BY Invariants, PTL

\* What a commit does to a payment, as the proofs below use it.
LEMMA CommitLog ==
    ASSUME TypeInv, HandlerInv, NEW h \in Handler, Commit(h),
           NEW p \in Payment
    PROVE  /\ p # Cur(h) => payments'[p] = payments[p]
           /\ p = Cur(h) =>
                /\ payments[p].log \in Seq(Event) /\ event[h] \in Event
                /\ \A i \in DOMAIN payments[p].log :
                      payments[p].log[i].id # event[h].id
                /\ payments'[p].log =
                      InsertByCreated(payments[p].log, event[h])
                /\ ToSet(payments'[p].log) =
                      ToSet(payments[p].log) \cup {event[h]}
                /\ payments'[p].responses = payments[p].responses
                /\ payments'[p].completedPayment =
                      IF Confirms(payments[p], event[h]) THEN event[h]
                      ELSE payments[p].completedPayment
<1>1. p # Cur(h) => payments'[p] = payments[p]
  BY CommitEffect DEF TypeInv
<1>2. ASSUME p = Cur(h)
      PROVE  /\ payments[p].log \in Seq(Event) /\ event[h] \in Event
             /\ \A i \in DOMAIN payments[p].log :
                   payments[p].log[i].id # event[h].id
             /\ payments'[p].log = InsertByCreated(payments[p].log, event[h])
             /\ ToSet(payments'[p].log) =
                   ToSet(payments[p].log) \cup {event[h]}
             /\ payments'[p].responses = payments[p].responses
             /\ payments'[p].completedPayment =
                   IF Confirms(payments[p], event[h]) THEN event[h]
                   ELSE payments[p].completedPayment
  <2>1. /\ payments[p] \in PaymentDoc /\ event[h] \in Event
        /\ payments'[p] = Process(payments[p], event[h])
        /\ Process(payments[p], event[h]).status \in PaymentStatus
        /\ ~IsDuplicate(payments[p], event[h])
    BY <1>2, CommitEffect
  <2> DEFINE log == payments[p].log
             new == InsertByCreated(log, event[h])
  <2>2. /\ payments'[p].log = new
        /\ payments'[p].responses = payments[p].responses
        /\ payments'[p].completedPayment =
              IF Confirms(payments[p], event[h]) THEN event[h]
              ELSE payments[p].completedPayment
    BY <2>1, ProcessType
  <2>3. log \in Seq(Event)
    BY <2>1 DEF PaymentDoc
  <2>4. ToSet(new) = ToSet(log) \cup {event[h]}
    <3> HIDE DEF log
    <3> QED
      BY <2>1, <2>3, InsertEntries
  <2>5. \A i \in DOMAIN log : log[i].id # event[h].id
    BY <2>1 DEF IsDuplicate
  <2> QED
    BY <2>1, <2>2, <2>3, <2>4, <2>5
<1> QED
  BY <1>1, <1>2

\* However many deliveries of an event run at the same time, its payment has
\* it once.
THEOREM LogsOnce == Spec => []LoggedOnce
<1>1. Init => LoggedOnce
  BY DEF Init, LoggedOnce, NewPayment
<1>2. ASSUME TypeInv, HandlerInv, LoggedOnce, [Next]_vars
      PROVE  LoggedOnce'
  <2> SUFFICES ASSUME NEW p \in Payment
               PROVE  HasIdsOnce(payments'[p].log)
    BY DEF LoggedOnce, HasIdsOnce
  <2>1. HasIdsOnce(payments[p].log)
    BY <1>2 DEF LoggedOnce, HasIdsOnce
  <2>2. ASSUME NEW h \in Handler, Commit(h)
        PROVE  HasIdsOnce(payments'[p].log)
    <3>1. CASE p = Cur(h)
      <4> DEFINE log == payments[p].log
      <4>1. /\ log \in Seq(Event) /\ event[h] \in Event
            /\ \A i \in DOMAIN log : log[i].id # event[h].id
            /\ payments'[p].log = InsertByCreated(log, event[h])
            /\ HasIdsOnce(log)
        BY <1>2, <2>1, <2>2, <3>1, CommitLog
      <4> HIDE DEF log
      <4> QED
        BY <4>1, InsertKeepsIdsOnce
    <3>2. CASE p # Cur(h)
      BY <1>2, <2>1, <2>2, <3>2, CommitLog
    <3> QED
      BY <3>1, <3>2
  <2>3. ASSUME NEW h \in Handler, DeleteResponses(h)
        PROVE  HasIdsOnce(payments'[p].log)
    BY <1>2, <2>1, <2>3, DeleteEffect
  <2> QED
    BY <1>2, <2>1, <2>2, <2>3, OtherSteps
<1> QED
  BY <1>1, <1>2, Invariants, PTL DEF Spec

\* A payment has its submission exactly when it is complete, exactly when it
\* has a charge.succeeded event, one of which completed it.
LEMMA SubmissionNext ==
    TypeInv /\ HandlerInv /\ SubmissionIffPaid /\ [Next]_vars
       => SubmissionIffPaid'
<1> SUFFICES ASSUME TypeInv, HandlerInv, SubmissionIffPaid, [Next]_vars,
                    NEW p \in Payment
             PROVE  /\ p \in submissions' <=>
                          payments'[p].completedPayment # NoEvent
                    /\ p \in submissions' <=>
                          \E e \in ToSet(payments'[p].log) :
                             e.type = "charge.succeeded"
                    /\ payments'[p].completedPayment \in
                          ToSet(payments'[p].log) \cup {NoEvent}
  BY DEF SubmissionIffPaid, Logged, ToSet
<1>1. /\ p \in submissions <=> payments[p].completedPayment # NoEvent
      /\ p \in submissions <=> \E e \in ToSet(payments[p].log) :
                                  e.type = "charge.succeeded"
      /\ payments[p].completedPayment \in ToSet(payments[p].log) \cup {NoEvent}
  BY DEF SubmissionIffPaid, Logged, ToSet
<1>2. ASSUME NEW h \in Handler, Commit(h), p = Cur(h)
      PROVE  /\ p \in submissions' <=>
                   payments'[p].completedPayment # NoEvent
             /\ p \in submissions' <=>
                   \E e \in ToSet(payments'[p].log) :
                      e.type = "charge.succeeded"
             /\ payments'[p].completedPayment \in
                   ToSet(payments'[p].log) \cup {NoEvent}
  <2>1. /\ event[h] \in Event
        /\ ToSet(payments'[p].log) = ToSet(payments[p].log) \cup {event[h]}
        /\ payments'[p].completedPayment =
              IF Confirms(payments[p], event[h]) THEN event[h]
              ELSE payments[p].completedPayment
    BY <1>2, CommitLog
  <2>2. submissions' = IF Confirms(payments[p], event[h])
                       THEN submissions \cup {p} ELSE submissions
    BY <1>2, CommitEffect
  <2>3. event[h] # NoEvent
    BY <2>1, EventAssumption
  <2>4. CASE Confirms(payments[p], event[h])
    BY <1>1, <2>1, <2>2, <2>3, <2>4 DEF Confirms
  <2>5. CASE ~Confirms(payments[p], event[h])
    BY <1>1, <2>1, <2>2, <2>5 DEF Confirms
  <2> QED
    BY <2>4, <2>5
<1>3. ASSUME NEW h \in Handler, Commit(h), p # Cur(h)
      PROVE  /\ payments'[p] = payments[p]
             /\ p \in submissions' <=> p \in submissions
  <2>1. payments'[p] = payments[p]
    BY <1>3, CommitLog
  <2>2. submissions' = submissions \/ submissions' = submissions \cup {Cur(h)}
    BY <1>3, CommitEffect
  <2> QED
    BY <1>3, <2>1, <2>2
<1>4. CASE \E h \in Handler : Commit(h)
  BY <1>1, <1>2, <1>3, <1>4
<1>5. CASE \E h \in Handler : DeleteResponses(h)
  BY <1>1, <1>5, DeleteEffect
<1>6. CASE \A h \in Handler : ~Commit(h) /\ ~DeleteResponses(h)
  BY <1>1, <1>6, OtherSteps
<1> QED
  BY <1>4, <1>5, <1>6

\* A payment has its submission exactly when it is complete, and that exactly
\* when a charge.succeeded event is in its log, whatever else has been handled.
THEOREM SubmitsIffPaid == Spec => []SubmissionIffPaid
<1>1. Init => SubmissionIffPaid
  BY DEF Init, SubmissionIffPaid, NewPayment, Logged
<1> QED
  BY <1>1, SubmissionNext, Invariants, PTL DEF Spec

\* A payment only ever has events about itself, from the Stripe account of its
\* form, and is completed by a charge with a receipt.
THEOREM LogsAuthentic == Spec => []LogIsAuthentic
<1>1. Init => LogIsAuthentic
  BY DEF Init, LogIsAuthentic, NewPayment, Logged
<1>2. ASSUME TypeInv, HandlerInv, SubmissionIffPaid, LogIsAuthentic,
             [Next]_vars
      PROVE  LogIsAuthentic'
  <2> SUFFICES
        ASSUME NEW p \in Payment
        PROVE  /\ \A e \in ToSet(payments'[p].log) :
                     p \in Targets(e) /\ e.account = TargetAccount[p]
               /\ p \in submissions' => payments'[p].completedPayment.receipt
    BY DEF LogIsAuthentic, Logged, ToSet
  <2>1. /\ \A e \in ToSet(payments[p].log) :
              p \in Targets(e) /\ e.account = TargetAccount[p]
        /\ p \in submissions => payments[p].completedPayment.receipt
    BY <1>2 DEF LogIsAuthentic, Logged, ToSet
  <2>2. ASSUME NEW h \in Handler, Commit(h), p = Cur(h)
        PROVE  /\ \A e \in ToSet(payments'[p].log) :
                     p \in Targets(e) /\ e.account = TargetAccount[p]
               /\ p \in submissions' => payments'[p].completedPayment.receipt
    <3>1. /\ ToSet(payments'[p].log) = ToSet(payments[p].log) \cup {event[h]}
          /\ payments'[p].completedPayment =
                IF Confirms(payments[p], event[h]) THEN event[h]
                ELSE payments[p].completedPayment
      BY <1>2, <2>2, CommitLog
    <3>2. /\ p \in Targets(event[h])
          /\ Acceptable(p, payments[p], event[h])
          /\ submissions' = IF Confirms(payments[p], event[h])
                            THEN submissions \cup {p} ELSE submissions
      BY <1>2, <2>2, CommitEffect
    <3>3. /\ event[h].account = TargetAccount[p]
          /\ Confirms(payments[p], event[h]) => event[h].receipt
      BY <3>2 DEF Acceptable
    <3>4. p \in submissions' => payments'[p].completedPayment.receipt
      <4>1. CASE Confirms(payments[p], event[h])
        <5>1. payments'[p].completedPayment = event[h]
          BY <3>1, <4>1
        <5>2. event[h].receipt
          BY <3>3, <4>1
        <5> QED
          BY <5>1, <5>2, Zenon
      <4>2. CASE ~Confirms(payments[p], event[h])
        <5>1. /\ payments'[p].completedPayment = payments[p].completedPayment
              /\ submissions' = submissions
          BY <3>1, <3>2, <4>2
        <5> QED
          BY <2>1, <5>1, Zenon
      <4> QED
        BY <4>1, <4>2
    <3> QED
      BY <2>1, <3>1, <3>2, <3>3, <3>4
  <2>3. ASSUME NEW h \in Handler, Commit(h), p # Cur(h)
        PROVE  /\ payments'[p] = payments[p]
               /\ p \in submissions' => p \in submissions
    <3>1. payments'[p] = payments[p]
      BY <1>2, <2>3, CommitLog
    <3>2. submissions' = submissions \/ submissions' = submissions \cup {Cur(h)}
      BY <1>2, <2>3, CommitEffect
    <3> QED
      BY <2>3, <3>1, <3>2
  <2>4. CASE \E h \in Handler : Commit(h)
    BY <2>1, <2>2, <2>3, <2>4
  <2>5. CASE \E h \in Handler : DeleteResponses(h)
    <3>1. /\ payments'[p].log = payments[p].log
          /\ payments'[p].completedPayment = payments[p].completedPayment
          /\ submissions' = submissions
      BY <1>2, <2>5, DeleteEffect
    <3> QED
      BY <2>1, <3>1
  <2>6. CASE \A h \in Handler : ~Commit(h) /\ ~DeleteResponses(h)
    BY <1>2, <2>1, <2>6, OtherSteps
  <2> QED
    BY <2>4, <2>5, <2>6
<1> QED
  BY <1>1, <1>2, Invariants, SubmitsIffPaid, PTL DEF Spec

\* No step of any handler takes back what is in a payment document.
THEOREM NothingLost == Spec => NoLostUpdate
<1>1. ASSUME TypeInv, HandlerInv, [Next]_vars, NEW p \in Payment
      PROVE  /\ \A i \in DOMAIN payments[p].log :
                    IsDuplicate(payments'[p], payments[p].log[i])
             /\ payments[p].completedPayment # NoEvent =>
                    payments'[p].completedPayment = payments[p].completedPayment
             /\ ~payments[p].responses => ~payments'[p].responses
  <2>1. \A i \in DOMAIN payments[p].log :
           IsDuplicate(payments'[p], payments[p].log[i])
    <3>1. \A i \in DOMAIN payments[p].log :
             IsDuplicate(payments[p], payments[p].log[i])
      BY DEF IsDuplicate
    <3> QED
      BY <1>1, <3>1, LogGrows
  <2>2. ASSUME NEW h \in Handler, Commit(h)
        PROVE  /\ payments[p].completedPayment # NoEvent =>
                     payments'[p].completedPayment = payments[p].completedPayment
               /\ payments'[p].responses = payments[p].responses
    BY <1>1, <2>2, CommitLog DEF Confirms
  <2>3. ASSUME NEW h \in Handler, DeleteResponses(h)
        PROVE  /\ payments'[p].completedPayment = payments[p].completedPayment
               /\ ~payments[p].responses => ~payments'[p].responses
    <3>1. /\ payments'[p].completedPayment = payments[p].completedPayment
          /\ payments' = [payments EXCEPT ![Paid(h)].responses = FALSE]
          /\ p # Paid(h) => payments'[p] = payments[p]
      BY <1>1, <2>3, DeleteEffect
    <3>2. payments[p] \in PaymentDoc /\ payments \in [Payment -> PaymentDoc]
      BY <1>1 DEF TypeInv
    <3>3. p = Paid(h) =>
             payments'[p] = [payments[p] EXCEPT !.responses = FALSE]
      BY <3>1, <3>2
    <3> QED
      BY <3>1, <3>2, <3>3 DEF PaymentDoc
  <2>4. CASE \A h \in Handler : ~Commit(h) /\ ~DeleteResponses(h)
    <3>1. payments' = payments
      BY <1>1, <2>4, OtherSteps
    <3> QED
      BY <2>1, <3>1
  <2> QED
    BY <2>1, <2>2, <2>3, <2>4
<1>2. TypeInv /\ HandlerInv /\ [Next]_vars =>
        [\A p \in Payment :
          /\ \A i \in DOMAIN payments[p].log :
                IsDuplicate(payments'[p], payments[p].log[i])
          /\ payments[p].completedPayment # NoEvent =>
                payments'[p].completedPayment = payments[p].completedPayment
          /\ ~payments[p].responses => ~payments'[p].responses]_payments
  BY <1>1
<1> QED
  BY <1>2, Invariants, PTL DEF Spec, NoLostUpdate

\* An event that Stripe stops delivering is recorded wherever it belongs,
\* provided no payout mixes charges of this environment with others: then
\* the result of the other charges may hide an error.
THEOREM AckedRecorded ==
    ASSUME \A e \in Event : Foreign \in Targets(e) => Targets(e) = {Foreign}
    PROVE  Spec => []AckedIsRecorded
<1>1. Init => AckedIsRecorded
  BY DEF Init, AckedIsRecorded
<1>2. ASSUME TypeInv, HandlerInv, AckedIsRecorded, [Next]_vars
      PROVE  AckedIsRecorded'
  <2>1. \A p \in Payment, e \in Event :
           IsDuplicate(payments[p], e) => IsDuplicate(payments'[p], e)
    BY <1>2, LogGrows
  <2>2. ASSUME NEW e \in acked, NEW p \in Targets(e) \ {Foreign}
        PROVE  IsDuplicate(payments'[p], e)
    <3>1. e \in Event /\ e.targets \in Seq(Payment \cup {Foreign})
      BY <1>2, EventAssumption DEF TypeInv
    <3>2. p \in Payment
      BY <3>1 DEF Targets
    <3> QED
      BY <1>2, <2>1, <3>1, <3>2 DEF AckedIsRecorded
  <2>3. ASSUME NEW h \in Handler, Respond(h), err[h] # "error",
               NEW p \in Targets(event[h]) \ {Foreign}
        PROVE  IsDuplicate(payments'[p], event[h])
    <3>1. /\ pc[h] = "respond" /\ event[h] \in Event
          /\ todo[h] = <<>> /\ payments' = payments
      BY <1>2, <2>3 DEF Respond, HandlerInv, VisitsTargets, Running
    <3>2. Foreign \notin Targets(event[h])
      BY <2>3, <3>1
    <3>3. err[h] = "ok"
      BY <1>2, <2>3, <3>1, <3>2 DEF HandlerInv, VisitsTargets, Running, TypeInv
    <3>4. DOMAIN todo[h] = {}
      BY <3>1
    <3> QED
      BY <1>2, <3>1, <3>3, <3>4 DEF HandlerInv, VisitsTargets, Running
  <2>4. \/ acked' = acked
        \/ \E h \in Handler : /\ Respond(h) /\ err[h] # "error"
                             /\ acked' = acked \cup {event[h]}
    BY <1>2 DEF Next, Progress, Failure, Deliver, Lookup, LookupFails,
         SkipForeign, IgnoreDuplicate, RejectMalformed, BeginTransaction,
         CopySubmission, CopyFails, Save, RetryTransaction, Commit,
         TransactionFails, AllTargetsDone, ReadSecondary, SecondaryStale,
         SendWebhook, SendConfirmations, DeleteResponses, NotificationFails,
         SendReceipt, PostActionsFail, Respond, Crash, Replicate, vars
  <2> QED
    BY <2>2, <2>3, <2>4 DEF AckedIsRecorded
<1> QED
  BY <1>1, <1>2, Invariants, PTL DEF Spec

\* The concurrent handlers implement the atomic ledger: a commit is the atomic
\* record, the deletion after the emails and the answer to Stripe are steps of
\* the ledger, and no other step is seen.
THEOREM HandlersImplementLedger == Spec => ImplementsLedger
<1>1. Init => Ledger!LedgerInit
  BY DEF Init, Ledger!LedgerInit
<1>2. ASSUME TypeInv, HandlerInv, SubmissionIffPaid, [Next]_vars
      PROVE  [Ledger!LedgerNext]_(Ledger!ledgerVars)
  <2>1. ASSUME NEW h \in Handler, Commit(h)
        PROVE  Ledger!LedgerNext
    <3>1. acked' = acked
      BY <2>1 DEF Commit, FinishTarget
    <3>2. Ledger!Record(Cur(h), event[h])
      BY <1>2, <2>1, <3>1, CommitEffect DEF Ledger!Record, Ledger!Recorded
    <3> QED
      BY <1>2, <2>1, <3>2, CommitEffect DEF Ledger!LedgerNext
  <2>2. ASSUME NEW h \in Handler, DeleteResponses(h)
        PROVE  Ledger!LedgerNext
    <3>1. /\ Paid(h) \in Payment /\ event[h] \in Event
          /\ event[h].type = "charge.succeeded"
          /\ IsDuplicate(payments[Paid(h)], event[h])
      BY <1>2, <2>2, PaidType DEF DeleteResponses, PostActions
    <3>2. payments[Paid(h)].log \in Seq(Event)
      <4>1. payments[Paid(h)] \in PaymentDoc
        BY <1>2, <3>1 DEF TypeInv
      <4> QED
        BY <4>1 DEF PaymentDoc
    <3>3. event[h] \in Logged(Paid(h))
      BY <3>1, <3>2, EventAssumption DEF IsDuplicate, Logged
    <3>4. payments[Paid(h)].completedPayment # NoEvent
      BY <1>2, <3>1, <3>3 DEF SubmissionIffPaid
    <3>5. Ledger!DeleteResponses(Paid(h))
      BY <2>2, <3>4 DEF DeleteResponses, Ledger!DeleteResponses
    <3> QED
      BY <3>1, <3>5 DEF Ledger!LedgerNext
  <2>3. ASSUME NEW h \in Handler, Respond(h)
        PROVE  [Ledger!LedgerNext]_(Ledger!ledgerVars)
    <3>1. /\ pc[h] = "respond" /\ event[h] \in Event
          /\ payments' = payments /\ submissions' = submissions
      BY <1>2, <2>3 DEF Respond, HandlerInv, VisitsTargets, Running
    <3>2. CASE err[h] = "error"
      BY <2>3, <3>1, <3>2 DEF Respond, Ledger!ledgerVars
    <3>3. CASE err[h] # "error"
      <4>1. DOMAIN todo[h] = {} /\ acked' = acked \cup {event[h]}
        BY <1>2, <2>3, <3>1, <3>3
           DEF HandlerInv, VisitsTargets, Running, Respond
      <4>2. \/ err[h] = "ok" \/ err[h] = "foreign"
        BY <1>2, <3>3 DEF TypeInv
      <4>3. Foreign \notin Targets(event[h]) =>
               \A p \in Targets(event[h]) : IsDuplicate(payments[p], event[h])
        BY <1>2, <3>1, <4>1, <4>2 DEF HandlerInv, VisitsTargets, Running
      <4>4. Ledger!Acknowledge(event[h])
        BY <3>1, <4>1, <4>3 DEF Ledger!Acknowledge, Ledger!Recorded
      <4> QED
        BY <3>1, <4>4 DEF Ledger!LedgerNext
    <3> QED
      BY <3>2, <3>3
  <2>4. CASE \A h \in Handler : ~Commit(h) /\ ~DeleteResponses(h) /\ ~Respond(h)
    <3>1. payments' = payments /\ submissions' = submissions
      BY <1>2, <2>4, OtherSteps
    <3>2. acked' = acked
      BY <1>2, <2>4 DEF Next, Progress, Failure, Deliver, Lookup, LookupFails,
         SkipForeign, IgnoreDuplicate, RejectMalformed, BeginTransaction,
         CopySubmission, CopyFails, Save, RetryTransaction,
         TransactionFails, AllTargetsDone, ReadSecondary, SecondaryStale,
         SendWebhook, SendConfirmations, NotificationFails, SendReceipt,
         PostActionsFail, Crash, Replicate, vars
    <3> QED
      BY <3>1, <3>2 DEF Ledger!ledgerVars
  <2> QED
    BY <2>1, <2>2, <2>3, <2>4
<1> QED
  BY <1>1, <1>2, Invariants, SubmitsIffPaid, PTL
     DEF Spec, ImplementsLedger, Ledger!LedgerSpec


-----------------------------------------------------------------------------
(* The actions after a payment.                                             *)

Confirmed(p) == notified[p]["confirmation"] > 0
Receipted(p) == notified[p]["receipt"] > 0

\* The secondary only ever knows of a deletion that has been made.
ReplicaBehind ==
    \A p \in Payment : ~replica[p].responses => ~payments[p].responses

\* A handler that found no responses has read them after the deletion.
ReadsDeleted(h) ==
    ~read[h] => /\ pc[h] \in {"webhook", "confirmations", "delete", "receipt",
                              "respond"}
                /\ Paid(h) \in Payment /\ ~payments[Paid(h)].responses

\* What has been done when a handler is about to delete, or to respond.
HasNotified(h) ==
    /\ pc[h] = "delete" => Confirmed(Paid(h))
    /\ pc[h] = "respond" /\ err[h] = "ok" /\ event[h].type = "charge.succeeded"
          => Paid(h) \in Payment /\ Receipted(Paid(h))

AckedInv ==
    \A e \in acked : e.type = "charge.succeeded" =>
        \A p \in Targets(e) \ {Foreign} :
            p \in Payment /\ IsDuplicate(payments[p], e) /\ Receipted(p)

ActionsInv ==
    /\ ReplicaBehind
    /\ \A h \in Handler : ReadsDeleted(h) /\ HasNotified(h)
    /\ DeletedAfterConfirmation
    /\ AckedInv

\* No step takes back a deletion or a notification.
LEMMA StaysNotified ==
    ASSUME TypeInv, HandlerInv, [Next]_vars, NEW p \in Payment
    PROVE  /\ ~payments[p].responses => ~payments'[p].responses
           /\ \A k \in Kinds : notified[p][k] > 0 => notified'[p][k] > 0
<1>1. ~payments[p].responses => ~payments'[p].responses
  <2>1. ASSUME NEW h \in Handler, Commit(h)
        PROVE  payments'[p].responses = payments[p].responses
    BY <2>1, CommitLog
  <2>2. ASSUME NEW h \in Handler, DeleteResponses(h)
        PROVE  ~payments[p].responses => ~payments'[p].responses
    <3>1. /\ payments' = [payments EXCEPT ![Paid(h)].responses = FALSE]
          /\ p # Paid(h) => payments'[p] = payments[p]
      BY <2>2, DeleteEffect
    <3>2. payments[p] \in PaymentDoc /\ payments \in [Payment -> PaymentDoc]
      BY DEF TypeInv
    <3>3. p = Paid(h) => payments'[p] = [payments[p] EXCEPT !.responses = FALSE]
      BY <3>1, <3>2
    <3> QED
      BY <3>1, <3>2, <3>3 DEF PaymentDoc
  <2> QED
    BY <2>1, <2>2, OtherSteps
<1>2. ASSUME NEW q, NEW k, Notify(q, k), NEW j \in Kinds, notified[p][j] > 0
      PROVE  notified'[p][j] > 0
  <2>1. /\ notified \in [Payment -> [Kinds -> 0..NotifyCap]]
        /\ notified[p] \in [Kinds -> 0..NotifyCap] /\ NotifyCap \in Nat
        /\ notified[p][j] \in 0..NotifyCap
    BY BoundAssumption DEF TypeInv
  <2>2. notified' = [notified EXCEPT ![q] = [notified[q] EXCEPT ![k] =
                        IF @ < NotifyCap THEN @ + 1 ELSE @]]
    BY <1>2 DEF Notify
  <2>3. CASE p = q /\ j = k
    <3>1. notified'[p][j] = IF notified[p][j] < NotifyCap
                            THEN notified[p][j] + 1 ELSE notified[p][j]
      BY <2>1, <2>2, <2>3
    <3> QED
      BY <1>2, <2>1, <3>1
  <2>4. CASE ~(p = q /\ j = k)
    <3>1. notified'[p][j] = notified[p][j]
      BY <2>1, <2>2, <2>4
    <3> QED
      BY <1>2, <3>1
  <2> QED
    BY <2>3, <2>4
<1>3. notified' = notified \/ \E q, k : Notify(q, k)
  BY DEF Next, Progress, Failure, Deliver, Lookup, LookupFails, SkipForeign,
         IgnoreDuplicate, RejectMalformed, BeginTransaction, CopySubmission,
         CopyFails, Save, RetryTransaction, Commit, TransactionFails,
         AllTargetsDone, ReadSecondary, SecondaryStale, SendWebhook,
         SendConfirmations, DeleteResponses, NotificationFails, SendReceipt,
         PostActionsFail, Respond, Crash, Replicate, vars
<1> QED
  BY <1>1, <1>2, <1>3

\* A notification that is handed over is counted.
LEMMA NotifyCounts ==
    ASSUME TypeInv, NEW p \in Payment, NEW k \in Kinds, Notify(p, k)
    PROVE  notified'[p][k] > 0
<1>1. /\ notified \in [Payment -> [Kinds -> 0..NotifyCap]]
      /\ notified[p] \in [Kinds -> 0..NotifyCap]
      /\ notified[p][k] \in 0..NotifyCap /\ NotifyCap \in Nat \ {0}
  BY BoundAssumption DEF TypeInv
<1>2. notified'[p][k] = IF notified[p][k] < NotifyCap
                        THEN notified[p][k] + 1 ELSE notified[p][k]
  BY <1>1 DEF Notify
<1> QED
  BY <1>1, <1>2

\* The actions a handler may take, and what they do to its own variables.
LEMMA StepOfHandler ==
    ASSUME TypeInv, [Next]_vars, NEW h \in Handler
    PROVE  \/ /\ pc'[h] = pc[h] /\ event'[h] = event[h]
              /\ err'[h] = err[h] /\ read'[h] = read[h]
           \/ Progress(h) \/ Failure(h) \/ \E e \in Event : Deliver(h, e)
<1> DEFINE Same(k) == /\ pc'[k] = pc[k] /\ event'[k] = event[k]
                      /\ err'[k] = err[k] /\ read'[k] = read[k]
<1>1. ASSUME NEW g \in Handler \ {h}, NEW e \in Event, Deliver(g, e)
      PROVE  Same(h)
  BY <1>1 DEF Deliver, GoTo, TypeInv
<1>2. ASSUME NEW g \in Handler \ {h}, Progress(g)
      PROVE  Same(h)
  BY <1>2 DEF Progress, Lookup, SkipForeign,
         IgnoreDuplicate, RejectMalformed, BeginTransaction, CopySubmission,
         CopyFails, Save, RetryTransaction, Commit,
         AllTargetsDone, ReadSecondary, SecondaryStale, SendWebhook,
         SendConfirmations, DeleteResponses,
         SendReceipt, Respond, GoTo, FinishTarget, Reset, TypeInv
<1>3. ASSUME NEW g \in Handler \ {h}, Failure(g)
      PROVE  Same(h)
  BY <1>3 DEF Failure, LookupFails, TransactionFails, NotificationFails,
         PostActionsFail, Crash, GoTo, FinishTarget, Reset, TypeInv
<1>4. ASSUME NEW p \in Payment, Replicate(p)
      PROVE  Same(h)
  BY <1>4 DEF Replicate
<1>5. CASE UNCHANGED vars
  BY <1>5 DEF vars
<1> QED
  BY <1>1, <1>2, <1>3, <1>4, <1>5 DEF Next

AfterRead == {"webhook", "confirmations", "delete", "receipt", "respond"}

\* How a handler comes to hold an outdated read.
LEMMA StepToRead ==
    ASSUME TypeInv, [Next]_vars, NEW h \in Handler, ~read'[h]
    PROVE  \/ ReadSecondary(h)
           \/ /\ ~read[h] /\ event'[h] = event[h]
              /\ pc[h] \in AfterRead => pc'[h] \in AfterRead
           \/ ~read[h] /\ pc[h] = "idle"
<1>1. ASSUME NEW e \in Event, Deliver(h, e)
      PROVE  ~read[h] /\ pc[h] = "idle"
  BY <1>1 DEF Deliver
<1>2. ASSUME Progress(h), ~ReadSecondary(h)
      PROVE  /\ ~read[h] /\ event'[h] = event[h]
             /\ pc[h] \in AfterRead => pc'[h] \in AfterRead
  BY <1>2 DEF Progress, Lookup, SkipForeign, ReadsPayment,
         IgnoreDuplicate, RejectMalformed, BeginTransaction, CopySubmission,
         CopyFails, Save, RetryTransaction, Commit,
         AllTargetsDone, SecondaryStale, SendWebhook,
         SendConfirmations, DeleteResponses,
         SendReceipt, Respond, GoTo, FinishTarget, Reset, TypeInv, AfterRead
<1>3. ASSUME Failure(h)
      PROVE  /\ ~read[h] /\ event'[h] = event[h]
             /\ pc[h] \in AfterRead => pc'[h] \in AfterRead
  BY <1>3 DEF Failure, LookupFails, TransactionFails, NotificationFails,
         PostActionsFail, Crash, GoTo, FinishTarget, Reset, TypeInv, AfterRead,
         InTransaction, ReadsPayment
<1> QED
  BY <1>1, <1>2, <1>3, StepOfHandler

\* How a handler comes to the deletion.
LEMMA StepToDelete ==
    ASSUME TypeInv, HandlerInv, [Next]_vars, NEW h \in Handler, pc'[h] = "delete"
    PROVE  /\ event'[h] = event[h]
           /\ pc[h] = "delete" \/ SendConfirmations(h)
<1>1. ASSUME NEW e \in Event, Deliver(h, e)
      PROVE  FALSE
  BY <1>1 DEF Deliver, GoTo, TypeInv
<1>2. ASSUME Progress(h), ~SendConfirmations(h)
      PROVE  FALSE
  BY <1>2 DEF Progress, Lookup, SkipForeign,
         IgnoreDuplicate, RejectMalformed, BeginTransaction, CopySubmission,
         CopyFails, Save, RetryTransaction, Commit,
         AllTargetsDone, ReadSecondary, SecondaryStale, SendWebhook,
         DeleteResponses,
         SendReceipt, Respond, GoTo, FinishTarget, Reset, TypeInv
<1>3. ASSUME Failure(h)
      PROVE  FALSE
  BY <1>3 DEF Failure, LookupFails, TransactionFails, NotificationFails,
         PostActionsFail, Crash, GoTo, FinishTarget, Reset, TypeInv
<1>4. SendConfirmations(h) => event'[h] = event[h]
  BY DEF SendConfirmations
<1> QED
  BY <1>1, <1>2, <1>3, <1>4, StepOfHandler

\* How a handler comes to a successful response.
LEMMA StepToRespond ==
    ASSUME TypeInv, HandlerInv, [Next]_vars, NEW h \in Handler,
           pc'[h] = "respond", err'[h] = "ok",
           event'[h].type = "charge.succeeded"
    PROVE  /\ event'[h] = event[h]
           /\ (pc[h] = "respond" /\ err[h] = "ok") \/ SendReceipt(h)
<1>1. ASSUME NEW e \in Event, Deliver(h, e)
      PROVE  FALSE
  BY <1>1 DEF Deliver, GoTo, TypeInv
<1>2. ASSUME Progress(h), ~SendReceipt(h)
      PROVE  FALSE
  BY <1>2 DEF Progress, Lookup, SkipForeign,
         IgnoreDuplicate, RejectMalformed, BeginTransaction, CopySubmission,
         CopyFails, Save, RetryTransaction, Commit,
         AllTargetsDone, ReadSecondary, SecondaryStale, SendWebhook,
         SendConfirmations, DeleteResponses,
         Respond, GoTo, FinishTarget, Reset, TypeInv
<1>3. ASSUME Failure(h)
      PROVE  FALSE
  BY <1>3 DEF Failure, LookupFails, TransactionFails, NotificationFails,
         PostActionsFail, Crash, GoTo, FinishTarget, Reset, TypeInv
<1>4. SendReceipt(h) => event'[h] = event[h]
  BY DEF SendReceipt
<1> QED
  BY <1>1, <1>2, <1>3, <1>4, StepOfHandler

\* At first nothing has been done.
LEMMA ActionsInit == Init => ActionsInv
<1> SUFFICES ASSUME Init PROVE ActionsInv
  OBVIOUS
<1>1. ReplicaBehind /\ DeletedAfterConfirmation
  BY DEF Init, ReplicaBehind, DeletedAfterConfirmation, NewPayment
<1>2. ASSUME NEW h \in Handler
      PROVE  ReadsDeleted(h) /\ HasNotified(h)
  <2>1. pc[h] = "idle" /\ read[h] = TRUE
    BY DEF Init
  <2> QED
    BY <2>1 DEF ReadsDeleted, HasNotified
<1>3. AckedInv
  BY DEF Init, AckedInv
<1> QED
  BY <1>1, <1>2, <1>3 DEF ActionsInv

\* Each step keeps what the later actions rely on.
LEMMA ActionsNext ==
    TypeInv /\ HandlerInv /\ ActionsInv /\ [Next]_vars => ActionsInv'
<1> SUFFICES ASSUME TypeInv, HandlerInv, ActionsInv, [Next]_vars
             PROVE  ActionsInv'
  OBVIOUS
<1>1. ReplicaBehind'
  <2>1. ASSUME NEW p \in Payment, Replicate(p)
        PROVE  ReplicaBehind'
    BY <2>1 DEF Replicate, ReplicaBehind, ActionsInv, TypeInv
  <2>2. CASE replica' = replica
    BY <2>2, StaysNotified DEF ReplicaBehind, ActionsInv
  <2>3. replica' = replica \/ \E p \in Payment : Replicate(p)
    BY DEF Next, Progress, Failure, Deliver, Lookup, LookupFails, SkipForeign,
         IgnoreDuplicate, RejectMalformed, BeginTransaction, CopySubmission,
         CopyFails, Save, RetryTransaction, Commit, TransactionFails,
         AllTargetsDone, ReadSecondary, SecondaryStale, SendWebhook,
         SendConfirmations, DeleteResponses, NotificationFails, SendReceipt,
         PostActionsFail, Respond, Crash, vars
  <2> QED
    BY <2>1, <2>2, <2>3
<1>2. ASSUME NEW h \in Handler
      PROVE  ReadsDeleted(h)'
  <2> SUFFICES ASSUME ~read'[h]
               PROVE  /\ pc'[h] \in AfterRead
                      /\ Paid(h)' \in Payment
                      /\ ~payments'[Paid(h)'].responses
    BY DEF ReadsDeleted, AfterRead
  <2>1. CASE ReadSecondary(h)
    <3>1. Paid(h) \in Payment
      BY <2>1, PaidType DEF ReadSecondary, PostActions
    <3>2. /\ pc'[h] = "webhook" /\ event' = event /\ payments' = payments
          /\ read'[h] = replica[Paid(h)].responses
      BY <2>1 DEF ReadSecondary, GoTo, TypeInv
    <3> QED
      BY <3>1, <3>2 DEF Paid, AfterRead, ActionsInv, ReplicaBehind
  <2>2. CASE ~read[h]
    <3>1. /\ pc[h] \in AfterRead /\ Paid(h) \in Payment
          /\ ~payments[Paid(h)].responses
      BY <2>2 DEF ActionsInv, ReadsDeleted, AfterRead
    <3>2. pc'[h] \in AfterRead /\ event'[h] = event[h]
      BY <2>1, <3>1, StepToRead DEF AfterRead, ReadSecondary
    <3> QED
      BY <3>1, <3>2, StaysNotified DEF Paid
  <2> QED
    BY <2>1, <2>2, StepToRead
<1>3. ASSUME NEW h \in Handler
      PROVE  HasNotified(h)'
  <2>1. ASSUME pc'[h] = "delete"
        PROVE  notified'[Paid(h)']["confirmation"] > 0
    <3>1. event'[h] = event[h] /\ (pc[h] = "delete" \/ SendConfirmations(h))
      BY <2>1, StepToDelete
    <3>2. Paid(h) \in Payment /\ Paid(h)' = Paid(h)
      BY <3>1, PaidType DEF Paid, PostActions, SendConfirmations
    <3>3. Confirmed(Paid(h)) => notified'[Paid(h)']["confirmation"] > 0
      BY <3>2, StaysNotified DEF Confirmed, Kinds
    <3>4. CASE pc[h] = "delete"
      BY <3>3, <3>4 DEF ActionsInv, HasNotified
    <3>5. CASE SendConfirmations(h) /\ read[h]
      BY <3>2, <3>5, NotifyCounts DEF SendConfirmations, Confirmed, Kinds
    <3>6. CASE SendConfirmations(h) /\ ~read[h]
      BY <3>2, <3>3, <3>6
         DEF ActionsInv, ReadsDeleted, DeletedAfterConfirmation, Confirmed
    <3> QED
      BY <3>1, <3>4, <3>5, <3>6
  <2>2. ASSUME pc'[h] = "respond", err'[h] = "ok",
               event'[h].type = "charge.succeeded"
        PROVE  Paid(h)' \in Payment /\ notified'[Paid(h)']["receipt"] > 0
    <3>1. /\ event'[h] = event[h] /\ Paid(h)' = Paid(h)
          /\ (pc[h] = "respond" /\ err[h] = "ok") \/ SendReceipt(h)
      BY <2>2, StepToRespond DEF Paid
    <3>2. CASE SendReceipt(h)
      <4>1. Paid(h) \in Payment
        BY <3>2, PaidType DEF SendReceipt, PostActions
      <4> QED
        BY <3>1, <3>2, <4>1, NotifyCounts DEF SendReceipt, Receipted, Kinds
    <3>3. CASE pc[h] = "respond" /\ err[h] = "ok"
      <4>1. Paid(h) \in Payment /\ Receipted(Paid(h))
        BY <2>2, <3>1, <3>3 DEF ActionsInv, HasNotified
      <4> QED
        BY <3>1, <4>1, StaysNotified DEF Receipted, Kinds
    <3> QED
      BY <3>1, <3>2, <3>3
  <2> QED
    BY <2>1, <2>2 DEF HasNotified, Confirmed, Receipted, Paid
<1>4. DeletedAfterConfirmation'
  <2> SUFFICES ASSUME NEW p \in Payment, ~payments'[p].responses
               PROVE  Confirmed(p)'
    BY DEF DeletedAfterConfirmation, Confirmed
  <2>1. CASE ~payments[p].responses
    <3>1. Confirmed(p)
      BY <2>1 DEF ActionsInv, DeletedAfterConfirmation, Confirmed
    <3> QED
      BY <3>1, StaysNotified DEF Confirmed, Kinds
  <2>2. ASSUME payments[p].responses, NEW h \in Handler, DeleteResponses(h)
        PROVE  Confirmed(p)'
    <3>1. p = Paid(h)
      BY <2>2, DeleteEffect
    <3>2. Confirmed(p)
      BY <2>2, <3>1 DEF ActionsInv, HasNotified, DeleteResponses
    <3> QED
      BY <3>2, StaysNotified DEF Confirmed, Kinds
  <2>3. ASSUME NEW h \in Handler, Commit(h)
        PROVE  payments'[p].responses = payments[p].responses
    BY <2>3, CommitLog
  <2> QED
    BY <2>1, <2>2, <2>3, OtherSteps
<1>5. AckedInv'
  <2>1. ASSUME NEW e \in acked, e.type = "charge.succeeded",
               NEW p \in Targets(e) \ {Foreign}
        PROVE  p \in Payment /\ IsDuplicate(payments'[p], e) /\ Receipted(p)'
    <3>1. p \in Payment /\ IsDuplicate(payments[p], e) /\ Receipted(p)
      BY <2>1 DEF ActionsInv, AckedInv
    <3> QED
      BY <3>1, LogGrows, StaysNotified DEF Receipted, Kinds
  <2>2. ASSUME NEW h \in Handler, Respond(h), err[h] # "error",
               event[h].type = "charge.succeeded",
               NEW p \in Targets(event[h]) \ {Foreign}
        PROVE  p \in Payment /\ IsDuplicate(payments'[p], event[h])
                             /\ Receipted(p)'
    <3>1. /\ pc[h] = "respond" /\ event[h] \in Event
          /\ todo[h] = <<>> /\ payments' = payments /\ notified' = notified
      BY <2>2 DEF Respond, HandlerInv, VisitsTargets, Running
    <3>2. Targets(event[h]) = {Paid(h)}
      <4>1. /\ event[h].targets \in Seq(Payment \cup {Foreign})
            /\ Len(event[h].targets) = 1
        BY <2>2, <3>1, EventAssumption
      <4>2. Paid(h) = event[h].targets[1] /\ DOMAIN event[h].targets = {1}
        BY <4>1 DEF Paid
      <4> QED
        BY <4>2 DEF Targets
    <3>3. err[h] = "ok"
      BY <2>2, <3>1, <3>2 DEF HandlerInv, VisitsTargets, Running, TypeInv
    <3>4. DOMAIN todo[h] = {}
      BY <3>1
    <3>5. p \in Payment /\ IsDuplicate(payments[p], event[h])
      BY <2>2, <3>1, <3>3, <3>4 DEF HandlerInv, VisitsTargets, Running
    <3>6. Receipted(p)
      BY <2>2, <3>1, <3>2, <3>3 DEF ActionsInv, HasNotified
    <3> QED
      BY <3>1, <3>5, <3>6 DEF Receipted
  <2>3. \/ acked' = acked
        \/ \E h \in Handler : /\ Respond(h) /\ err[h] # "error"
                             /\ acked' = acked \cup {event[h]}
    BY DEF Next, Progress, Failure, Deliver, Lookup, LookupFails,
         SkipForeign, IgnoreDuplicate, RejectMalformed, BeginTransaction,
         CopySubmission, CopyFails, Save, RetryTransaction, Commit,
         TransactionFails, AllTargetsDone, ReadSecondary, SecondaryStale,
         SendWebhook, SendConfirmations, DeleteResponses, NotificationFails,
         SendReceipt, PostActionsFail, Respond, Crash, Replicate, vars
  <2>4. CASE acked' = acked
    BY <2>1, <2>4 DEF AckedInv
  <2>5. ASSUME NEW h \in Handler, Respond(h), err[h] # "error",
               acked' = acked \cup {event[h]}
        PROVE  AckedInv'
    <3> SUFFICES ASSUME NEW e \in acked', e.type = "charge.succeeded",
                        NEW p \in Targets(e) \ {Foreign}
                 PROVE  p \in Payment /\ IsDuplicate(payments'[p], e)
                                      /\ Receipted(p)'
      BY DEF AckedInv
    <3> QED
      BY <2>1, <2>2, <2>5
  <2> QED
    BY <2>3, <2>4, <2>5
<1> QED
  BY <1>1, <1>2, <1>3, <1>4, <1>5 DEF ActionsInv

\* So they may always rely on it.
LEMMA ActionsInvariant == Spec => []ActionsInv
  BY ActionsInit, ActionsNext, Invariants, PTL DEF Spec

\* The responses of the respondent are deleted only after the emails they are
\* kept for have been handed over, however many handlers, crashes and stale
\* reads of the secondary there are.
THEOREM DeletesAfterConfirmation == Spec => []DeletedAfterConfirmation
<1>1. ActionsInv => DeletedAfterConfirmation
  BY DEF ActionsInv
<1> QED
  BY <1>1, ActionsInvariant, PTL

\* A charge that succeeded is acknowledged to Stripe only when its payment is
\* complete and the payer's confirmation has been handed over.
THEOREM AckedReceipted == Spec => []AckedIsReceipted
<1>1. ASSUME TypeInv, SubmissionIffPaid, ActionsInv
      PROVE  AckedIsReceipted
  <2> SUFFICES ASSUME NEW e \in acked, e.type = "charge.succeeded",
                      NEW p \in Targets(e) \ {Foreign}
               PROVE  p \in submissions /\ Receipted(p)
    BY DEF AckedIsReceipted, Receipted
  <2>1. p \in Payment /\ IsDuplicate(payments[p], e) /\ Receipted(p)
    BY <1>1 DEF ActionsInv, AckedInv
  <2>2. e \in Event /\ payments[p].log \in Seq(Event)
    <3>1. payments[p] \in PaymentDoc
      BY <1>1, <2>1 DEF TypeInv
    <3> QED
      BY <1>1, <3>1 DEF TypeInv, PaymentDoc
  <2>3. e \in Logged(p)
    BY <2>1, <2>2, EventAssumption DEF IsDuplicate, Logged
  <2> QED
    BY <1>1, <2>1, <2>3 DEF SubmissionIffPaid
<1> QED
  BY <1>1, Invariants, SubmitsIffPaid, ActionsInvariant, PTL

-----------------------------------------------------------------------------
(* The order of the log.                                                    *)

\* What is stored besides the log is computed from it.
Computed(p) ==
    LET log == payments[p].log
    IN  /\ payments[p].status = computePaymentState(log).status
        /\ payments[p].chargeIdLatest = computePaymentState(log).chargeIdLatest
        /\ payments[p].payout = computePayoutDetails(log)

LogInv == \A p \in Payment : Computed(p) /\ Chronological(payments[p].log)

\* What is computed stays computed, and the log chronological.
LEMMA LogInvNext == TypeInv /\ HandlerInv /\ LogInv /\ [Next]_vars => LogInv'
<1> SUFFICES ASSUME TypeInv, HandlerInv, LogInv, [Next]_vars, NEW p \in Payment
             PROVE  Computed(p)' /\ Chronological(payments'[p].log)
  BY DEF LogInv
<1>1. payments[p] \in PaymentDoc /\ payments \in [Payment -> PaymentDoc]
  BY DEF TypeInv
<1>2. Computed(p) /\ Chronological(payments[p].log)
  BY DEF LogInv
<1>3. CASE payments'[p] = payments[p]
  BY <1>2, <1>3 DEF Computed
<1>4. ASSUME NEW h \in Handler, Commit(h), p = Cur(h)
      PROVE  Computed(p)' /\ Chronological(payments'[p].log)
  <2>1. /\ payments'[p] = Process(payments[p], event[h])
        /\ event[h] \in Event
    BY <1>4, CommitEffect
  <2>2. payments[p].log \in Seq(Event)
    BY <1>1 DEF PaymentDoc
  <2> DEFINE new == InsertByCreated(payments[p].log, event[h])
  <2>3. Chronological(new)
    <3>1. \A e \in Event : e.created \in Nat
      BY EventAssumption
    <3> QED
      BY <1>2, <2>1, <2>2, <3>1, InsertChronological
  <2> HIDE DEF new
  <2>4. /\ payments'[p].log = new
        /\ payments'[p].status = computePaymentState(new).status
        /\ payments'[p].chargeIdLatest = computePaymentState(new).chargeIdLatest
        /\ payments'[p].payout = computePayoutDetails(new)
    BY <2>1 DEF Process, new
  <2> QED
    BY <2>3, <2>4 DEF Computed
<1>5. ASSUME NEW h \in Handler, DeleteResponses(h), p = Paid(h)
      PROVE  Computed(p)' /\ Chronological(payments'[p].log)
  <2>1. payments' = [payments EXCEPT ![p].responses = FALSE]
    BY <1>5, DeleteEffect
  <2>2. payments'[p] = [payments[p] EXCEPT !.responses = FALSE]
    BY <1>1, <2>1
  <2>3. /\ payments'[p].log = payments[p].log
        /\ payments'[p].status = payments[p].status
        /\ payments'[p].chargeIdLatest = payments[p].chargeIdLatest
        /\ payments'[p].payout = payments[p].payout
    BY <1>1, <2>2 DEF PaymentDoc
  <2> QED
    BY <1>2, <2>3 DEF Computed
<1>6. ASSUME NEW h \in Handler, Commit(h), p # Cur(h)
      PROVE  payments'[p] = payments[p]
  BY <1>6, CommitLog
<1>7. ASSUME NEW h \in Handler, DeleteResponses(h), p # Paid(h)
      PROVE  payments'[p] = payments[p]
  BY <1>7, DeleteEffect
<1> QED
  BY <1>3, <1>4, <1>5, <1>6, <1>7, OtherSteps

\* The stored state is that of the log, always.
LEMMA LogInvariant == Spec => []LogInv
<1>1. Init => LogInv
  <2> SUFFICES ASSUME Init, NEW p \in Payment
               PROVE  Computed(p) /\ Chronological(payments[p].log)
    BY DEF LogInv
  <2>1. payments[p] = NewPayment
    BY DEF Init
  <2>2. /\ payments[p].log = <<>> /\ payments[p].status = "Pending"
        /\ payments[p].chargeIdLatest = NoCharge
        /\ payments[p].payout = NoPayout
    BY <2>1 DEF NewPayment
  <2> QED
    BY <2>2, NothingComputed DEF Computed, Chronological, Unpaid
<1> QED
  BY <1>1, LogInvNext, Invariants, PTL DEF Spec

\* The place of an entry in a strictly ordered sequence is the number of
\* entries that are not newer.
LEMMA PlaceIsRank ==
    ASSUME NEW n \in Nat, NEW s, DOMAIN s = 1..n, InOrder(s),
           \A i \in 1..n : s[i].created \in Nat,
           NEW L, L = {s[i] : i \in 1..n}, NEW i \in 1..n
    PROVE  Cardinality({f \in L : f.created <= s[i].created}) = i
<1> DEFINE first == {f \in L : f.created <= s[i].created}
           b == [j \in 1..i |-> s[j]]
<1>1. \A j, k \in 1..n : j < k => s[j].created < s[k].created
  BY DEF InOrder
<1>2. \A j \in 1..n : s[j].created <= s[i].created <=> j <= i
  <2> TAKE j \in 1..n
  <2>1. j < i \/ j = i \/ i < j
    OBVIOUS
  <2> QED
    BY <1>1, <2>1
<1>3. first = {s[j] : j \in 1..i}
  <2>1. 1..i \subseteq 1..n
    OBVIOUS
  <2> QED
    BY <1>2, <2>1
<1>4. b \in Bijection(1..i, first)
  <2>1. \A j, k \in 1..i : s[j] = s[k] => j = k
    <3> TAKE j, k \in 1..i
    <3>1. j < k \/ j = k \/ k < j
      OBVIOUS
    <3> QED
      BY <1>1, <3>1
  <2> QED
    BY <1>3, <2>1 DEF Bijection, Injection, Surjection, IsInjective
<1>5. IsFiniteSet(1..i) /\ Cardinality(1..i) = i
  BY FS_Interval
<1> QED
  BY <1>4, <1>5, FS_Bijection DEF ExistsBijection

\* There is one strictly ordered sequence of the entries of a chronological
\* log that has no entry twice: the log.
LEMMA OneOrder ==
    ASSUME NEW n \in Nat, NEW log \in [1..n -> Event],
           Chronological(log), HasIdsOnce(log),
           NEW sorted \in [1..n -> Event], InOrder(sorted),
           \A i \in 1..n : \E j \in 1..n : log[i] = sorted[j],
           \A i \in 1..n : \E j \in 1..n : sorted[i] = log[j]
    PROVE  sorted = log
<1> DEFINE L == {log[i] : i \in 1..n}
<1>1. /\ \A i \in 1..n : log[i].created \in Nat
      /\ \A i \in 1..n : sorted[i].created \in Nat
  BY EventAssumption
<1>2. L = {sorted[i] : i \in 1..n}
  OBVIOUS
<1>3. ASSUME NEW i \in 1..n, NEW j \in 1..n, i < j
      PROVE  log[i].created < log[j].created
  <2>1. log[i].created <= log[j].created
    BY <1>3 DEF Chronological
  <2>2. PICK a \in 1..n : log[i] = sorted[a]
    OBVIOUS
  <2>3. PICK b \in 1..n : log[j] = sorted[b]
    OBVIOUS
  <2>4. log[i] # log[j]
    <3>1. i \in DOMAIN log /\ j \in DOMAIN log /\ i # j
      BY <1>3
    <3> QED
      BY <3>1, Zenon DEF HasIdsOnce
  <2>5. a < b \/ b < a
    BY <2>2, <2>3, <2>4
  <2>6. sorted[a].created < sorted[b].created \/ sorted[b].created < sorted[a].created
    <3>1. a \in DOMAIN sorted /\ b \in DOMAIN sorted
      OBVIOUS
    <3> QED
      BY <2>5, <3>1, Zenon DEF InOrder
  <2>7. log[i].created < log[j].created \/ log[j].created < log[i].created
    BY <2>2, <2>3, <2>6, Zenon
  <2>8. log[i].created \in Nat /\ log[j].created \in Nat
    BY <1>1
  <2>9. \A x, y \in Nat : x <= y /\ (x < y \/ y < x) => x < y
    OBVIOUS
  <2> QED
    BY <2>1, <2>7, <2>8, <2>9, Zenon
<1>4. InOrder(log)
  BY <1>3 DEF InOrder
<1>5. ASSUME NEW i \in 1..n
      PROVE  sorted[i] = log[i]
  <2>1. PICK j \in 1..n : log[i] = sorted[j]
    OBVIOUS
  <2>2. Cardinality({f \in L : f.created <= log[i].created}) = i
    <3>1. DOMAIN log = 1..n /\ L = {log[k] : k \in 1..n}
      OBVIOUS
    <3> HIDE DEF L
    <3> QED
      BY <1>1, <1>4, <3>1, PlaceIsRank
  <2>3. Cardinality({f \in L : f.created <= sorted[j].created}) = j
    <3>1. DOMAIN sorted = 1..n
      OBVIOUS
    <3> HIDE DEF L
    <3> QED
      BY <1>1, <1>2, <3>1, PlaceIsRank
  <2>4. i = j
    <3> HIDE DEF L
    <3> QED
      BY <2>1, <2>2, <2>3, Zenon
  <2> QED
    BY <2>1, <2>4
<1> QED
  BY <1>5

\* A strictly ordered sequence that is as long as the set of its entries may
\* be has all of them.
LEMMA OrderedCovers ==
    ASSUME NEW L, IsFiniteSet(L), NEW n \in Nat, Cardinality(L) = n,
           \A e \in L : e.created \in Nat,
           NEW sorted \in [1..n -> L], InOrder(sorted)
    PROVE  \A e \in L : \E i \in 1..n : e = sorted[i]
<1>1. sorted \in Injection(1..n, L)
  <2>1. ASSUME NEW i \in 1..n, NEW j \in 1..n, sorted[i] = sorted[j]
        PROVE  i = j
    <3>1. i < j \/ i = j \/ j < i
      OBVIOUS
    <3>2. i < j => sorted[i].created < sorted[j].created
      BY DEF InOrder
    <3>3. j < i => sorted[j].created < sorted[i].created
      BY DEF InOrder
    <3>4. sorted[i].created \in Nat
      OBVIOUS
    <3> QED
      BY <2>1, <3>1, <3>2, <3>3, <3>4
  <2> QED
    BY <2>1 DEF Injection, IsInjective
<1>2. Cardinality(1..n) = Cardinality(L)
  BY FS_Interval
<1>3. sorted \in Surjection(1..n, L)
  BY <1>1, <1>2, FS_Injection
<1> QED
  BY <1>3 DEF Surjection

\* A log that has no entry twice is as long as the set of its entries.
LEMMA EntriesOnce ==
    ASSUME NEW log \in Seq(Event), HasIdsOnce(log), NEW L, L = ToSet(log)
    PROVE  IsFiniteSet(L) /\ Cardinality(L) = Len(log)
<1> DEFINE n == Len(log)
           b == [i \in 1..n |-> log[i]]
<1>1. n \in Nat /\ DOMAIN log = 1..n
  BY LenProperties
<1> HIDE DEF n
<1>2. b \in Bijection(1..n, L)
  BY <1>1 DEF Bijection, Injection, Surjection, IsInjective, HasIdsOnce, ToSet
<1> HIDE DEF b
<1>3. IsFiniteSet(1..n) /\ Cardinality(1..n) = n
  BY <1>1, FS_Interval
<1> QED
  BY <1>2, <1>3, FS_Bijection DEF ExistsBijection, n

\* What a payment says is computed from its events in the order of their
\* creation, whatever the order in which any number of handlers received
\* them, if their creation orders them.
THEOREM OrderNeverMatters == Spec => []OrderIndependent
<1>1. ASSUME TypeInv, LoggedOnce, LogInv
      PROVE  OrderIndependent
  <2> SUFFICES ASSUME NEW p \in Payment,
                      NEW sorted \in [1..Cardinality(Logged(p)) -> Logged(p)],
                      InOrder(sorted)
               PROVE  sorted = payments[p].log
    BY <1>1 DEF OrderIndependent, LogInv, Computed
  <2> DEFINE log == payments[p].log
  <2>1. log \in Seq(Event)
    <3>1. payments[p] \in PaymentDoc
      BY <1>1 DEF TypeInv
    <3> QED
      BY <3>1 DEF PaymentDoc
  <2>2. Chronological(log) /\ HasIdsOnce(log)
    BY <1>1 DEF LogInv, LoggedOnce, HasIdsOnce
  <2> DEFINE n == Len(log)
  <2>3. /\ n \in Nat /\ DOMAIN log = 1..n /\ log \in [1..n -> Event]
        /\ \A i \in 1..n : log[i].created \in Nat
    BY <2>1, LenProperties, EventAssumption
  <2>4. Logged(p) = ToSet(log)
    BY DEF Logged, ToSet
  <2> HIDE DEF log
  <2>5. IsFiniteSet(Logged(p)) /\ Cardinality(Logged(p)) = n
    BY <2>1, <2>2, <2>4, EntriesOnce
  <2> HIDE DEF n
  <2>6. \A e \in Logged(p) : e \in Event /\ \E i \in 1..n : e = log[i]
    BY <2>3, <2>4 DEF ToSet
  <2>7. \A i \in 1..n : log[i] \in Logged(p)
    BY <2>3, <2>4 DEF ToSet
  <2>8. sorted \in [1..n -> Logged(p)]
    BY <2>5
  <2>9. \A e \in Logged(p) : \E i \in 1..n : e = sorted[i]
    <3>1. \A e \in Logged(p) : e.created \in Nat
      BY <2>6, EventAssumption
    <3> QED
      BY <2>3, <2>5, <2>8, <3>1, OrderedCovers
  <2>10. \A i \in 1..n : sorted[i] \in Logged(p)
    BY <2>8
  <2>11. /\ sorted \in [1..n -> Event]
         /\ \A i \in 1..n : \E j \in 1..n : log[i] = sorted[j]
         /\ \A i \in 1..n : \E j \in 1..n : sorted[i] = log[j]
    BY <2>6, <2>7, <2>8, <2>9, <2>10
  <2>12. sorted = log
    BY <2>2, <2>3, <2>11, OneOrder
  <2> QED
    BY <2>12 DEF log
<1> QED
  BY <1>1, Invariants, LogsOnce, LogInvariant, PTL
=============================================================================
