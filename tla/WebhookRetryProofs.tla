------------------------- MODULE WebhookRetryProofs -------------------------
(***************************************************************************)
(* Proofs about the webhook of a submission, for every list of retry       *)
(* intervals, every number of messages and every failure.                  *)
(***************************************************************************)
EXTENDS WebhookRetry, FiniteSetTheorems, TLAPS

\* The times of the retries are natural numbers, none beyond the horizon.
LEMMA RetryTimes ==
    /\ NumRetries \in Nat /\ 1 \in 1 .. NumRetries
    /\ Horizon \in Nat /\ Tolerance \in Nat /\ MaxDelay \in Nat
    /\ \A n \in 1 .. NumRetries :
          /\ Earliest(n) \in Nat /\ Latest(n) \in Nat
          /\ Earliest(n) <= Latest(n)
          /\ Latest(n) <= Horizon
          /\ Earliest(n) .. Latest(n) \subseteq 0 .. Horizon
<1>1. NumRetries \in Nat \ {0} /\ Tolerance \in Nat /\ MaxDelay \in Nat
  BY RetryAssumption
<1>2. \A n \in 1 .. NumRetries :
         /\ Earliest(n) \in Nat /\ Latest(n) \in Nat
         /\ Earliest(n) <= Latest(n)
  BY RetryAssumption DEF Earliest, Latest
<1>3. \A n \in 1 .. NumRetries : Latest(n) <= Horizon
  <2> SUFFICES ASSUME NEW n \in 1 .. NumRetries
               PROVE  Latest(n) <= Horizon
    OBVIOUS
  <2>1. NumRetries \in 1 .. NumRetries
    BY <1>1
  <2>2. CASE n = NumRetries
    BY <2>1, <2>2, <1>2 DEF Horizon
  <2>3. CASE n < NumRetries
    <3>1. Latest(n) < Earliest(NumRetries)
      BY <2>1, <2>3, RetryAssumption
    <3> QED
      BY <2>1, <3>1, <1>2 DEF Horizon
  <2> QED
    BY <1>1, <2>2, <2>3
<1>4. Horizon \in Nat
  BY <1>1, <1>2 DEF Horizon
<1> QED
  BY <1>1, <1>2, <1>3, <1>4

\* getNextAttempt draws a time between the bounds of the retry that follows,
\* and only while a retry is left.
LEMMA NextAttempt ==
    ASSUME NEW attempts \in Nat \ {0}, NEW next \in getNextAttempt(attempts)
    PROVE  /\ attempts \in 1 .. NumRetries
           /\ next \in 0 .. Horizon
           /\ Earliest(attempts) <= next
<1>1. attempts < NumRetries + 1
  BY RetryTimes DEF getNextAttempt
<1>2. attempts \in 1 .. NumRetries
  BY <1>1, RetryTimes
<1>3. next \in Earliest(attempts) .. Latest(attempts)
  BY <1>1, RetryTimes DEF getNextAttempt
<1> QED
  BY <1>2, <1>3, RetryTimes

-----------------------------------------------------------------------------
(* The inductive invariant.                                                 *)

\* Until the initial sender has ended nothing is in the queue, and the
\* webhook is not delivered.
SenderInv ==
    initial # "done" => /\ ~accepted /\ ~delivered
                        /\ \A s \in Slot : queue[s] = Free

\* A message is scheduled within the bounds of its retry, and past its first
\* step only if it is due.
DueInv ==
    \A s \in Slot : queue[s] # Free =>
        /\ Earliest(queue[s].previousAttempts) <= queue[s].nextAttempt
        /\ queue[s].pc \in {"retrieve", "post"} => isDue(queue[s])

\* The slot holds a message that is not about to be deleted.
Live(s) == queue[s].pc \notin {"free", "delete"}

\* Each message that comes back is a fault. As long as none has, there is at
\* most one live message, and none once the webhook is delivered.
TokenInv ==
    /\ returned <= faults
    /\ returned = 0 => /\ \A s, t \in Slot : Live(s) /\ Live(t) => s = t
                       /\ delivered => \A s \in Slot : ~Live(s)

Inv == TypeOK /\ SenderInv /\ DueInv /\ TokenInv /\ NotForgotten

-----------------------------------------------------------------------------
(* What the steps do to the queue.                                          *)

\* A slot with a step of the handler holds a message, any other is free.
LEMMA SlotTypes ==
    ASSUME TypeOK, NEW s \in Slot
    PROVE  /\ queue[s].pc # "free" => queue[s] \in Message
           /\ queue[s].pc = "free" => queue[s] = Free
BY DEF TypeOK, Message, HandlerStep, Free

\* The handler of a message goes to another step and leaves the rest alone.
LEMMA GoToEffect ==
    ASSUME TypeOK, NEW s \in Slot, queue[s].pc # "free",
           NEW step \in HandlerStep, GoTo(s, step)
    PROVE  /\ queue' \in [Slot -> Message \cup {Free}]
           /\ queue'[s] \in Message
           /\ queue'[s].pc = step
           /\ queue'[s].previousAttempts = queue[s].previousAttempts
           /\ queue'[s].nextAttempt = queue[s].nextAttempt
           /\ \A u \in Slot \ {s} : queue'[u] = queue[u]
<1>1. queue[s] \in Message
  BY SlotTypes
<1>2. [queue[s] EXCEPT !.pc = step] \in Message
  BY <1>1 DEF Message
<1>3. queue' = [queue EXCEPT ![s] = [queue[s] EXCEPT !.pc = step]]
  BY DEF GoTo
<1> QED
  BY <1>1, <1>2, <1>3 DEF TypeOK, Message

\* The delay of the queue ends before the horizon.
LEMMA VisibleType ==
    ASSUME TypeOK, NEW next \in 0 .. Horizon
    PROVE  VisibleAfterDelay(next) \in 0 .. Horizon
BY RetryTimes DEF TypeOK, VisibleAfterDelay, Least

\* A free slot receives the new message and the handler of slot s, if any,
\* has its own left to delete.
LEMMA EnqueueEffect ==
    ASSUME TypeOK, NEW s \in Slot \cup {0},
           s \in Slot => queue[s].pc # "free",
           NEW attempts \in 1 .. NumRetries, NEW next \in 0 .. Horizon,
           Enqueue(s, attempts, next)
    PROVE  /\ queue' \in [Slot -> Message \cup {Free}]
           /\ \E t \in Slot :
                 /\ queue[t] = Free /\ t # s
                 /\ queue'[t] \in Message
                 /\ queue'[t].pc = "queued"
                 /\ queue'[t].previousAttempts = attempts
                 /\ queue'[t].nextAttempt = next
                 /\ \A u \in Slot \ {s, t} : queue'[u] = queue[u]
           /\ s \in Slot =>
                 /\ queue'[s] \in Message
                 /\ queue'[s].pc = "delete"
                 /\ queue'[s].previousAttempts = queue[s].previousAttempts
                 /\ queue'[s].nextAttempt = queue[s].nextAttempt
<1> DEFINE t == CHOOSE u \in Unused : TRUE
           new == [pc |-> "queued", previousAttempts |-> attempts,
                   nextAttempt |-> next, visible |-> VisibleAfterDelay(next)]
           done == [queue[s] EXCEPT !.pc = "delete"]
<1>1. t \in Slot /\ queue[t].pc = "free"
  BY DEF Enqueue, Unused, At
<1>2. queue[t] = Free /\ t # s
  BY <1>1, SlotTypes
<1>3. queue' = [u \in Slot |-> CASE u = t -> new
                                 [] u = s -> done
                                 [] OTHER -> queue[u]]
  BY DEF Enqueue
<1> HIDE DEF t
<1>4. new \in Message
  BY VisibleType DEF Message, HandlerStep
<1>5. s \in Slot => /\ done \in Message
                    /\ done.pc = "delete"
                    /\ done.previousAttempts = queue[s].previousAttempts
                    /\ done.nextAttempt = queue[s].nextAttempt
  <2>1. s \in Slot => queue[s] \in Message
    BY SlotTypes
  <2> QED
    BY <2>1 DEF Message, HandlerStep
<1>6. queue'[t] = new
  BY <1>1, <1>3
<1>7. \A u \in Slot \ {t, s} : queue'[u] = queue[u]
  BY <1>3
<1>8. s \in Slot => queue'[s] = done
  BY <1>2, <1>3
<1>9. queue' \in [Slot -> Message \cup {Free}]
  <2>1. \A u \in Slot : queue'[u] \in Message \cup {Free}
    BY <1>4, <1>5, <1>6, <1>7, <1>8 DEF TypeOK
  <2> QED
    BY <1>3, <2>1
<1>10. new.pc = "queued" /\ new.previousAttempts = attempts /\ new.nextAttempt = next
  OBVIOUS
<1> HIDE DEF new, done
<1> QED
  BY <1>1, <1>2, <1>4, <1>5, <1>6, <1>7, <1>8, <1>9, <1>10

\* The message of a slot comes back, or is moved to the dead-letter queue.
LEMMA ReturnEffect ==
    ASSUME TypeOK, NEW s \in Slot, queue[s].pc # "free", Return(s)
    PROVE  /\ queue' \in [Slot -> Message \cup {Free}]
           /\ \A u \in Slot \ {s} : queue'[u] = queue[u]
           /\ \/ /\ queue'[s] \in Message
                 /\ queue'[s].pc = "queued"
                 /\ queue'[s].previousAttempts = queue[s].previousAttempts
                 /\ queue'[s].nextAttempt = queue[s].nextAttempt
                 /\ returned' = returned + 1
                 /\ ended' = ended
              \/ /\ queue'[s] = Free
                 /\ returned' = returned
                 /\ ended' = ended \cup {"dead-letter"}
<1>1. queue[s] \in Message
  BY SlotTypes
<1>2. CASE /\ queue' = [queue EXCEPT ![s] = Free]
           /\ ended' = ended \cup {"dead-letter"}
           /\ UNCHANGED returned
  <2>1. queue'[s] = Free /\ \A u \in Slot \ {s} : queue'[u] = queue[u]
    BY <1>2 DEF TypeOK
  <2>2. queue' \in [Slot -> Message \cup {Free}]
    BY <1>2 DEF TypeOK
  <2> QED
    BY <1>2, <2>1, <2>2
<1>3. CASE /\ queue' = [queue EXCEPT ![s].pc = "queued", ![s].visible = age]
           /\ returned' = returned + 1
           /\ UNCHANGED ended
  <2> DEFINE back == [queue[s] EXCEPT !.pc = "queued", !.visible = age]
  <2>1. back \in Message /\ back.pc = "queued"
    BY <1>1 DEF Message, HandlerStep, TypeOK
  <2>2. /\ back.previousAttempts = queue[s].previousAttempts
        /\ back.nextAttempt = queue[s].nextAttempt
    BY <1>1 DEF Message
  <2>3. queue' = [queue EXCEPT ![s] = back]
    BY <1>3
  <2> HIDE DEF back
  <2>4. /\ queue'[s] = back
        /\ \A u \in Slot \ {s} : queue'[u] = queue[u]
        /\ queue' \in [Slot -> Message \cup {Free}]
    BY <2>1, <2>3 DEF TypeOK
  <2> QED
    BY <1>3, <2>1, <2>2, <2>4
<1> QED
  BY <1>2, <1>3 DEF Return

-----------------------------------------------------------------------------
(* Every step keeps the invariant.                                          *)

\* A handler that only goes to its next step: it reaches the webhook only if
\* the message is due, and the deletion only with a reason.
LEMMA HandlerGoesOn ==
    ASSUME Inv, NEW s \in Slot, NEW step \in HandlerStep, GoTo(s, step),
           queue[s].pc \notin {"free", "delete"},
           UNCHANGED <<age, enabled, initial, accepted, faults, returned>>,
           posts' \in Nat,
           delivered' \in BOOLEAN, delivered => delivered',
           ended \subseteq ended',
           ended' \subseteq {"disabled", "exhausted", "dead-letter"},
           step \in {"retrieve", "post"} => isDue(queue[s]),
           step = "delete" => delivered' \/ ended' # {},
           step # "delete" => delivered' = delivered
    PROVE  Inv'
<1>1. /\ queue' \in [Slot -> Message \cup {Free}]
      /\ queue'[s] \in Message
      /\ queue'[s].pc = step
      /\ queue'[s].previousAttempts = queue[s].previousAttempts
      /\ queue'[s].nextAttempt = queue[s].nextAttempt
      /\ \A u \in Slot \ {s} : queue'[u] = queue[u]
  BY GoToEffect DEF Inv
<1>2. queue[s] # Free /\ initial = "done"
  BY DEF Inv, SenderInv, Free
<1>3. TypeOK'
  BY <1>1 DEF Inv, TypeOK
<1>4. SenderInv'
  BY <1>2 DEF SenderInv
<1>5. DueInv'
  BY <1>1, <1>2 DEF Inv, DueInv, isDue
<1>6. TokenInv'
  BY <1>1, <1>2 DEF Inv, TokenInv, Live, TypeOK
<1>7. NotForgotten'
  <2>1. CASE delivered' \/ ended' # {}
    BY <2>1 DEF NotForgotten
  <2>2. CASE step # "delete"
    BY <1>1, <2>2 DEF NotForgotten, At, HandlerStep
  <2> QED
    BY <2>1, <2>2
<1> QED
  BY <1>3, <1>4, <1>5, <1>6, <1>7 DEF Inv

\* A handler that sends a message: it was live, and the new message is.
LEMMA HandlerEnqueues ==
    ASSUME Inv, NEW s \in Slot, NEW attempts \in 1 .. NumRetries,
           NEW next \in 0 .. Horizon, Enqueue(s, attempts, next),
           queue[s].pc \notin {"free", "delete"},
           Earliest(attempts) <= next,
           UNCHANGED <<age, enabled, initial, posts, delivered, accepted, ended,
                       faults, returned>>
    PROVE  Inv'
<1>1. PICK t \in Slot :
         /\ queue[t] = Free /\ t # s
         /\ queue'[t] \in Message
         /\ queue'[t].pc = "queued"
         /\ queue'[t].previousAttempts = attempts
         /\ queue'[t].nextAttempt = next
         /\ \A u \in Slot \ {s, t} : queue'[u] = queue[u]
  BY EnqueueEffect DEF Inv
<1>2. /\ queue' \in [Slot -> Message \cup {Free}]
      /\ queue'[s] \in Message
      /\ queue'[s].pc = "delete"
      /\ queue'[s].previousAttempts = queue[s].previousAttempts
      /\ queue'[s].nextAttempt = queue[s].nextAttempt
  BY EnqueueEffect DEF Inv
<1>3. queue[s] # Free /\ initial = "done"
  BY DEF Inv, SenderInv, Free
<1>4. TypeOK'
  BY <1>2 DEF Inv, TypeOK
<1>5. SenderInv'
  BY <1>3 DEF SenderInv
<1>6. DueInv'
  <2>1. \A u \in Slot \ {s, t} : queue'[u] = queue[u]
    BY <1>1
  <2> QED
    BY <1>1, <1>2, <1>3, <2>1 DEF Inv, DueInv, isDue
<1>7. TokenInv'
  BY <1>1, <1>2, <1>3 DEF Inv, TokenInv, Live
<1>8. NotForgotten'
  BY <1>1 DEF NotForgotten, At
<1> QED
  BY <1>4, <1>5, <1>6, <1>7, <1>8 DEF Inv

\* A handler that rejects or stops.
LEMMA HandlerReturns ==
    ASSUME Inv, NEW s \in Slot, Return(s), queue[s].pc # "free",
           UNCHANGED Unsent, faults' = faults + 1, faults < MaxFaults
    PROVE  Inv'
<1>1. /\ queue' \in [Slot -> Message \cup {Free}]
      /\ \A u \in Slot \ {s} : queue'[u] = queue[u]
      /\ \/ /\ queue'[s] \in Message
            /\ queue'[s].pc = "queued"
            /\ queue'[s].previousAttempts = queue[s].previousAttempts
            /\ queue'[s].nextAttempt = queue[s].nextAttempt
            /\ returned' = returned + 1
            /\ ended' = ended
         \/ /\ queue'[s] = Free
            /\ returned' = returned
            /\ ended' = ended \cup {"dead-letter"}
  BY ReturnEffect DEF Inv
<1>2. queue[s] # Free /\ initial = "done"
  BY DEF Inv, SenderInv, Free
<1>3. UNCHANGED <<age, enabled, initial, posts, delivered, accepted>>
  BY DEF Unsent
<1>4. /\ faults' \in 0 .. MaxFaults
      /\ returned' \in 0 .. MaxFaults /\ returned' <= faults'
  BY <1>1, RetryAssumption DEF Inv, TypeOK, TokenInv
<1>5. TypeOK'
  BY <1>1, <1>3, <1>4 DEF Inv, TypeOK
<1>6. SenderInv'
  BY <1>2, <1>3 DEF SenderInv
<1>7. DueInv'
  <2>1. queue'[s] # Free =>
           /\ queue'[s].pc = "queued"
           /\ queue'[s].previousAttempts = queue[s].previousAttempts
           /\ queue'[s].nextAttempt = queue[s].nextAttempt
    BY <1>1
  <2>2. \A u \in Slot \ {s} : queue'[u] = queue[u]
    BY <1>1
  <2> QED
    BY <1>2, <1>3, <2>1, <2>2 DEF Inv, DueInv, isDue
<1>8. TokenInv'
  <2>1. CASE returned' = returned + 1
    BY <1>4, <2>1 DEF Inv, TypeOK, TokenInv
  <2>2. CASE returned' = returned /\ queue'[s] = Free
    BY <1>1, <1>3, <1>4, <2>2 DEF Inv, TokenInv, Live, Free
  <2> QED
    BY <1>1, <2>1, <2>2
<1>9. NotForgotten'
  BY <1>1, <1>2, <1>3 DEF Inv, NotForgotten, At
<1> QED
  BY <1>5, <1>6, <1>7, <1>8, <1>9 DEF Inv

\* The initial sender, as long as it sends nothing.
LEMMA SenderSteps ==
    ASSUME Inv,
           InitialPost \/ InitialNotPosted \/ InitialSave \/ InitialCrash
    PROVE  Inv'
<1>1. /\ UNCHANGED <<age, enabled, queue, accepted, ended, returned>>
      /\ initial # "done"
      /\ initial' \in {"save", "push", "done"}
      /\ posts' \in Nat /\ delivered' \in BOOLEAN
      /\ initial' # "done" => ~delivered'
      /\ faults' \in {faults, faults + 1}
      /\ faults' = faults + 1 => faults < MaxFaults
  BY DEF InitialPost, InitialNotPosted, InitialSave, InitialCrash, Fault,
         Inv, TypeOK, SenderInv
<1>2. ~accepted /\ ~delivered /\ \A s \in Slot : queue[s] = Free
  BY <1>1 DEF Inv, SenderInv
<1>3. faults' \in 0 .. MaxFaults /\ returned <= faults'
  BY <1>1, RetryAssumption DEF Inv, TypeOK, TokenInv
<1>4. TypeOK'
  BY <1>1, <1>3 DEF Inv, TypeOK
<1>5. SenderInv'
  BY <1>1, <1>2 DEF SenderInv
<1>6. DueInv'
  BY <1>1, <1>2 DEF DueInv
<1>7. TokenInv'
  BY <1>1, <1>2, <1>3 DEF TokenInv, Live, Free
<1>8. NotForgotten'
  BY <1>1, <1>2 DEF NotForgotten
<1> QED
  BY <1>4, <1>5, <1>6, <1>7, <1>8 DEF Inv

\* The first message is the only one.
LEMMA FirstMessage ==
    ASSUME Inv, InitialPush
    PROVE  Inv'
<1>1. /\ initial # "done" /\ initial' = "done"
      /\ UNCHANGED <<age, enabled, posts, delivered, ended, returned>>
  BY DEF InitialPush
<1>2. ~accepted /\ ~delivered /\ \A s \in Slot : queue[s] = Free
  BY <1>1 DEF Inv, SenderInv
<1>3. CASE Fault("push") /\ UNCHANGED <<queue, accepted>>
  <2>1. faults' \in 0 .. MaxFaults /\ returned' <= faults'
    BY <1>1, <1>3, RetryAssumption DEF Fault, Inv, TypeOK, TokenInv
  <2>2. TypeOK' /\ SenderInv' /\ DueInv'
    BY <1>1, <1>2, <1>3, <2>1 DEF Inv, TypeOK, SenderInv, DueInv
  <2>3. TokenInv' /\ NotForgotten'
    BY <1>1, <1>2, <1>3, <2>1 DEF TokenInv, NotForgotten, Live, Free
  <2> QED
    BY <2>2, <2>3 DEF Inv
<1>4. CASE /\ \E next \in getNextAttempt(1) : Enqueue(0, 1, next)
           /\ accepted' = TRUE
           /\ UNCHANGED faults
  <2>1. PICK next \in getNextAttempt(1) : Enqueue(0, 1, next)
    BY <1>4
  <2>2. /\ 1 \in 1 .. NumRetries /\ next \in 0 .. Horizon
        /\ Earliest(1) <= next
    BY NextAttempt
  <2>3. 0 \in Slot \cup {0} /\ 0 \notin Slot
    BY RetryAssumption
  <2>4. /\ queue' \in [Slot -> Message \cup {Free}]
        /\ \E t \in Slot :
              /\ queue'[t].pc = "queued"
              /\ queue'[t].previousAttempts = 1
              /\ queue'[t].nextAttempt = next
              /\ \A u \in Slot \ {t} : queue'[u] = Free
    BY <1>2, <2>1, <2>2, <2>3, EnqueueEffect DEF Inv
  <2>5. TypeOK'
    BY <1>1, <1>4, <2>4 DEF Inv, TypeOK
  <2>6. SenderInv'
    BY <1>1 DEF SenderInv
  <2>7. DueInv'
    BY <2>2, <2>4 DEF DueInv
  <2>8. TokenInv' /\ NotForgotten'
    BY <1>1, <1>2, <1>4, <2>4 DEF Inv, TokenInv, NotForgotten, Live, Free, At
  <2> QED
    BY <2>5, <2>6, <2>7, <2>8 DEF Inv
<1> QED
  BY <1>3, <1>4 DEF InitialPush

\* A deleted message was not the one that keeps the webhook.
LEMMA MessageDeleted ==
    ASSUME Inv, NEW s \in Slot, Delete(s)
    PROVE  Inv'
<1>1. /\ queue[s].pc = "delete"
      /\ queue' \in [Slot -> Message \cup {Free}]
      /\ queue'[s] = Free
      /\ \A u \in Slot \ {s} : queue'[u] = queue[u]
      /\ UNCHANGED <<age, enabled, initial, posts, delivered, accepted, ended,
                     faults, returned>>
  BY DEF Delete, At, Unsent, Inv, TypeOK
<1>2. TypeOK' /\ SenderInv'
  BY <1>1 DEF Inv, TypeOK, SenderInv
<1>3. DueInv'
  BY <1>1 DEF Inv, DueInv, isDue
<1>4. TokenInv'
  BY <1>1 DEF Inv, TokenInv, Live, Free
<1>5. NotForgotten'
  BY <1>1 DEF Inv, NotForgotten, At
<1> QED
  BY <1>2, <1>3, <1>4, <1>5 DEF Inv

\* The copy of a message that is being handled.
LEMMA MessageCopied ==
    ASSUME Inv, NEW s \in Slot, VisibilityTimeout(s)
    PROVE  Inv'
<1>1. /\ queue[s].pc \notin {"free", "queued"}
      /\ faults' = faults + 1 /\ faults < MaxFaults
      /\ returned' = returned + 1
      /\ UNCHANGED <<age, enabled, initial, posts, delivered, accepted, ended>>
  BY DEF VisibilityTimeout, Fault, Unsent
<1> DEFINE copy == [queue[s] EXCEPT !.pc = "queued", !.visible = age]
<1>2. PICK t \in Unused : queue' = [queue EXCEPT ![t] = copy]
  BY DEF VisibilityTimeout
<1>3. queue[s] \in Message /\ queue[s] # Free /\ initial = "done"
  BY <1>1, SlotTypes DEF Inv, SenderInv, Free
<1>4. /\ copy \in Message /\ copy.pc = "queued"
      /\ copy.previousAttempts = queue[s].previousAttempts
      /\ copy.nextAttempt = queue[s].nextAttempt
  BY <1>3 DEF Message, HandlerStep, Inv, TypeOK
<1>5. t \in Slot
  BY DEF Unused
<1> HIDE DEF copy
<1>6. /\ queue' \in [Slot -> Message \cup {Free}]
      /\ queue'[t] = copy
      /\ \A u \in Slot \ {t} : queue'[u] = queue[u]
  BY <1>2, <1>4, <1>5 DEF Inv, TypeOK
<1>7. /\ faults' \in 0 .. MaxFaults
      /\ returned' \in 0 .. MaxFaults
      /\ returned' # 0 /\ returned' <= faults'
  BY <1>1, RetryAssumption DEF Inv, TypeOK, TokenInv
<1>8. TypeOK'
  BY <1>1, <1>6, <1>7 DEF Inv, TypeOK
<1>9. SenderInv' /\ TokenInv'
  BY <1>1, <1>3, <1>7 DEF SenderInv, TokenInv
<1>10. DueInv'
  BY <1>1, <1>3, <1>4, <1>6 DEF Inv, DueInv, isDue
<1>11. NotForgotten'
  BY <1>4, <1>5, <1>6 DEF NotForgotten, At
<1> QED
  BY <1>8, <1>9, <1>10, <1>11 DEF Inv

\* Time only makes messages due.
LEMMA TimePasses ==
    ASSUME Inv, Tick
    PROVE  Inv'
<1>1. /\ age < Horizon /\ age' = age + 1
      /\ UNCHANGED <<enabled, initial, queue, posts, delivered, accepted, ended,
                     faults, returned>>
  BY DEF Tick
<1>2. TypeOK'
  BY <1>1, RetryTimes DEF Inv, TypeOK
<1>3. DueInv'
  <2> SUFFICES ASSUME NEW s \in Slot, queue[s] # Free,
                      queue[s].pc \in {"retrieve", "post"}
               PROVE  isDue(queue[s])'
    BY <1>1 DEF Inv, DueInv, isDue
  <2>1. queue[s] \in Message
    BY DEF Inv, TypeOK
  <2>2. queue[s].nextAttempt \in Int /\ queue[s].nextAttempt - age <= Tolerance
    BY <2>1, RetryTimes DEF Inv, DueInv, isDue, Message
  <2> QED
    BY <1>1, <2>2, RetryTimes DEF isDue, Inv, TypeOK
<1>4. SenderInv' /\ TokenInv' /\ NotForgotten'
  BY <1>1 DEF Inv, SenderInv, TokenInv, NotForgotten, Live, At
<1> QED
  BY <1>2, <1>3, <1>4 DEF Inv

-----------------------------------------------------------------------------
(* The invariant and its consequences.                                      *)

LEMMA InitInv == Init => Inv
<1> SUFFICES ASSUME Init PROVE Inv
  OBVIOUS
<1>1. age \in 0 .. Horizon /\ posts \in Nat
      /\ faults \in 0 .. MaxFaults /\ returned \in 0 .. MaxFaults
  BY RetryTimes, RetryAssumption DEF Init
<1>2. queue \in [Slot -> Message \cup {Free}]
  BY DEF Init
<1>3. TypeOK
  BY <1>1, <1>2 DEF Init, TypeOK
<1>4. SenderInv /\ DueInv /\ NotForgotten
  BY DEF Init, SenderInv, DueInv, NotForgotten
<1>5. TokenInv
  BY DEF Init, TokenInv, Live, Free
<1> QED
  BY <1>3, <1>4, <1>5 DEF Inv

LEMMA NextInv == Inv /\ [Next]_vars => Inv'
<1> SUFFICES ASSUME Inv, [Next]_vars PROVE Inv'
  OBVIOUS
<1> USE DEF Unsent
<1>1. CASE Sender \/ InitialNotPosted \/ InitialCrash
  BY <1>1, SenderSteps, FirstMessage DEF Sender
<1>2. ASSUME NEW s \in Slot, Handler(s) PROVE Inv'
  <2> USE DEF At
  <2>1. posts + 1 \in Nat /\ posts \in Nat /\ delivered \in BOOLEAN
        /\ ended \subseteq {"disabled", "exhausted", "dead-letter"}
    BY DEF Inv, TypeOK
  <2>2. CASE Receive(s)
    <3> DEFINE step == IF isDue(queue[s]) THEN "retrieve" ELSE "requeue"
    <3>1. step \in HandlerStep /\ (step = "retrieve" => isDue(queue[s]))
          /\ step \notin {"post", "delete"}
      BY DEF HandlerStep
    <3>2. GoTo(s, step) /\ queue[s].pc = "queued"
          /\ UNCHANGED <<Unsent, ended, faults, returned>>
      BY <2>2 DEF Receive
    <3> HIDE DEF step
    <3> QED
      BY <2>1, <3>1, <3>2, HandlerGoesOn
  <2>3. CASE Requeue(s)
    <3>1. /\ queue[s].pc = "requeue"
          /\ Enqueue(s, queue[s].previousAttempts, queue[s].nextAttempt)
          /\ UNCHANGED <<Unsent, ended, faults, returned>>
      BY <2>3 DEF Requeue
    <3>2. queue[s] \in Message /\ queue[s] # Free
      BY <3>1, SlotTypes DEF Inv, Free
    <3>3. /\ queue[s].previousAttempts \in 1 .. NumRetries
          /\ queue[s].nextAttempt \in 0 .. Horizon
      BY <3>2 DEF Message
    <3>4. Earliest(queue[s].previousAttempts) <= queue[s].nextAttempt
      BY <3>2 DEF Inv, DueInv
    <3> QED
      BY <3>1, <3>3, <3>4, HandlerEnqueues
  <2>4. CASE RetrieveInfo(s)
    <3>1. GoTo(s, "post") /\ queue[s].pc = "retrieve"
          /\ UNCHANGED <<Unsent, ended, faults, returned>>
      BY <2>4 DEF RetrieveInfo
    <3>2. isDue(queue[s]) /\ "post" \in HandlerStep
      BY <3>1 DEF Inv, DueInv, Free, HandlerStep
    <3> QED
      BY <2>1, <3>1, <3>2, HandlerGoesOn
  <2>5. CASE RetriesNotEnabled(s) \/ NoMoreRetries(s) \/ PostSucceeds(s)
    <3>1. /\ GoTo(s, "delete")
          /\ queue[s].pc \in {"retrieve", "post", "push"}
          /\ UNCHANGED <<age, enabled, initial, accepted, faults, returned>>
          /\ posts' \in Nat
          /\ delivered' \in BOOLEAN /\ (delivered => delivered')
          /\ ended \subseteq ended'
          /\ ended' \subseteq {"disabled", "exhausted", "dead-letter"}
          /\ delivered' \/ ended' # {}
      BY <2>1, <2>5 DEF RetriesNotEnabled, NoMoreRetries, PostSucceeds
    <3>2. "delete" \in HandlerStep
      BY DEF HandlerStep
    <3> QED
      BY <3>1, <3>2, HandlerGoesOn
  <2>6. CASE PostFails(s)
    <3>1. GoTo(s, "push") /\ queue[s].pc = "post" /\ posts' = posts + 1
          /\ UNCHANGED <<age, enabled, initial, delivered, accepted, ended,
                         faults, returned>>
      BY <2>6 DEF PostFails
    <3>2. "push" \in HandlerStep
      BY DEF HandlerStep
    <3> QED
      BY <2>1, <3>1, <3>2, HandlerGoesOn
  <2>7. CASE PushNext(s)
    <3>1. PICK next \in getNextAttempt(queue[s].previousAttempts + 1) :
             Enqueue(s, queue[s].previousAttempts + 1, next)
      BY <2>7 DEF PushNext
    <3>2. queue[s].pc = "push"
          /\ UNCHANGED <<Unsent, ended, faults, returned>>
      BY <2>7 DEF PushNext
    <3>3. queue[s].previousAttempts \in 1 .. NumRetries
      BY <3>2, SlotTypes DEF Inv, Message
    <3>4. queue[s].previousAttempts + 1 \in Nat \ {0}
      BY <3>3, RetryTimes
    <3>5. /\ queue[s].previousAttempts + 1 \in 1 .. NumRetries
          /\ next \in 0 .. Horizon
          /\ Earliest(queue[s].previousAttempts + 1) <= next
      BY <3>4, NextAttempt
    <3> QED
      BY <3>1, <3>2, <3>5, HandlerEnqueues
  <2>8. CASE Delete(s)
    BY <2>8, MessageDeleted
  <2> QED
    BY <1>2, <2>2, <2>3, <2>4, <2>5, <2>6, <2>7, <2>8 DEF Handler
<1>3. ASSUME NEW s \in Slot, Reject(s) \/ Crash(s) PROVE Inv'
  <2>1. /\ Return(s) /\ queue[s].pc # "free" /\ UNCHANGED Unsent
        /\ faults' = faults + 1 /\ faults < MaxFaults
    BY <1>3 DEF Reject, Crash, Fault, At
  <2> QED
    BY <2>1, HandlerReturns
<1>4. ASSUME NEW s \in Slot, VisibilityTimeout(s) PROVE Inv'
  BY <1>4, MessageCopied
<1>5. CASE Tick
  BY <1>5, TimePasses
<1>6. CASE ToggleRetries \/ UNCHANGED vars
  <2>1. /\ UNCHANGED <<age, initial, queue, posts, delivered, accepted, ended,
                       faults, returned>>
        /\ enabled' \in BOOLEAN
    BY <1>6 DEF ToggleRetries, vars, Inv, TypeOK
  <2> QED
    BY <2>1 DEF Inv, TypeOK, SenderInv, DueInv, TokenInv, NotForgotten, Live,
                isDue, At
<1> QED
  BY <1>1, <1>2, <1>3, <1>4, <1>5, <1>6 DEF Next

\* The inductive invariant holds for every list of intervals and every bound.
THEOREM RetriesCorrect == Spec => []Inv
<1> QED
  BY InitInv, NextInv, PTL DEF Spec

\* Every variable keeps its type: no message has more attempts behind it or a
\* later time than getNextAttempt allows.
THEOREM TypeCorrect == Spec => []TypeOK
<1>1. Inv => TypeOK
  BY DEF Inv
<1> QED
  BY <1>1, RetriesCorrect, PTL

\* Once its first message is in the queue, no crash, failing call or
\* duplicate makes the consumer forget an undelivered webhook.
THEOREM NeverForgotten == Spec => []NotForgotten
<1>1. Inv => NotForgotten
  BY DEF Inv
<1> QED
  BY <1>1, RetriesCorrect, PTL

\* No attempt is made before the earliest time of its retry, less the
\* tolerance, for any intervals and any delay of the queue.
THEOREM AttemptsOnTime == Spec => NeverEarly
<1>1. ASSUME Inv, NEW s \in Slot, queue[s].pc = "post"
      PROVE  age >= Earliest(queue[s].previousAttempts) - Tolerance
  <2>1. queue[s] \in Message /\ queue[s] # Free
    BY <1>1, SlotTypes DEF Inv, Free
  <2>2. /\ Earliest(queue[s].previousAttempts) <= queue[s].nextAttempt
        /\ queue[s].nextAttempt - age <= Tolerance
    BY <1>1, <2>1 DEF Inv, DueInv, isDue
  <2>3. /\ queue[s].nextAttempt \in Int
        /\ Earliest(queue[s].previousAttempts) \in Int
        /\ age \in Int /\ Tolerance \in Int
    BY <1>1, <2>1, RetryTimes DEF Message, Inv, TypeOK
  <2> QED
    BY <2>2, <2>3
<1>2. Inv /\ [Next]_vars =>
        [\A s \in Slot : PostFails(s) \/ PostSucceeds(s) =>
           age >= Earliest(queue[s].previousAttempts) - Tolerance]_vars
  BY <1>1 DEF PostFails, PostSucceeds, At
<1> QED
  BY <1>2, RetriesCorrect, PTL DEF Spec, NeverEarly

\* While no message has come back, a delivered webhook is not posted again.
THEOREM SuccessIsFinal == Spec => StopsAfterSuccess
<1>1. Inv /\ [Next]_vars => [delivered /\ returned = 0 => posts' = posts]_vars
  <2> SUFFICES ASSUME Inv, [Next]_vars, delivered, returned = 0
               PROVE  posts' = posts
    OBVIOUS
  <2>1. initial = "done" /\ \A s \in Slot : queue[s].pc \in {"free", "delete"}
    BY DEF Inv, SenderInv, TokenInv, Live
  <2>2. \A s \in Slot : ~PostFails(s) /\ ~PostSucceeds(s)
    BY <2>1 DEF PostFails, PostSucceeds, At
  <2>3. ~InitialPost
    BY <2>1 DEF InitialPost
  <2> QED
    BY <2>2, <2>3 DEF Next, vars, Sender, Handler, InitialSave, InitialPush,
        InitialNotPosted, InitialCrash, Receive, Requeue, RetrieveInfo,
        RetriesNotEnabled, PushNext, NoMoreRetries, Delete, Reject, Crash,
        VisibilityTimeout, Tick, ToggleRetries, Unsent
<1> QED
  BY <1>1, RetriesCorrect, PTL DEF Spec, StopsAfterSuccess


-----------------------------------------------------------------------------
(* The number of attempts.                                                  *)

\* The attempts the message of each slot may still lead to, if none comes
\* back.
Budget(messages) ==
    [s \in Slot |->
        IF messages[s].pc \in {"free", "delete"} THEN 0
        ELSE IF messages[s].pc = "push"
             THEN NumRetries - messages[s].previousAttempts
             ELSE NumRetries - messages[s].previousAttempts + 1]

\* The same of the initial sender.
SenderBudget ==
    IF initial = "post" THEN NumRetries + 1
    ELSE IF initial = "done" THEN 0 ELSE NumRetries

\* The attempts of all slots, each of them as a pair.
Left(budget) == {sk \in Slot \X (1 .. NumRetries) : sk[2] <= budget[sk[1]]}

\* What is left never exceeds what every message that came back added.
BudgetInv ==
    /\ IsFiniteSet(Left(Budget(queue)))
    /\ posts + SenderBudget + Cardinality(Left(Budget(queue)))
          <= (NumRetries + 1) * (returned + 1)

\* No message leads to more attempts than there are retries.
LEMMA BudgetType ==
    ASSUME NEW messages \in [Slot -> Message \cup {Free}]
    PROVE  Budget(messages) \in [Slot -> 0 .. NumRetries]
<1> SUFFICES ASSUME NEW s \in Slot
             PROVE  Budget(messages)[s] \in 0 .. NumRetries
  BY DEF Budget
<1>1. CASE messages[s] = Free
  BY <1>1, RetryTimes DEF Budget, Free
<1>2. CASE messages[s] \in Message
  <2>1. messages[s].previousAttempts \in 1 .. NumRetries
    BY <1>2 DEF Message
  <2> QED
    BY <2>1, RetryTimes DEF Budget
<1> QED
  BY <1>1, <1>2

\* A change of one slot changes the number of attempts left by as much.
LEMMA LeftChanges ==
    ASSUME NEW b \in [Slot -> 0 .. NumRetries], IsFiniteSet(Left(b)),
           NEW c \in [Slot -> 0 .. NumRetries],
           NEW s \in Slot, \A u \in Slot \ {s} : c[u] = b[u]
    PROVE  /\ IsFiniteSet(Left(c))
           /\ Cardinality(Left(b)) \in Nat /\ Cardinality(Left(c)) \in Nat
           /\ Cardinality(Left(c)) = Cardinality(Left(b)) - b[s] + c[s]
<1> DEFINE Others == {sk \in Left(b) : sk[1] # s}
           Own(n) == {<<s, k>> : k \in 1 .. n}
<1>1. NumRetries \in Nat
  BY RetryTimes
<1>2. ASSUME NEW n \in 0 .. NumRetries
      PROVE  IsFiniteSet(Own(n)) /\ Cardinality(Own(n)) = n
  <2> DEFINE f == [k \in 1 .. n |-> <<s, k>>]
  <2>1. f \in Bijection(1 .. n, Own(n))
    BY DEF Bijection, Injection, Surjection, IsInjective
  <2>2. 0 \in Int /\ 1 \in Int /\ n \in Int /\ n \in Nat
    BY <1>1
  <2>3. IsFiniteSet(1 .. n) /\ Cardinality(1 .. n) = n
    <3>1. IsFiniteSet(1 .. n)
          /\ Cardinality(1 .. n) = IF 1 > n THEN 0 ELSE n - 1 + 1
      BY <2>2, FS_Interval
    <3> QED
      BY <2>2, <3>1
  <2> HIDE DEF f, Own
  <2>4. ExistsBijection(1 .. n, Own(n))
    BY <2>1 DEF ExistsBijection
  <2> QED
    BY <2>3, <2>4, FS_Bijection
<1>3. IsFiniteSet(Others)
  BY FS_Subset
<1>4. Left(b) = Others \cup Own(b[s]) /\ Others \cap Own(b[s]) = {}
  BY <1>1 DEF Left
<1>5. Left(c) = Others \cup Own(c[s]) /\ Others \cap Own(c[s]) = {}
  BY <1>1 DEF Left
<1> HIDE DEF Others, Own
<1>6. /\ Cardinality(Left(b)) = Cardinality(Others) + b[s]
      /\ IsFiniteSet(Left(c))
      /\ Cardinality(Left(c)) = Cardinality(Others) + c[s]
  <2>1. /\ IsFiniteSet(Own(b[s])) /\ Cardinality(Own(b[s])) = b[s]
        /\ IsFiniteSet(Own(c[s])) /\ Cardinality(Own(c[s])) = c[s]
    BY <1>2
  <2>2. Cardinality({}) = 0 /\ Cardinality(Others) \in Nat
    BY <1>3, FS_EmptySet, FS_CardinalityType
  <2>3. ASSUME NEW S, IsFiniteSet(S), Others \cap S = {}, Cardinality(S) \in Nat
        PROVE  /\ IsFiniteSet(Others \cup S)
               /\ Cardinality(Others \cup S) = Cardinality(Others) + Cardinality(S)
    <3>1. /\ IsFiniteSet(Others \cup S)
          /\ Cardinality(Others \cup S)
                = Cardinality(Others) + Cardinality(S) - Cardinality(Others \cap S)
      BY <1>3, <2>3, FS_Union
    <3>2. Cardinality(Others \cap S) = 0
      BY <2>2, <2>3
    <3> QED
      BY <2>2, <2>3, <3>1, <3>2
  <2>4. Cardinality(Own(b[s])) \in Nat /\ Cardinality(Own(c[s])) \in Nat
    BY <1>1, <2>1
  <2> QED
    BY <1>4, <1>5, <2>1, <2>3, <2>4
<1>7. /\ Cardinality(Others) \in Nat /\ b[s] \in Nat /\ c[s] \in Nat
  BY <1>1, <1>3, FS_CardinalityType
<1> QED
  BY <1>6, <1>7

\* One slot changes, and what it may still lead to shrinks by the attempts
\* made, or grows by no more than the retries when its message comes back.
LEMMA SlotBudget ==
    ASSUME TypeOK, TypeOK', BudgetInv, initial' = initial, NEW s \in Slot,
           \A u \in Slot \ {s} : queue'[u] = queue[u],
           \/ /\ returned' = returned
              /\ Budget(queue')[s] + posts' <= Budget(queue)[s] + posts
           \/ returned' = returned + 1 /\ posts' = posts
    PROVE  BudgetInv'
<1>1. /\ Budget(queue) \in [Slot -> 0 .. NumRetries]
      /\ Budget(queue') \in [Slot -> 0 .. NumRetries]
      /\ NumRetries \in Nat
  BY BudgetType, RetryTimes DEF TypeOK
<1>2. \A u \in Slot \ {s} : Budget(queue')[u] = Budget(queue)[u]
  BY DEF Budget
<1>3. SenderBudget' = SenderBudget
  BY DEF SenderBudget
<1> DEFINE b == Budget(queue)
           c == Budget(queue')
           n == Cardinality(Left(b))
           m == Cardinality(Left(c))
<1>4. IsFiniteSet(Left(b)) /\ Left(Budget(queue')) = Left(c)
  BY DEF BudgetInv, Left
<1> HIDE DEF b, c
<1>5. IsFiniteSet(Left(c)) /\ n \in Nat /\ m \in Nat /\ m = n - b[s] + c[s]
  BY <1>1, <1>2, <1>4, LeftChanges DEF b, c
<1>6. b[s] \in 0 .. NumRetries /\ c[s] \in 0 .. NumRetries
  BY <1>1 DEF b, c
<1>7. posts \in Nat /\ posts' \in Nat /\ returned \in Nat /\ SenderBudget \in Nat
  BY <1>1 DEF TypeOK, SenderBudget
<1>8. posts + SenderBudget + n <= (NumRetries + 1) * (returned + 1)
  BY DEF BudgetInv, b
<1>9. (NumRetries + 1) * ((returned + 1) + 1)
         = (NumRetries + 1) * (returned + 1) + (NumRetries + 1)
  BY <1>1, <1>7
<1> DEFINE total == (NumRetries + 1) * (returned + 1)
<1>10. total \in Nat
  BY <1>1, <1>7
<1> HIDE DEF n, m
<1>11. posts' + SenderBudget' + m <= (NumRetries + 1) * (returned' + 1)
  <2>1. CASE returned' = returned /\ c[s] + posts' <= b[s] + posts
    <3> HIDE DEF total
    <3>1. posts' + SenderBudget + m <= total
      BY <1>5, <1>6, <1>7, <1>8, <1>10, <2>1 DEF total
    <3> QED
      BY <1>3, <2>1, <3>1 DEF total
  <2>2. CASE returned' = returned + 1 /\ posts' = posts
    <3>1. (NumRetries + 1) * (returned' + 1) = total + (NumRetries + 1)
      BY <1>9, <2>2
    <3>2. posts + SenderBudget + n <= total
      BY <1>8
    <3> HIDE DEF total
    <3>3. posts + SenderBudget + m <= total + (NumRetries + 1)
      BY <1>1, <1>5, <1>6, <1>7, <1>10, <3>2
    <3> QED
      BY <1>3, <2>2, <3>1, <3>3
  <2> QED
    BY <2>1, <2>2 DEF b, c
<1> QED
  BY <1>4, <1>5, <1>11 DEF BudgetInv, m

\* A handler that sends the next message hands its attempts over.
LEMMA HandedOver ==
    ASSUME TypeOK, TypeOK', BudgetInv, NEW s \in Slot, NEW t \in Slot, s # t,
           \A u \in Slot \ {s, t} : queue'[u] = queue[u],
           Budget(queue)[t] = 0, Budget(queue')[s] = 0,
           Budget(queue')[t] <= Budget(queue)[s],
           UNCHANGED <<initial, posts, returned>>
    PROVE  BudgetInv'
<1> DEFINE b == Budget(queue)
           c == Budget(queue')
           mid == [b EXCEPT ![s] = 0]
<1>1. /\ b \in [Slot -> 0 .. NumRetries]
      /\ c \in [Slot -> 0 .. NumRetries]
      /\ NumRetries \in Nat
  BY BudgetType, RetryTimes DEF TypeOK
<1>2. \A u \in Slot \ {s, t} : c[u] = b[u]
  BY DEF Budget
<1>3. IsFiniteSet(Left(b))
  BY DEF BudgetInv
<1>4. b[t] = 0 /\ c[s] = 0 /\ c[t] <= b[s]
  OBVIOUS
<1>5. posts + SenderBudget + Cardinality(Left(b))
         <= (NumRetries + 1) * (returned + 1)
  BY DEF BudgetInv
<1>6. SenderBudget \in Nat /\ SenderBudget' = SenderBudget
  BY <1>1 DEF SenderBudget
<1> HIDE DEF b, c
<1>7. /\ mid \in [Slot -> 0 .. NumRetries]
      /\ mid[s] = 0 /\ mid[t] = 0
      /\ \A u \in Slot \ {s} : mid[u] = b[u]
      /\ \A u \in Slot \ {t} : c[u] = mid[u]
  BY <1>1, <1>2, <1>4
<1> HIDE DEF mid
<1>8. /\ IsFiniteSet(Left(mid))
      /\ Cardinality(Left(b)) \in Nat /\ Cardinality(Left(mid)) \in Nat
      /\ Cardinality(Left(mid)) = Cardinality(Left(b)) - b[s] + mid[s]
  BY <1>1, <1>3, <1>7, LeftChanges
<1>9. /\ IsFiniteSet(Left(c))
      /\ Cardinality(Left(c)) \in Nat
      /\ Cardinality(Left(c)) = Cardinality(Left(mid)) - mid[t] + c[t]
  BY <1>1, <1>7, <1>8, LeftChanges
<1> DEFINE n == Cardinality(Left(b))
           m == Cardinality(Left(c))
           total == (NumRetries + 1) * (returned + 1)
<1>10. b[s] \in Nat /\ c[t] \in Nat /\ n \in Nat /\ m \in Nat
       /\ posts \in Nat /\ total \in Nat
  BY <1>1, <1>8, <1>9 DEF TypeOK
<1>11. m <= n
  <2>1. m = n - b[s] + 0 - 0 + c[t]
    BY <1>7, <1>8, <1>9
  <2> HIDE DEF n, m
  <2> QED
    BY <1>4, <1>10, <2>1
<1>12. posts + SenderBudget + n <= total
  BY <1>5
<1> HIDE DEF n, total
<1>13. posts + SenderBudget + m <= total
  <2> HIDE DEF m
  <2> QED
    BY <1>6, <1>10, <1>11, <1>12
<1>14. posts' + SenderBudget' + m <= (NumRetries + 1) * (returned' + 1)
  BY <1>6, <1>13 DEF total
<1> QED
  BY <1>9, <1>14 DEF BudgetInv, m, c

\* Nothing is left at the end of a message's handler.
LEMMA NoBudget ==
    ASSUME NEW messages, NEW s \in Slot, messages[s].pc \in {"free", "delete"}
    PROVE  Budget(messages)[s] = 0
BY DEF Budget

\* The attempts of a message that is in its handler or in the queue.
LEMMA SomeBudget ==
    ASSUME NEW messages, NEW s \in Slot,
           messages[s].pc \notin {"free", "delete"}
    PROVE  Budget(messages)[s] = IF messages[s].pc = "push"
                                 THEN NumRetries - messages[s].previousAttempts
                                 ELSE NumRetries - messages[s].previousAttempts + 1
BY DEF Budget

\* Before its first step the webhook has all its attempts.
LEMMA InitBudget ==
    ASSUME Init
    PROVE  BudgetInv
<1>1. NumRetries \in Nat
  BY RetryTimes
<1>2. \A s \in Slot : Budget(queue)[s] = 0
  BY DEF Init, Budget, Free
<1>3. Left(Budget(queue)) = {}
  BY <1>1, <1>2 DEF Left
<1>4. SenderBudget = NumRetries + 1 /\ posts = 0 /\ returned = 0
  BY DEF Init, SenderBudget
<1>5. 0 + (NumRetries + 1) + 0 <= (NumRetries + 1) * (0 + 1)
  BY <1>1
<1> QED
  BY <1>3, <1>4, <1>5, FS_EmptySet DEF BudgetInv

\* The sender makes one attempt, and none after a step that fails.
LEMMA SenderKeepsBudget ==
    ASSUME Inv, BudgetInv,
           InitialPost \/ InitialNotPosted \/ InitialSave \/ InitialCrash
    PROVE  BudgetInv'
<1>1. NumRetries \in Nat /\ posts \in Nat /\ returned \in Nat
  BY RetryTimes DEF Inv, TypeOK
<1>2. queue' = queue /\ returned' = returned
  BY DEF InitialPost, InitialNotPosted, InitialSave, InitialCrash
<1> DEFINE before == posts + SenderBudget
           after == posts' + SenderBudget'
<1>3. before \in Nat /\ after \in Nat /\ after <= before
  <2>1. CASE InitialPost
    BY <1>1, <2>1 DEF InitialPost, SenderBudget
  <2>2. CASE InitialNotPosted \/ InitialSave \/ InitialCrash
    BY <1>1, <2>2 DEF InitialNotPosted, InitialSave, InitialCrash, SenderBudget,
                      Inv, TypeOK
  <2> QED
    BY <2>1, <2>2
<1> DEFINE n == Cardinality(Left(Budget(queue)))
           total == (NumRetries + 1) * (returned + 1)
<1>4. n \in Nat /\ total \in Nat /\ before + n <= total
  BY <1>1, FS_CardinalityType DEF BudgetInv
<1> HIDE DEF n, total, before, after
<1>5. after + n <= total
  BY <1>3, <1>4
<1> QED
  BY <1>2, <1>5 DEF BudgetInv, n, total, after

\* The first message takes over what the sender leaves.
LEMMA FirstKeepsBudget ==
    ASSUME Inv, Inv', BudgetInv, InitialPush
    PROVE  BudgetInv'
<1>1. /\ initial = "push" /\ initial' = "done"
      /\ posts' = posts /\ returned' = returned
  BY DEF InitialPush
<1>2. NumRetries \in Nat /\ posts \in Nat /\ returned \in Nat
  BY RetryTimes DEF Inv, TypeOK
<1>3. SenderBudget = NumRetries /\ SenderBudget' = 0
  BY <1>1 DEF SenderBudget
<1> DEFINE b == Budget(queue)
           c == Budget(queue')
           n == Cardinality(Left(b))
           m == Cardinality(Left(c))
           total == (NumRetries + 1) * (returned + 1)
<1>4. /\ b \in [Slot -> 0 .. NumRetries]
      /\ c \in [Slot -> 0 .. NumRetries]
  BY BudgetType DEF Inv, TypeOK
<1>5. /\ IsFiniteSet(Left(b)) /\ n \in Nat /\ total \in Nat
      /\ posts + NumRetries + n <= total
  BY <1>2, <1>3, FS_CardinalityType DEF BudgetInv
<1>6. IsFiniteSet(Left(c)) /\ m \in Nat /\ m <= n + NumRetries
  <2>1. CASE queue' = queue
    BY <1>2, <1>5, <2>1
  <2>2. ASSUME NEW next \in getNextAttempt(1), Enqueue(0, 1, next)
        PROVE  IsFiniteSet(Left(c)) /\ m \in Nat /\ m <= n + NumRetries
    <3>1. 1 \in 1 .. NumRetries /\ next \in 0 .. Horizon
      BY NextAttempt
    <3>2. 0 \in Slot \cup {0} /\ 0 \notin Slot
      BY RetryAssumption
    <3>3. PICK t \in Slot : \A u \in Slot \ {0, t} : queue'[u] = queue[u]
      BY <2>2, <3>1, <3>2, EnqueueEffect DEF Inv
    <3>4. \A u \in Slot \ {t} : c[u] = b[u]
      BY <3>2, <3>3 DEF Budget
    <3> HIDE DEF b, c
    <3>5. /\ IsFiniteSet(Left(c)) /\ m \in Nat
          /\ m = n - b[t] + c[t]
      BY <1>4, <1>5, <3>4, LeftChanges
    <3>6. b[t] \in 0 .. NumRetries /\ c[t] \in 0 .. NumRetries
      BY <1>4
    <3> HIDE DEF n, m
    <3> QED
      BY <1>2, <1>5, <3>5, <3>6
  <2> QED
    BY <2>1, <2>2 DEF InitialPush
<1> HIDE DEF b, n, m, total
<1>7. posts + 0 + m <= total
  BY <1>2, <1>5, <1>6
<1> QED
  BY <1>1, <1>3, <1>6, <1>7 DEF BudgetInv, m, total

\* A handler that only goes on uses one attempt up for each post it makes.
LEMMA HandlerKeepsBudget ==
    ASSUME Inv, Inv', BudgetInv, NEW s \in Slot,
           \/ Receive(s) \/ RetrieveInfo(s) \/ RetriesNotEnabled(s)
           \/ PostSucceeds(s) \/ PostFails(s) \/ NoMoreRetries(s) \/ Delete(s)
    PROVE  BudgetInv'
<1>1. TypeOK /\ TypeOK' /\ NumRetries \in Nat /\ posts \in Nat
  BY RetryTimes DEF Inv, TypeOK
<1>2. initial' = initial /\ returned' = returned /\ queue[s].pc # "free"
  BY DEF Receive, RetrieveInfo, RetriesNotEnabled, PostSucceeds, PostFails,
         NoMoreRetries, Delete, Unsent, At
<1>3. queue[s].previousAttempts \in 1 .. NumRetries
  BY <1>1, <1>2, SlotTypes DEF Message
<1> SUFFICES /\ \A u \in Slot \ {s} : queue'[u] = queue[u]
             /\ Budget(queue')[s] + posts' <= Budget(queue)[s] + posts
  BY <1>1, <1>2, SlotBudget
<1>4. CASE Delete(s)
  <2>1. /\ queue[s].pc = "delete" /\ queue'[s] = Free
        /\ \A u \in Slot \ {s} : queue'[u] = queue[u]
        /\ posts' = posts
    BY <1>1, <1>4 DEF Delete, At, Unsent, TypeOK
  <2>2. Budget(queue)[s] = 0 /\ Budget(queue')[s] = 0
    BY <2>1, NoBudget DEF Free
  <2> QED
    BY <1>1, <2>1, <2>2
<1>5. ASSUME NEW step \in HandlerStep, GoTo(s, step),
             \/ posts' = posts /\ queue[s].pc \in {"queued", "retrieve", "push"}
             \/ /\ posts' = posts + 1 /\ queue[s].pc = "post"
                /\ step \in {"push", "delete"},
             queue[s].pc = "push" => step = "delete"
      PROVE  /\ \A u \in Slot \ {s} : queue'[u] = queue[u]
             /\ Budget(queue')[s] + posts' <= Budget(queue)[s] + posts
  <2>1. /\ queue'[s].pc = step
        /\ queue'[s].previousAttempts = queue[s].previousAttempts
        /\ \A u \in Slot \ {s} : queue'[u] = queue[u]
    BY <1>1, <1>2, <1>5, GoToEffect
  <2> DEFINE left == NumRetries - queue[s].previousAttempts
  <2>2. left \in Nat
    BY <1>1, <1>3
  <2>3. Budget(queue)[s] = IF queue[s].pc = "push" THEN left ELSE left + 1
    BY <1>5, SomeBudget
  <2>4. Budget(queue')[s] = IF step \in {"free", "delete"} THEN 0
                            ELSE IF step = "push" THEN left ELSE left + 1
    BY <2>1, SomeBudget, NoBudget
  <2> HIDE DEF left
  <2> QED
    BY <1>1, <1>5, <2>1, <2>2, <2>3, <2>4
<1>6. CASE Receive(s)
  <2> DEFINE step == IF isDue(queue[s]) THEN "retrieve" ELSE "requeue"
  <2>1. step \in HandlerStep
    BY DEF HandlerStep
  <2>2. GoTo(s, step) /\ queue[s].pc = "queued" /\ posts' = posts
    BY <1>6 DEF Receive, At, Unsent
  <2> HIDE DEF step
  <2> QED
    BY <1>5, <2>1, <2>2
<1>7. CASE RetrieveInfo(s)
  BY <1>5, <1>7 DEF RetrieveInfo, At, Unsent, HandlerStep
<1>8. CASE RetriesNotEnabled(s) \/ NoMoreRetries(s)
  BY <1>5, <1>8 DEF RetriesNotEnabled, NoMoreRetries, At, Unsent, HandlerStep
<1>9. CASE PostSucceeds(s)
  BY <1>5, <1>9 DEF PostSucceeds, At, HandlerStep
<1>10. CASE PostFails(s)
  BY <1>5, <1>10 DEF PostFails, At, HandlerStep
<1> QED
  BY <1>4, <1>6, <1>7, <1>8, <1>9, <1>10

\* A message that is sent again, or for the next attempt.
LEMMA EnqueueKeepsBudget ==
    ASSUME Inv, Inv', BudgetInv, NEW s \in Slot, Requeue(s) \/ PushNext(s)
    PROVE  BudgetInv'
<1>1. TypeOK /\ TypeOK' /\ NumRetries \in Nat
  BY RetryTimes DEF Inv
<1>2. /\ queue[s].pc \in {"requeue", "push"}
      /\ UNCHANGED <<initial, posts, returned>>
  BY DEF Requeue, PushNext, At, Unsent
<1>3. queue[s] \in Message /\ queue[s].previousAttempts \in 1 .. NumRetries
  BY <1>1, <1>2, SlotTypes DEF Message
<1>4. PICK attempts \in 1 .. NumRetries, next \in 0 .. Horizon :
         /\ Enqueue(s, attempts, next)
         /\ attempts = IF queue[s].pc = "push"
                       THEN queue[s].previousAttempts + 1
                       ELSE queue[s].previousAttempts
  <2>1. CASE Requeue(s)
    BY <1>3, <2>1 DEF Requeue, At, Message
  <2>2. CASE PushNext(s)
    <3>1. PICK next \in getNextAttempt(queue[s].previousAttempts + 1) :
             Enqueue(s, queue[s].previousAttempts + 1, next)
      BY <2>2 DEF PushNext
    <3>2. queue[s].previousAttempts + 1 \in Nat \ {0}
      BY <1>3
    <3>3. /\ queue[s].previousAttempts + 1 \in 1 .. NumRetries
          /\ next \in 0 .. Horizon
      BY <3>2, NextAttempt
    <3> QED
      BY <2>2, <3>1, <3>3 DEF PushNext, At
  <2> QED
    BY <2>1, <2>2
<1>5. PICK t \in Slot :
         /\ queue[t] = Free /\ t # s
         /\ queue'[t].pc = "queued"
         /\ queue'[t].previousAttempts = attempts
         /\ \A u \in Slot \ {s, t} : queue'[u] = queue[u]
  BY <1>1, <1>2, <1>4, EnqueueEffect
<1>6. queue'[s].pc = "delete"
  BY <1>1, <1>2, <1>4, EnqueueEffect
<1>7. Budget(queue)[t] = 0 /\ Budget(queue')[s] = 0
  BY <1>5, <1>6, NoBudget DEF Free
<1>8. Budget(queue')[t] = NumRetries - attempts + 1
  BY <1>5, SomeBudget
<1>9. Budget(queue)[s] = IF queue[s].pc = "push"
                         THEN NumRetries - queue[s].previousAttempts
                         ELSE NumRetries - queue[s].previousAttempts + 1
  BY <1>2, SomeBudget
<1>10. Budget(queue')[t] <= Budget(queue)[s]
  BY <1>1, <1>3, <1>4, <1>8, <1>9
<1> QED
  BY <1>1, <1>2, <1>5, <1>7, <1>10, HandedOver

\* A message that comes back may start its attempts over.
LEMMA ReturnKeepsBudget ==
    ASSUME Inv, Inv', BudgetInv, NEW s \in Slot,
           Reject(s) \/ Crash(s) \/ VisibilityTimeout(s)
    PROVE  BudgetInv'
<1>1. TypeOK /\ TypeOK' /\ NumRetries \in Nat /\ posts \in Nat
  BY RetryTimes DEF Inv, TypeOK
<1>2. initial' = initial /\ posts' = posts
  BY DEF Reject, Crash, VisibilityTimeout, Unsent
<1>3. CASE VisibilityTimeout(s)
  <2>1. PICK t \in Slot : \A u \in Slot \ {t} : queue'[u] = queue[u]
    BY <1>1, <1>3 DEF VisibilityTimeout, Unused, TypeOK
  <2> QED
    BY <1>1, <1>2, <1>3, <2>1, SlotBudget DEF VisibilityTimeout
<1>4. CASE Reject(s) \/ Crash(s)
  <2>1. Return(s) /\ queue[s].pc # "free"
    BY <1>4 DEF Reject, Crash, At
  <2>2. /\ \A u \in Slot \ {s} : queue'[u] = queue[u]
        /\ \/ returned' = returned + 1
           \/ returned' = returned /\ queue'[s] = Free
    BY <1>1, <2>1, ReturnEffect
  <2>3. CASE returned' = returned + 1
    BY <1>1, <1>2, <2>2, <2>3, SlotBudget
  <2>4. CASE returned' = returned /\ queue'[s] = Free
    <3>1. Budget(queue')[s] = 0
      BY <2>4, NoBudget DEF Free
    <3>2. Budget(queue)[s] \in 0 .. NumRetries
      BY <1>1, BudgetType DEF TypeOK
    <3>3. Budget(queue')[s] + posts' <= Budget(queue)[s] + posts
      BY <1>1, <1>2, <3>1, <3>2
    <3> QED
      BY <1>1, <1>2, <2>2, <2>4, <3>3, SlotBudget
  <2> QED
    BY <2>2, <2>3, <2>4
<1> QED
  BY <1>3, <1>4

\* Every step keeps the budget.
LEMMA NextBudget ==
    ASSUME Inv, Inv', BudgetInv, [Next]_vars
    PROVE  BudgetInv'
<1>1. CASE Sender \/ InitialNotPosted \/ InitialCrash
  BY <1>1, SenderKeepsBudget, FirstKeepsBudget DEF Sender
<1>2. ASSUME NEW s \in Slot, Handler(s) PROVE BudgetInv'
  BY <1>2, HandlerKeepsBudget, EnqueueKeepsBudget DEF Handler
<1>3. ASSUME NEW s \in Slot, Reject(s) \/ Crash(s) \/ VisibilityTimeout(s)
      PROVE  BudgetInv'
  BY <1>3, ReturnKeepsBudget
<1>4. CASE Tick \/ ToggleRetries \/ UNCHANGED vars
  <2>1. UNCHANGED <<initial, queue, posts, returned>>
    BY <1>4 DEF Tick, ToggleRetries, vars
  <2> QED
    BY <2>1 DEF BudgetInv, SenderBudget
<1> QED
  BY <1>1, <1>2, <1>3, <1>4 DEF Next

\* There are no more attempts than the retries and the first one, and as many
\* again for every message that has come back.
THEOREM AttemptsAlwaysBounded == Spec => []AttemptsBounded
<1>1. Init => BudgetInv
  BY InitBudget
<1>2. Inv /\ Inv' /\ BudgetInv /\ [Next]_vars => BudgetInv'
  BY NextBudget
<1>3. Inv /\ BudgetInv => AttemptsBounded
  <2> SUFFICES ASSUME Inv, BudgetInv PROVE AttemptsBounded
    OBVIOUS
  <2> DEFINE n == Cardinality(Left(Budget(queue)))
             total == (NumRetries + 1) * (returned + 1)
  <2>1. posts \in Nat /\ SenderBudget \in Nat /\ total \in Nat
    BY RetryTimes DEF Inv, TypeOK, SenderBudget
  <2>2. n \in Nat /\ posts + SenderBudget + n <= total
    BY FS_CardinalityType DEF BudgetInv
  <2>3. AttemptsBounded <=> posts <= total
    BY DEF AttemptsBounded
  <2> HIDE DEF n, total
  <2> QED
    BY <2>1, <2>2, <2>3
<1> QED
  BY <1>1, <1>2, <1>3, RetriesCorrect, PTL DEF Spec

=============================================================================
