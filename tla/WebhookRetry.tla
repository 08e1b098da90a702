---------------------------- MODULE WebhookRetry ----------------------------
(***************************************************************************)
(* The webhook of one submission: the first attempt, the queue of retries  *)
(* and the consumer that takes messages from it.                           *)
(*                                                                         *)
(* Source: src/src/app/modules/webhook, webhook.service.ts (the first      *)
(* attempt), webhook.consumer.ts (the handler of a message),               *)
(* webhook.message.ts and webhook.utils.ts (the message and its times).    *)
(*                                                                         *)
(* The queue (SQS) is external. It delivers a message at least once: the   *)
(* message comes back when its handler rejects it, stops, or takes longer  *)
(* than the visibility timeout, and goes to the dead-letter queue when it  *)
(* has come back too often. Time is counted from the first attempt and     *)
(* stops at Horizon, when every retry is due.                              *)
(***************************************************************************)
EXTENDS Integers, Sequences, FiniteSets

CONSTANTS RetryIntervals,   \* RETRY_INTERVALS: a sequence of [base, jitter]
          MaxDelay,         \* MAX_DELAY_SECONDS
          Tolerance,        \* DUE_TIME_TOLERANCE_SECONDS
          Slot,             \* bound: messages in the queue at a time (0 is none)
          Failures,         \* the kinds of failures that may happen
          MaxFaults         \* bound: failures that happen

NumRetries == Len(RetryIntervals)

Earliest(n) == RetryIntervals[n].base - RetryIntervals[n].jitter

Latest(n) == RetryIntervals[n].base + RetryIntervals[n].jitter

Horizon == Latest(NumRetries)

ASSUME RetryAssumption ==
    /\ NumRetries \in Nat \ {0}
    /\ \A n \in 1 .. NumRetries :
          /\ RetryIntervals[n].base \in Nat /\ RetryIntervals[n].jitter \in Nat
          /\ Earliest(n) > 0
    /\ \A m, n \in 1 .. NumRetries : m < n => Latest(m) < Earliest(n)
    /\ MaxDelay \in Nat \ {0} /\ Tolerance \in Nat
    /\ MaxFaults \in Nat
    /\ 0 \notin Slot
    /\ Failures \subseteq {"save", "push", "retrieve", "validate", "crash",
                           "timeout"}

VARIABLES
    age,         \* time since the first attempt
    enabled,     \* the form has a webhook URL and retries
    initial,     \* the step the initial sender is at
    queue,       \* per slot the message and the step of its handler
    posts,       \* history: attempts made
    delivered,   \* history: the receiver has answered 2xx
    accepted,    \* history: the first message has been enqueued
    ended,       \* history: why messages have left the queue undelivered
    faults,      \* history: failures so far
    returned     \* history: messages that came back to the queue

vars == <<age, enabled, initial, queue, posts, delivered, accepted, ended,
          faults, returned>>

Free == [pc |-> "free"]

HandlerStep == {"queued", "requeue", "retrieve", "post", "push", "delete"}

Message == [pc : HandlerStep, previousAttempts : 1 .. NumRetries,
            nextAttempt : 0 .. Horizon, visible : 0 .. Horizon]

Init ==
    /\ age = 0
    /\ enabled = TRUE
    /\ initial = "post"
    /\ queue = [s \in Slot |-> Free]
    /\ posts = 0
    /\ delivered = FALSE
    /\ accepted = FALSE
    /\ ended = {}
    /\ faults = 0
    /\ returned = 0

Fault(kind) ==
    /\ kind \in Failures
    /\ faults < MaxFaults
    /\ faults' = faults + 1

At(s, step) == queue[s].pc = step

GoTo(s, step) == queue' = [queue EXCEPT ![s].pc = step]

Unused == {s \in Slot : At(s, "free")}

-----------------------------------------------------------------------------
(* The message.                                                             *)

Least(a, b) == IF a <= b THEN a ELSE b

\* SQS keeps the message invisible for the delay of calculateDelaySeconds.
VisibleAfterDelay(next) ==
    LET wait == IF next > age THEN next - age ELSE 0
    IN  Least(age + Least(wait, MaxDelay), Horizon)

\* Mutant of getNextAttempt: the last interval is repeated.
RetryForever(attempts) ==
    LET n == Least(attempts, NumRetries) IN Earliest(n) .. Latest(n)

\* The times getNextAttempt may draw, counted from the first attempt; none
\* when no retry is left.
getNextAttempt(attempts) ==
    IF attempts >= NumRetries + 1 THEN {}
    ELSE Earliest(attempts) .. Latest(attempts)

\* Mutant of isDue: the arguments of differenceInSeconds are swapped.
IsDueSwapped(m) == age - m.nextAttempt <= Tolerance

isDue(m) == m.nextAttempt - age <= Tolerance

\* The queue with a message more, and the handler of slot s at the next step.
Enqueue(s, attempts, next) ==
    /\ Unused # {}
    /\ LET t   == CHOOSE u \in Unused : TRUE
           new == [pc |-> "queued", previousAttempts |-> attempts,
                   nextAttempt |-> next, visible |-> VisibleAfterDelay(next)]
       IN  queue' = [u \in Slot |-> CASE u = t -> new
                                      [] u = s -> [queue[s] EXCEPT !.pc = "delete"]
                                      [] OTHER -> queue[u]]

-----------------------------------------------------------------------------
(* The first attempt, by createInitialWebhookSender.                        *)

InitialPost ==
    /\ initial = "post"
    /\ posts' = posts + 1
    /\ \E ok \in BOOLEAN :
          /\ delivered' = ok
          /\ initial' = IF ok THEN "done" ELSE "save"
    /\ UNCHANGED <<age, enabled, queue, accepted, ended, faults, returned>>

\* The URL is refused or an attachment has no signed URL: nothing is sent.
InitialNotPosted ==
    /\ initial = "post"
    /\ Fault("validate")
    /\ initial' = "done"
    /\ UNCHANGED <<age, enabled, queue, posts, delivered, accepted, ended,
                   returned>>

\* The record of the failed attempt is saved.
InitialSave ==
    /\ initial = "save"
    /\ \/ initial' = "push" /\ UNCHANGED faults
       \/ Fault("save") /\ initial' = "done"
    /\ UNCHANGED <<age, enabled, queue, posts, delivered, accepted, ended,
                   returned>>

InitialPush ==
    /\ initial = "push"
    /\ initial' = "done"
    /\ \/ /\ \E next \in getNextAttempt(1) : Enqueue(0, 1, next)
          /\ accepted' = TRUE
          /\ UNCHANGED faults
       \/ Fault("push") /\ UNCHANGED <<queue, accepted>>
    /\ UNCHANGED <<age, enabled, posts, delivered, ended, returned>>

InitialCrash ==
    /\ initial \notin {"post", "done"}
    /\ Fault("crash")
    /\ initial' = "done"
    /\ UNCHANGED <<age, enabled, queue, posts, delivered, accepted, ended,
                   returned>>

-----------------------------------------------------------------------------
(* The consumer: the steps of the handler of the message in slot s.         *)

Unsent == <<age, enabled, initial, posts, delivered, accepted>>

Receive(s) ==
    /\ At(s, "queued")
    /\ queue[s].visible <= age
    /\ GoTo(s, IF isDue(queue[s]) THEN "retrieve" ELSE "requeue")
    /\ UNCHANGED <<Unsent, ended, faults, returned>>

\* Not due yet: the same message is sent again, then this one is deleted.
Requeue(s) ==
    /\ At(s, "requeue")
    /\ Enqueue(s, queue[s].previousAttempts, queue[s].nextAttempt)
    /\ UNCHANGED <<Unsent, ended, faults, returned>>

RetrieveInfo(s) ==
    /\ At(s, "retrieve")
    /\ enabled
    /\ GoTo(s, "post")
    /\ UNCHANGED <<Unsent, ended, faults, returned>>

RetriesNotEnabled(s) ==
    /\ At(s, "retrieve")
    /\ ~enabled
    /\ GoTo(s, "delete")
    /\ ended' = ended \cup {"disabled"}
    /\ UNCHANGED <<Unsent, faults, returned>>

\* Mutant of PostSucceeds: success does not end the retries.
PostSucceedsPush(s) ==
    /\ At(s, "post")
    /\ posts' = posts + 1
    /\ delivered' = TRUE
    /\ GoTo(s, "push")
    /\ UNCHANGED <<age, enabled, initial, accepted, ended, faults, returned>>

PostSucceeds(s) ==
    /\ At(s, "post")
    /\ posts' = posts + 1
    /\ delivered' = TRUE
    /\ GoTo(s, "delete")
    /\ UNCHANGED <<age, enabled, initial, accepted, ended, faults, returned>>

\* The saving of the record is not awaited, and its failure is ignored.
PostFails(s) ==
    /\ At(s, "post")
    /\ posts' = posts + 1
    /\ GoTo(s, "push")
    /\ UNCHANGED <<age, enabled, initial, delivered, accepted, ended, faults,
                   returned>>

\* Mutant of PushNext: the message is deleted before the next one is sent.
DeleteThenPush(s) ==
    /\ At(s, "push")
    /\ \E next \in getNextAttempt(queue[s].previousAttempts + 1) :
          \/ /\ queue' = [queue EXCEPT ![s] =
                            [pc |-> "queued", nextAttempt |-> next,
                             previousAttempts |-> queue[s].previousAttempts + 1,
                             visible |-> VisibleAfterDelay(next)]]
             /\ UNCHANGED faults
          \/ Fault("push") /\ queue' = [queue EXCEPT ![s] = Free]
    /\ UNCHANGED <<Unsent, ended, returned>>

PushNext(s) ==
    /\ At(s, "push")
    /\ LET attempts == queue[s].previousAttempts + 1
       IN  \E next \in getNextAttempt(attempts) : Enqueue(s, attempts, next)
    /\ UNCHANGED <<Unsent, ended, faults, returned>>

NoMoreRetries(s) ==
    /\ At(s, "push")
    /\ getNextAttempt(queue[s].previousAttempts + 1) = {}
    /\ GoTo(s, "delete")
    /\ ended' = ended \cup {"exhausted"}
    /\ UNCHANGED <<Unsent, faults, returned>>

Delete(s) ==
    /\ At(s, "delete")
    /\ queue' = [queue EXCEPT ![s] = Free]
    /\ UNCHANGED <<Unsent, ended, faults, returned>>

\* The message comes back or, by the redrive policy, has come back too often.
Return(s) ==
    \/ /\ queue' = [queue EXCEPT ![s].pc = "queued", ![s].visible = age]
       /\ returned' = returned + 1
       /\ UNCHANGED ended
    \/ /\ queue' = [queue EXCEPT ![s] = Free]
       /\ ended' = ended \cup {"dead-letter"}
       /\ UNCHANGED returned

\* The handler rejects, at a call that has failed.
Reject(s) ==
    /\ \/ At(s, "retrieve") /\ Fault("retrieve")
       \/ At(s, "post") /\ Fault("validate")
       \/ queue[s].pc \in {"requeue", "push"} /\ Fault("push")
    /\ Return(s)
    /\ UNCHANGED Unsent

Crash(s) ==
    /\ queue[s].pc \notin {"free", "queued"}
    /\ Fault("crash")
    /\ Return(s)
    /\ UNCHANGED Unsent

\* The handler is slower than the visibility timeout: the message is
\* delivered once more while the handler goes on.
VisibilityTimeout(s) ==
    /\ queue[s].pc \notin {"free", "queued"}
    /\ Fault("timeout")
    /\ \E t \in Unused :
          queue' = [queue EXCEPT ![t] = [queue[s] EXCEPT !.pc = "queued",
                                                         !.visible = age]]
    /\ returned' = returned + 1
    /\ UNCHANGED <<Unsent, ended>>

-----------------------------------------------------------------------------
Tick ==
    /\ age < Horizon
    /\ accepted
    /\ age' = age + 1
    /\ UNCHANGED <<enabled, initial, queue, posts, delivered, accepted, ended,
                   faults, returned>>

\* The admin disables the retries, or enables them again.
ToggleRetries ==
    /\ enabled' = ~enabled
    /\ UNCHANGED <<age, initial, queue, posts, delivered, accepted, ended,
                   faults, returned>>

Sender == InitialPost \/ InitialSave \/ InitialPush

Handler(s) ==
    \/ Receive(s) \/ Requeue(s) \/ RetrieveInfo(s) \/ RetriesNotEnabled(s)
    \/ PostSucceeds(s) \/ PostFails(s) \/ PushNext(s) \/ NoMoreRetries(s)
    \/ Delete(s)

Next ==
    \/ Sender \/ InitialNotPosted \/ InitialCrash
    \/ \E s \in Slot :
          Handler(s) \/ Reject(s) \/ Crash(s) \/ VisibilityTimeout(s)
    \/ Tick \/ ToggleRetries

Spec == Init /\ [][Next]_vars

\* Time passes, the sender ends and the consumer polls every message.
FairSpec ==
    /\ Spec
    /\ WF_vars(Sender) /\ WF_vars(Tick)
    /\ \A s \in Slot : WF_vars(Handler(s))

-----------------------------------------------------------------------------
(* Properties.                                                              *)

\* Every variable has its type.
TypeOK ==
    /\ age \in 0 .. Horizon
    /\ enabled \in BOOLEAN
    /\ initial \in {"post", "save", "push", "done"}
    /\ queue \in [Slot -> Message \cup {Free}]
    /\ posts \in Nat
    /\ delivered \in BOOLEAN
    /\ accepted \in BOOLEAN
    /\ ended \subseteq {"disabled", "exhausted", "dead-letter"}
    /\ faults \in 0 .. MaxFaults
    /\ returned \in 0 .. MaxFaults

\* Once the first message is in the queue, the webhook is not forgotten: it
\* has been delivered, a message is left, or it was given up for a reason the
\* code names. Holds whatever step the handler stops or fails at.
NotForgotten ==
    accepted => \/ delivered
                \/ ended # {}
                \/ \E s \in Slot : ~At(s, "free") /\ ~At(s, "delete")

\* "the first retry is attempted between 10 - 5 = 5 seconds and 10 + 5 = 15
\* seconds after the submission": a message that has been tried n times is
\* not posted before the time of retry n, less the tolerance, however often
\* it has been requeued or come back.
NeverEarly ==
    [][\A s \in Slot :
          PostFails(s) \/ PostSucceeds(s) =>
             age >= Earliest(queue[s].previousAttempts) - Tolerance]_vars

\* "Total allowed number of attempts is RETRY_INTERVALS + 1", and every
\* message that comes back can start them over once.
AttemptsBounded == posts <= (NumRetries + 1) * (returned + 1)

\* "Webhook was successful, no further action required": while no message
\* has come back, a delivered webhook is not posted again.
StopsAfterSuccess ==
    [][delivered /\ returned = 0 => posts' = posts]_vars

\* A webhook that is to be retried is delivered or given up: messages that
\* are not due are requeued until they are, and no message is kept for ever.
EventuallySettled == accepted ~> (delivered \/ ended # {})

\* "If the initial webhook fails and retries are enabled, the webhook is
\* queued for retries."
FailedIsQueued ==
    initial = "done" /\ posts > 0 /\ ~delivered => accepted

=============================================================================
