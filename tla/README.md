# A TLA+ verification of FormSG

FormSG (the repository `src/`, a TypeScript server on Node.js and MongoDB, a
React frontend and a few AWS lambdas) lets public officers build forms, collect
encrypted or emailed responses, take payments through Stripe, verify phone
numbers and addresses by one-time passwords, and push submissions to webhooks.
Most of it is one read or one write per request. This project is about the
parts that are not: where several requests, Stripe, the queue, the database and
its replicas, an administrator and a respondent act on the same data in an
order nobody chose.

| part | modules | proofs | code |
|---|---|---|---|
| state of a payment | `PaymentState`, `PaymentEvents` | `PaymentStateProofs` | `stripe.utils.ts`, `stripe.service.ts` |
| Stripe event handler | `PaymentLedger` (abstract), `StripeEvents`, `MCStripeEvents` | `StripeEventsProofs` | `stripe.events.controller.ts`, `stripe.service.ts`, `payments.service.ts`, `submission.service.ts` |
| payment reconciliation | `Reconciliation` | `ReconciliationProofs` | `stripe.controller.ts`, `stripe.service.ts`, `functions/form-payment-reconciliation` |
| webhooks and their retries | `WebhookRetry`, `MCWebhookRetry` | `WebhookRetryProofs` | `modules/webhook` |
| form logic in browser and server | `FormLogic`, `MCFormLogic` | `FormLogicProofs` | `shared/util/logic.ts`, `frontend/src/features/logic`, `ParsedResponsesObject.class.ts` |
| verification of a field by OTP | `FieldVerification`, `MCOtp` | `OtpProofs` | `modules/verification` |
| OTPs of administrators | `OtpToken`, `MCOtp` | `OtpProofs` | `modules/auth`, `modules/user`, the two token models |
| concurrent edits of a form | `FormEditing`, `MCForms` | `FormsProofs` | `form.server.model.ts`, `admin-form.service.ts` |
| submissions, their limit, their files | `Submissions`, `MCForms` | `FormsProofs` | `modules/submission`, `form.service.ts`, `serverless/virus-scanner` |
| bounces of mails | `Bounces`, `MCForms` | `FormsProofs` | `modules/bounce` |
| workspaces | `Workspaces`, `MCForms` | `WorkspacesProofs` | `modules/workspace`, `admin-form.service.ts`, their models |

`PROJECT.json` maps every definition to the lines it models, and lists the runs,
the hazards with the properties that cover them, the findings and the theorems.
To repeat a run: `tlc -config StripeEvents_refund.cfg MCStripeEvents`; to repeat
the proofs: `tlapm StripeEventsProofs.tla`. A module of proofs may extend another
(`StripeEventsProofs` and `ReconciliationProofs` extend `PaymentStateProofs`,
`FormsProofs` extends `WorkspacesProofs`).

## 1. Inventory

For each component: its state, its operations, who it interacts with, what is
hard about it, and what makes it correct.

**Payment state** (`modules/payments/stripe.utils.ts`, part of
`stripe.service.ts`). State: the `webhookLog` of a payment document, sorted by
the second in which Stripe created each event, and the `status`, `chargeIdLatest`,
`completedPayment`, `payout` derived from it. Operations: `processStripeEvent`
inserts an event and recomputes everything by folding the log. Hard: events in
any order, missing events (the fallback), equal seconds. Correct: the state is
a function of the set of events, not of their arrival.

**Stripe event handler** (`stripe.events.controller.ts`). State: the payments and
submissions collections, and what each running request holds. Operations: the
webhook endpoint, look-up of the payments of an event (metadata, dispute, payout),
the transaction with the copy of the pending submission, the actions after the
payment (webhook, confirmation emails, deletion of the kept responses, receipt).
Interacts with Stripe (calls, redelivery), MongoDB (snapshot transactions on the
primary, reads from a secondary), webhooks, email. Hard: two requests for one
payment, a write conflict and the retry of the callback, a response lost after
the commit, a crash before the actions, a secondary that lags. Correct: an event
is recorded once, a payment has its submission iff it is complete, nothing is
acknowledged that is not recorded, responses are kept until they have been mailed.

**Payment reconciliation** (`stripe.controller.ts`, `form-payment-reconciliation`).
State: none of its own; it reads incomplete payments, undelivered events of the
last 24 hours and payment intents. Operations: list, replay, compare, cancel,
report. Interacts with Stripe and with the handler above, which it calls for each
event. Hard: events lost, reordered or expired; deliveries, the payer and the job
at once. Correct: FormSG never says more than Stripe, and the job alone
brings a payment up to date; a report of a match is a match.

**Webhooks** (`modules/webhook`). State: messages in SQS with
`previousAttempts`, `nextAttempt`; the responses recorded in the submission.
Operations: first attempt, save of its record, queueing; the consumer's handler
(requeue if early, retrieve, post, record, queue the next one, delete).
Hard: at-least-once delivery, visibility time-outs, crashes between two calls,
retries switched off meanwhile. Correct: not forgotten, not early, not sent
again after a success without cause, settled in the end.

**Form logic** (`logic.ts`, `isConditionFulfilled.ts`, `ParsedResponsesObject`).
State: the form, a page rendered from some version of it, what was typed.
Operations: `getVisibleFieldIds`, `getLogicUnitPreventingSubmit`, the response
filter, the server's checks. Hard: two implementations of one rule, chains and
circles of conditions, hidden fields that keep values, pages of an older form.
Correct: both compute the least set of visible fields; the server refuses a
response of the page only when it has another form than the page.

**Field verification by OTP** (`modules/verification`). State: a transaction
with, per verifiable field, hash, time, number of requests and of retries, signed
data; it expires after 4 hours. Operations: create; `sendNewOtp` (reads, checks
the waiting time of 30 − 2 s and the 10 requests, sends, then one atomic update
of the hash); `verifyOtp` (reads, checks expiry and the 4 retries, atomic
increment, compares the hash *read before*, returns the signed data read); reset;
the count of SMSes that switches verification off for a form. Interacts with mail,
SMS, and the form. Hard: all of these interleave between read and update.
Correct: a signature vouches for the recipient that was sent the OTP; the limits
are exceeded by requests that overlap, and by no more.

**Login by OTP** (`modules/auth`) and **contact verification** (`modules/user`).
State: a token per address or user, without a unique index. Operations: `upsertOtp`
(finds or inserts; resets attempts), verification (an increment that returns the
document, the check against 10, the comparison, the removal by address), the
session or the update of the contact. Hard: two documents for one
address, a removal that hits a newer token. Correct: no OTP is tried more
often than allowed; whoever is accepted was sent the OTP.

**Form administration, status and limit** (`form.server.model.ts`,
`admin-form.service.ts`, `form.service.ts`). State: the form document with the
version Mongoose keeps of it. Operations: insert, update, duplicate, reorder,
delete a field; create, update, delete a logic; publish, close, archive;
`deactivateById` by the server. Some read, change and `save()`, some are a single
`findByIdAndUpdate`. Hard: which of these notice each other, and that a form is
read from the nearest node, which may lag behind. Correct: an edit
changes its target only; a field is lost only by a deletion. That an archived form
stays archived is not promised: a change of the status compares no version, and
whoever has read the form before, or from a node that lags, writes over it.

**Submission pipelines** (`email-submission`, `encrypt-submission`) and **virus
scanner** (`serverless/virus-scanner`). State: the submissions, the status, the
versions of a key in a quarantine and a clean bucket. Operations: presigned upload,
scan of the latest version, deletion or move, retrieval of the form, the count
against the limit (on a secondary, before the insertion), save, mail. Hard: a
file replaced during its scan, an answer that is lost after a move, concurrent
submissions at the limit. Correct: only files found clean are kept with a submission;
the excess over the limit is bounded by what overlapped.

**Email bounces** (`modules/bounce`). State: a document per form, versioned, not
unique. Operations: a notification is applied to the document found or a new one,
the administrators are told unless they were, the form is closed if all
addresses bounced for good, the document is saved; a version conflict is answered
200. Hard: notifications concurrent, repeated and out of order. Correct: a form
is closed only if the last report of each recipient is a permanent bounce.

**Workspaces** (`modules/workspace`). State: the workspaces with their form ids,
the forms with their owner. Operations: create, title, move, remove, delete with or
without the forms; creation, hand-over and archiving of forms, which change them
too. Several are MongoDB transactions. Hard: two transactions that each remove
a form where it was and add it elsewhere; an owner read outside of the
transaction, from a node that may lag behind. Correct: a form is in one workspace
of a user, and does not fall out of it; a deletion takes no form along that its
user never owned or that is handed over meanwhile.

**Not modelled.** *Creation of a payment with a submission*: at this
commit nothing under `src/` creates a payment or a pending submission (the storage
mode controller saves every submission at once, and `pending-submission.service.ts`
only reads); `StripeEvents` starts with both documents saved.
*Payment proofs*: one upload and one save that writes the completed
payment back as it was read; by `NoLostUpdate` a completed payment never changes,
so that the stale write writes what is there. *Stripe Connect pages, public
reads, feedback and issues*: single reads and inserts. *Singpass, Corppass, SGID
and MyInfo*: external protocols. *Captcha, mail, SMS*: external calls; their
failures are failures in the models of their callers. *Feature flags, billing,
analytics, intranet, route maps, core, start-up*: no behaviour over time. *The
frontend* beyond the form logic: user interface. These, with the constants,
templates, React components and type definitions, are the larger part of the
lines of the repository; they keep no state that two actors share, so that a
state machine of them would have nothing to say.

## 2. The modules

**Nodes that lag.** The schema of the forms has `read: 'nearest'`
(`form.server.model.ts:136`), so that every read of a form without another preference
may come from a node that lags behind; the counts of submissions and SMSes and the
payments after their transaction are read from secondaries as well. What each module does about it:

| module | what may be old | how |
|---|---|---|
| `StripeEvents`, `Reconciliation` | payments | a replica that catches up in a step of its own |
| `FieldVerification` | the form with the field, the count of SMSes | a fault, which the bound of `QuotaHolds` pays for |
| `FormLogic` | the form the server checks against | the one of the page, or the one that is stored |
| `FormEditing` | the form every request works on | any earlier document (`copies`) |
| `Workspaces` | the owner and status of a form outside of a transaction | any earlier document (`replicas`) |
| `Submissions` | the count; the form | a fault; a form that was retrieved before (a request may wait between its steps), and either status when the server reads it once more to close it |
| `Bounces` | the form to close | the closing itself is `deactivateForm` of `FormEditing` |

### Payments

`PaymentState` is pure: `computePaymentState` and `computePayoutDetails` as
left folds over a log, with the fallback taken when a refund or a dispute has
no charge before it, and the stable insertion by second. `OfType`, the filter of
a log by types, is a recursive function over positions, so that it can be reasoned
about. `PaymentEvents`
adds events with their targets (a payment, or `Foreign`: a charge of another
environment or without FormSG's metadata) and the checks an event must pass.

`PaymentLedger` is what the handlers promise: `Record` an event atomically
together with the submission, `DeleteResponses` only of a completed payment,
`Acknowledge` only what all targets have.

`StripeEvents` is the code: each `Handler` is one HTTP request, whose `pc`
says between which two awaits it is (`lookup`, `next` target, `confirm` the
submission, `save`, `commit`, then `post`, `webhook`, `confirmations`, `delete`,
`receipt`, and `respond`). A transaction works on the snapshot `snap[h]`;
MongoDB, external to the repository, is modelled by what the code relies on:
a write conflict aborts whoever comes second and `withTransaction`
runs the callback again. `secondary` is a replica that lags, from which the
actions after the payment read. Failing calls, crashes and responses lost on
their way to Stripe are faults, bounded by `MaxFaults`. `Ledger` is the
refinement mapping: the collections are the ledger's, the running handlers are
hidden.

`Reconciliation` takes one payment and its intent, issues real histories (a
failed charge, a pending and then settled one, refunds, a dispute, cancellation),
loses any delivery, and runs the job beside it. Here the handler is one atomic
step: that is what the refinement of `PaymentLedger` justifies. An account is
replayed when any of its payments is incomplete; with one payment this is the
weakest help the job can get.

### Webhooks

`WebhookRetry` follows one submission: the sender (`InitialPost`, `InitialSave`,
`InitialPush`), the messages (`queue`, with a slot per message), and the handler of
each message with its state kept between awaits. SQS is external: it may deliver
again what was not deleted in time (`VisibilityTimeout`), and takes a message back
when its handler throws or stops (`Reject`, `Crash`), to deliver it again or to
move it to the dead-letter queue (`Return`). `returned` counts the messages that
came back, since every promise about duplicates has to be relative to it. Time is
`age`, in units of the smallest interval that matters; `MaxDelay` is the longest
delay SQS accepts.

### Form logic

`FormLogic` has one evaluator, `StartEvaluation` / `Visit` / `NextPass`, which is
`getVisibleFieldIds`: passes over the fields in the order of the form until one
changes nothing. The browser runs it on what was typed (`ClientFulfils`, numbers
compared as numbers), the server on the answers it receives (`ServerFulfils`,
compared as strings). The code runs the loop without interruption; it is split
into steps only so that its invariants can be stated. A page keeps the form it has
loaded (the query never goes stale), `SaveForm` replaces the form meanwhile. The
server loads a form again (`Receive`): the one that is stored or, from a node that
lags behind, still that of the page; an older one is what an administrator who saves
it again would make of it.
Inputs are classes of text: `NumberOf` gives the number a text denotes. An
`equals` condition holds one value. A plain option that begins
with "Others: " is left out (the TODO at `logic.ts:340` names that ambiguity).
The validators of the types of fields are left out, except that a required
field wants an answer and a hidden field none.

### One-time passwords

`FieldVerification` is one field of one transaction (fields share only their
document). OTPs are numbered in the order of their generation; a hash is the
number of its OTP, and a signature the recipient it vouches for. A request is its
reads and checks in one step (`GenerateOtp`, `VerifyOtp`, `ResetField`: one read
of the transaction, then code without an await that matters), what it calls
(`shouldGenerateMobileOtp` reads the form, and a node that lags behind may still have
the field as verifiable; `SendOtp`), and its one atomic update
(`SaveHash`, `incrementFieldRetries` in `CompareHash`, `resetField`). `CompareHash`
uses what was read before. After an SMS, `processAdminSmsCounts` may switch
verification off. `Tick` and `RemoveTransaction` are the clock and the TTL index;
the database may take its time to remove an expired transaction.

`OtpToken` is one administrator, in one of two flows with the same shape: a login
(the address) or a new contact number (`createOtp` chooses one of several). The
upsert finds a document and updates it, or finds none and inserts in a later step:
nothing is unique, so two requests may leave two documents. The attempt is counted by
the update that returns the document (`Returned`), which is why, unlike in
`FieldVerification`, no overlap gets around the limit. `removeTokenOnSuccess`
removes any document of the address.

`MCOtp` checks both: a behaviour is one of the first or one of the second, chosen
by `component` in the initial state, since they share no state.

### Forms

`FormEditing` is one form and its concurrent writers. A request reads (`Read`, and
for the update of a logic `ReadAgain`: the model reads the form once more) what one
node or another still returns (`copies`: all documents there have been), then
saves what it made of its copy. Mongoose is external and modelled by its
rules for the version of a document: an array that is written as a whole compares
and increments it (`SetArray`: reorder, insert at a position, duplicate), an
element written by its position compares only (`SetElement`; an update of a field that
replaces an array within it increments as well, and one that would change the type of
the field is refused), a pushed element increments only (`PushElement`), `$pull` by `findByIdAndUpdate` does neither
(`PullElement`). Elements carry the number of the request that last wrote them;
`unseen` counts, per array, the changes that left the version alone: `position`
those after which an id may stand at another place, `content` those of what stands
there. A write by position is of the first kind too when the place no longer
`Holds` the element that is written: `updateFormLogic`, misled by a `$pull`,
overwrites another logic by its own. With two logics and three requests the next
writer is misled in its turn, and `SavesOnlyTarget` is violated if the history does
not tell of it; with one logic this does not happen, which is why the run has two.

`Submissions` is a form with a limit and one attachment, in email or in storage
mode: uploads under a key (the bucket keeps versions), the scan of the latest,
the move of the version that was scanned, the check of the form as it was
retrieved, the count, the save, the mail; `deactivateFormRead` and
`deactivateFormSave` when the limit is reached; the administrator opens and closes
the form (`ChangeStatus`).

`Bounces` is one form's notifications and documents. A handler holds its copy of a
document between the awaits; `saved` is history: what the notification last
saved said of each recipient. `saveBounceDoc` writes only what the handler has
changed, and compares the version only if it changed the bounces, as Mongoose does.

`Workspaces` is the documents of workspaces and forms with a counter of their
updates, which stands for MongoDB's detection of concurrent writes. A transaction
fixes its snapshot (`BeginTransaction`), and commits, or runs again, depending on
whether a document it writes has been written since (`WriteConflict`: a workspace,
`WorkspaceConflict`, or a form, `FormConflict`). `FindForms` is the
query for the user's forms, which has no session and so is no part of the transaction:
`CanBeArchived` goes by an owner that any node may return (`replicas`), older or newer
than the snapshot; so do the requests that archive or hand over a form. The
workspaces have timestamps, so that `$pull` writes every workspace of the user,
also one without the form (`Visited`): two moves always conflict, and that is what
keeps a form in one workspace. Outside of transactions,
`removeFormIdsFromAllWorkspaces` visits one workspace after another. When the
destination of a move is deleted after the controller has looked it up, the transaction
removes the form from where it is, adds it nowhere, and commits.

`MCForms` checks the four side by side, as `MCOtp` does. What they share of a form
is its status; each changes it as the code does, and the interleaving of the
statuses themselves is in `FormEditing`.

## 3. Runs

| run | question | bounds | states |
|---|---|---|---|
| `refund` | two handlers, a failed, a succeeded and a refunded charge of one payment | 2 faults | 156,520 |
| `payout` | two payments and a payout of both, events that must be refused; is every event acknowledged in the end? | 1 fault | 42,413 |
| `mixed` | a payout with a foreign charge (violated) | 1 fault | – |
| `job` | reconciliation under lost deliveries | 3 events, 1 fault, 1 expiry | 102,009 |
| `lost` | a lost `charge.succeeded` (violated) | 3 events | – |
| `retry` | retries under every kind of failure | 2 retries, 1 fault, 3 messages | 69,546 |
| `unsaved` | the first failure cannot be recorded (violated) | 1 fault | – |
| `agree` | browser and server agree | 6 forms, 2 saves | 23,652 |
| `spelling` | two spellings of a number (violated) | no saves | – |
| `otp` | OTPs of a field and of an administrator | 2 handlers, 4 and 3 OTPs, 2 ticks, 1 fault | 3,208,442 |
| `forms` | edits, submissions, bounces, workspaces | see below | 1,445,479 |
| `logic` | the update of a logic that is deleted (violated) | 2 requests, 2 logics | – |

**What the payment runs show.** In `refund` a payment has its submission iff it has
a `charge.succeeded` (`SubmissionIffPaid`), its state is what the same events in
order of creation would give (`OrderIndependent`), responses are not deleted
before they were mailed (`DeletedAfterConfirmation`), an acknowledged success with
a receipt address was receipted (`AckedIsReceipted`), no step takes anything back
(`NoLostUpdate`), the ledger is implemented (`ImplementsLedger`). In `payout` an
acknowledged event is recorded in all its payments (`AckedIsRecorded`) and every
event is acknowledged in the end (`EventuallyAcked`). That no event is in a log
twice and a log holds its own events only are theorems (section 5), not run again.
The bounds are enough for what can go wrong: two handlers make every
conflict, a third only waits for one of them; three events give every order of
failure, success and refund; two faults give a failure and one more during its
recovery. The handlers are interchangeable, so `refund` uses symmetry; `payout`,
which checks liveness, does not.

**What reconciliation shows.** FormSG never claims a success that Stripe does
not know (`NeverAhead`); once all events are in, status and intent agree
(`Consistent`); a complete payment stays complete (`CompleteStays`), a reported
match is one (`HonestReport`), and with no delivery by Stripe assumed at all the
job alone brings it up to date (`EventuallyReconciled`), unless an event that
was missed is too old to be listed. Three issued events
cover failure-success-refund and failure-success-dispute; `MinGap` is the least
time between two events, 1 s.

**What the webhook run shows.** Two retries of which the second exceeds the
longest delay of the queue make every path: retry at once due, requeue, last
attempt. `NotForgotten`, `AttemptsBounded` (relative to returned messages),
`NeverEarly`, `StopsAfterSuccess`, `EventuallySettled`.

**What the logic run shows.** The forms are the ones that need several passes, a
circle, alternatives, a deleted field, a prefilled field, prevention.
`VisibleIsLeast` compares the loop with its definition as a least closed set;
`StoredConsistent` is what the server guarantees even for stale pages;
`RefusedOnlyIfStale` and `SameFieldsShown` are the agreement of the two
implementations; `EvaluationEnds` the end of the loop.

**What the OTP run shows.** `SignatureIsOfRecipient`: whatever is requested, saved
late, reset or verified meanwhile, a signature is of the recipient that was sent the
OTP. `LimitsHold`: comparisons and requests exceed their limits by less than
the number of handlers; `QuotaHolds`: the SMSes of a form without credentials stop
after the limit within one per handler, one per failure and one per read of the form
from a node that has not heard yet that verification is off. `AttemptsHold` and
`AcceptedWasSent` say the same of administrators, the first without any excess.
Waiting time and life of a hash are 0 and the transaction lives 1 tick, in 2 ticks:
so each is both met and missed. The limits are 1 and 2, met by two handlers.

**What the forms run shows.** *Editing* (3 requests, 2 fields, 2 logics): two
requests overlap in every way and a third is saved between them. The form is open at
first, and closed by a request. `SavesOnlyTarget`:
an edit answered with success changes nothing but its target, unless a write that
leaves the version alone has misled it; `FieldsStay`: fields are lost only by
deletions. All of it holds with reads that lag behind, since the version is compared
with the stored document. *Submissions* (2 handlers, 3 requests,
2 uploads, a limit of 1, 1 failure): `LimitHolds`, `OnlyCleanFiles`. *Bounces*
(2 recipients, 2 handlers, 3 notifications, 1 loss): `DeactivationJustified`,
`NoticesBounded`. *Workspaces* (1 form, 2 users of which one has 2 of the 3
workspaces, 2 requests beside creations and hand-overs, 1 failure):
`OneWorkspace`: a form is in one workspace of a user; `FormsStayFiled`: it does not fall out
of them but by a request that takes it out, above all not with a workspace it was moved to
while that was deleted; `OwnFormsArchived`: a deletion archives no form that its user has not
owned by the time of its snapshot, and none that is handed over during the deletion. A form
that was handed over *before* the snapshot, and whose id was left in the workspace, is
archived all the same when the node that is asked still has the former owner: the code does
this, `FindForms` can, and the property does not claim otherwise. Two is the number of requests that a race here
takes; the third submission or notification meets what the first two
left. In `Otp.cfg`, `Forms.cfg` and `FormEditing_logic.cfg` deadlock is not
checked: once the bounded number of requests has been served nothing more happens.

**Fairness.** `payout`: a request that runs takes its next step (Node runs its
continuations; a hanging call ends in a failure), Stripe redelivers what is not
acknowledged (to some handler), the secondary catches up. Faults are finitely many,
as they must be for anything to happen. Nothing is assumed of two
conflicting transactions beyond that: MongoDB lets one of them win. `job` and
`lost`: the scheduled job keeps running and the secondary catches up; of Stripe's
own deliveries and of the payer nothing is assumed. `retry`: the sender and the
consumer continue, time passes. `agree`: a started evaluation continues, for it
is one uninterrupted call in the code. The modules of the OTPs and of the forms
state no fairness: what they promise is safety, and a request that is given up
owes nothing.

## 4. Findings

Five runs check a sentence of the repository that the code does not keep; each is
quoted in `PROJECT.json`.

* `mixed`: the reducer over the charges of a payout keeps the last error only, so a
  foreign charge after a real failure turns the answer into 202 and Stripe stops.
* `lost` (`EventuallyConfirmed`): a refund or dispute that arrives while the `charge.succeeded` is lost
  moves the payment out of Pending; the job no longer looks at it.
* `unsaved` (`FailedIsQueued`): if recording the failed first attempt fails, no retry is queued.
* `spelling`: a decimal `1.0` fulfils "equals 1" in the browser and not on the
  server, which refuses the answer to the field that was shown.
* `logic` (`DeletedLogicNotFound`): `updateFormLogic` writes by position after reading the form; a deletion
  in between does not change the version, so the update overwrites the logic that
  has moved there, or appends the deleted one, and is answered with success instead of
  `LogicNotFoundError`.

## 5. Proofs

Every safety and every action property of the runs that pass is also a theorem, and
so is the refinement of the ledger. The theorems hold for all values of the constants
under the assumptions named in the modules: events have unique ids and a succeeded
charge has one target (`EventAssumption`), the intervals of the retries are
positive and do not overlap (`RetryAssumption`), and otherwise bounds are
numbers, sentinels are no values, and handlers are finite where they are counted
(`BoundAssumption`, `ReconciliationBounds`, `VerificationAssumption`,
`TokenAssumption`, `EditingAssumption`, `SubmissionAssumption`,
`BounceAssumption`, `WorkspaceAssumption` and those of `FormLogic`). TLC evaluates each
of them in a run. A theorem that needs more says so: `AckedRecorded` that no payout
mixes environments, `PagesAccepted` and `PagesAgree` that browser and server read
an input alike, three of `ReconciliationProofs` that `MinGap = 1`.

The types are proved of every specification. Those of `Reconciliation`, of the OTPs
and of the forms are run as well (`TypeOK`, `OtpTypeOK`, `FormsTypeOK`); those of
`StripeEvents`, `WebhookRetry` and `FormLogic` are not run again. Since the behaviours
of `MCOtp` and `MCForms` are behaviours of each of the specifications side by side
(`FormsComposed`), their types follow (`OtpTypesCorrect`,
`FormsTypesCorrect`).

**`PaymentStateProofs`.** What is computed from a log. A fold is defined by choosing
a function that satisfies its equation; that there is one is an induction over the length
of the log. The induction theorems of the library take the property as an operator,
which the provers cannot instantiate; it is done with a set instead, of the lengths for
which the statement fails, which would have a least element. On this rest
the lemmas about `OfType`, `chargeStateReducer` and the insertion by second.
`LastDecides`: for every log the last charge event alone decides status and charge, so
that the state machine adds nothing to its fallback. `StateAlwaysComputed`:
`ComputePaymentStateError` is never the result.

**`StripeEventsProofs`.** The safety properties are not inductive: a commit
overwrites the payment with a document computed from a snapshot. `HandlerInv`
says what a handler owns: the targets it still visits and those it has done
(`VisitsTargets`), that the event is new and acceptable in its snapshot
(`OwnsSnapshot`), that a handler about to commit has a snapshot equal to the
document and is the only one (`CommitsFresh`, first committer wins), and that
actions run for a success that is recorded (`ActsOnPaid`). With the types it is
inductive (`HandlersCorrect`, `TypeCorrect`); one lemma per action, and for
the actions of another handler a frame lemma. From it follow `LogsOnce`,
`SubmitsIffPaid`, `LogsAuthentic`, `NothingLost`, and `HandlersImplementLedger`:
the commit is `Record`, the deletion and the response are steps of the ledger,
everything else stutters. `AckedRecorded` needs the assumption that no payout
mixes targets of this environment with others: run `mixed` shows why.

`LogInv`: status, charge and payout are those computed from the log, and the log is
sorted by seconds. Events of different seconds have one sorted order only, hence
`OrderNeverMatters`. `ActionsInv` follows what the actions after a payment
have done: the secondary knows only of deletions that were made (`ReplicaBehind`); a
handler that found no responses read them after their deletion (`ReadsDeleted`); one
about to delete has handed the confirmation over, and one about to answer "ok" has
receipted its payment (`HasNotified`). So a deletion follows its confirmation
(`DeletesAfterConfirmation`), also when the handler that sends it is not the one
that deletes, and an acknowledged success is receipted (`AckedReceipted`).

**`ReconciliationProofs`.** A payment and its intent are compared by their last events.
`IssuedInv` is the order in which Stripe issues them: attempts, then a success with what
follows it, or the cancellation. `PaymentInv`: the log is of issued events, sorted, and
by `LastDecides` its last one is the status. For `NeverAheadOfStripe` that is
enough, whatever the seconds. The others need the last of the log to be the last of
what was issued and logged, hence that no two events share a second (`MinGap = 1`):
with two events in one second the log keeps them as they arrived, and the older may
decide. Under it `ConsistentOnceLogged` and `CompleteForGood` hold for any number of
events; `ReadInv`, that what was read from a secondary as complete or
canceled is final, gives `ReportIsHonest`.

**`WebhookRetryProofs`.** The invariant adds to the types that a message's
`nextAttempt` lies within its retry, that a handler past the due check is due, and
that until a message comes back at most one message is live and the
sender is finished when there is one (`RetriesCorrect`). From it: `NeverForgotten`, `AttemptsOnTime`,
`SuccessIsFinal`, for any list of intervals. `BudgetInv` counts: the attempts made, those
the sender may still lead to, and those each message may, are together at most one list
of attempts for the first and for every message that came back. The sum over the slots is
the size of a set of pairs of a slot and an attempt (`Left`), for which the library has the
theorems. Hence `AttemptsAlwaysBounded`.

**`FormLogicProofs`.** `LoopSound`: what the loop has found lies in every closed
set. `LoopDone`: while a pass has changed nothing, every field behind
the cursor is settled. At the end the set is closed and least
(`VisibleFieldsCorrect`), whatever the form and the order of its fields. The
remaining conjuncts carry what the page showed and sent (`ShownLeast`,
`SentComplete`, `SentAnswers`) to the checks of the server (`CheckedLeast`,
`CheckedFields`, `Reasons`), hence `StoredCorrect`. For agreement, the
least set of the server is contained in the browser's because the latter is closed
under the server's conditions as well, and the reverse likewise: `PagesAccepted`,
`PagesAgree`, under `SameReading`, the assumption that both sides read each complete
input alike. `spelling` is an input for which it fails.

**`OtpProofs`, fields.** `IssueInv`: an OTP belongs to one request until its
hash is saved, and is sent by no other. `VouchInv`:
wherever a hash is kept, in the field or in a request that has read it, the
signature beside it is of the recipient its OTP was sent to. Together with the types
inductive (`OtpsVouched`), and `SignaturesVouch` follows. For `LimitsAlwaysHold`
`RequestsInv` bounds the requests together with those under way, and `ComparedInv`
the comparisons of an OTP with those under way: nobody compares an OTP before its
hash is saved, and as long as the hash is in the field, the field's retries count
every comparison made.

`QuotaInv`: while SMSes can be asked for, those
beyond the quota were sent by requests that have still to look at the count, or by a
count that failed; once verification is off, only requests that are bound to send
one can add to them. Hence `QuotaAlwaysHolds`.

**`OtpProofs`, administrators.** `OwnerInv`: an OTP is in one document or in the hands
of one request that is making it. `TriedInv`: an OTP has been compared at most as
often as its document counts, and no more often than allowed. This gives `AttemptsAlwaysHold` for any number of
requests and of duplicate documents. `AcceptInv` adds who was sent an OTP, hence
`AcceptedAlwaysSent`.

**`FormsProofs`, editing.** `Follows` relates the form to what a request has
read of it, by the version and the history: as long as the version is the same no field
has been added, an array whose `position` count is the same has the same ids at
the same places, and one whose `content` count is the same too is the array that was read. It is
reflexive and transitive, and each save is a step of it (`EffectFollows`), whatever it
writes; so it holds between every request and the form (`EditingFollowed`,
with the types, in which the version is at most the number of requests granted). A
request that writes a whole array does so only at the version it has read, and
then writes back every field there is (`FieldsAlwaysStay`); one that writes a position,
if it is not misled, finds its target there (`SavesOnlyTheirTarget`). What a node that
lags returns is related to the form in the same way (`\A copy \in copies : Followed(copy)` in
the invariant), so that a request which begins late is no different from one that waits.
The lemmas it rests on say what insertion, removal, reordering, `$pull` and a
write beyond the end do to the elements of a sequence.

**`FormsProofs`, submissions.** `FileInv`: a request past the scan holds a version that was
found clean, and versions do not change (`CleanAlways`). `CountInv`: the submissions
stored and about to be stored are at most `SubmissionLimit - 1`, one per handler, and
one per failure (a count that lags is one): a request that passes the count does so when fewer
than the limit are stored, and a handler is between the two once (`LimitAlwaysHolds`).
`NumberedInv`, that a submission has the number of a request received, completes the
types (`SubmissionTypeCorrect`).

**`FormsProofs`, bounces.** `Versioned`: as long as the version of a document stays, what was
last reported of each recipient is what a handler has read; a removed
document stays removed. `Reported`: a permanent bounce in the handler's copy is its own report, or
the last one in the document it read. With the types inductive
(`BouncesVersioned`), hence `DeactivationsJustified`. `Spent` is the pairs of a document
and a handler that can no longer lead to a notice: the handler has told, or the
document is settled and the handler does not hold an older copy. A notice spends a pair;
a save that fails gives one back only if it is counted as lost (`NoticesSpent`). There are
no more pairs than documents times handlers, hence `NoticesAlwaysBounded`.

**`WorkspacesProofs`.** `ViewsPast`: a snapshot is a past state, told by the
counters. `ViewsOrdered`: of two transactions one has the older view.
`WorkspacesKnown`: a stored form id is of a form that has been created, so that the
creation of a form cannot add it a second time. `Noticed`: when a form of a move is
in a workspace of the user that the move's snapshot does not have, whoever brought it
there has written the destination since, so that the move conflicts. Every workspace
that the snapshot does have is written by the move, which conflicts as well if that
workspace has been written since. Hence a move that commits takes the form out of wherever it
is (`OneWorkspaceNext`), which gives `OneWorkspaceAlways`. `Lagging`: what
the nodes return of a form has been written no more often than the form. `FoundOwned`: a form
that a deletion has found was the user's in a document as old as the snapshot or older, or
has been written since, and then the transaction conflicts; hence `OwnFormsAlways`. A step
that empties a workspace of a form is a deletion, whose snapshot has the form there or which
conflicts, a removal that names it, or a move, which adds it at the destination unless that
was deleted (`LeavesBy`); hence `FormsAlwaysStayFiled`.

**Only model-checked.** Liveness (`EventuallyAcked`, `EventuallyReconciled`,
`EventuallySettled`, `EvaluationEnds`): the prover has no ENABLED. The violated
properties are counterexamples, not theorems. Consistency, completeness for good and
honest reports are neither proved nor claimed for events of one second.

## 6. What is left

The components that keep state over time are modelled. What a later version could
add, in the order of its worth: the editors of payments and of the other settings in
`FormEditing`, if they come to share a document's arrays; several attachments per
submission; liveness of the OTP flows if retries are added to them; for the proofs, what
still holds of reconciliation when two events share a second.

Of the hazards in `PROJECT.json` one has no property: that the server closes a form, by
reading, changing and saving it, while an administrator archives it. The steps are in
`FormEditing`; the code lets the later write win, and no sentence of the repository says
that it should not.
