------------------------- MODULE FieldVerification -------------------------
(***************************************************************************)
(* The verification of one field of a public form: an OTP is sent to the   *)
(* mobile number or email address that was filled in, and whoever types it *)
(* gets the signature that the submission must carry.                      *)
(*                                                                         *)
(* Source: src/src/app/modules/verification, verification.service.ts (the  *)
(* three requests), verification.model.ts (the atomic updates) and         *)
(* verification.util.ts (the checks of times and limits).                  *)
(*                                                                         *)
(* Every request reads the transaction, checks what it has read, and       *)
(* updates the document later by an operator on the field alone. The       *)
(* database, the mail and the SMS services are external and may fail,      *)
(* before or after they have done what they were asked.                    *)
(***************************************************************************)
EXTENDS Integers, FiniteSets

CONSTANTS Recipient,        \* numbers and addresses that may be filled in
          Allowed,          \* the numbers a mobile field accepts
          NoRecipient,
          Handler,          \* bound: requests served at a time
          WaitTime,         \* WAIT_FOR_OTP_SECONDS less the tolerance
          HashLife,         \* HASH_EXPIRE_AFTER_SECONDS
          TransactionLife,  \* TRANSACTION_EXPIRE_AFTER_SECONDS
          NumOtpRetries,    \* NUM_OTP_RETRIES
          MaxOtpRequests,   \* MAX_OTP_REQUESTS
          SmsLimit,         \* smsVerificationLimit
          MaxOtps,          \* bound: OTPs generated
          MaxTime,          \* bound: the clock
          MaxFaults         \* bound: failures

ASSUME VerificationAssumption ==
    /\ NoRecipient \notin Recipient
    /\ Allowed \subseteq Recipient
    /\ {WaitTime, HashLife, TransactionLife, SmsLimit, MaxOtps, MaxTime,
        MaxFaults} \subseteq Nat
    /\ {NumOtpRetries, MaxOtpRequests} \subseteq Nat \ {0}
    /\ IsFiniteSet(Handler)

VARIABLES
    fieldType,    \* of the field, as the transaction keeps it
    transaction,  \* "none", "stored", or "removed" by the database
    field,        \* the field's part of the transaction
    verifiable,   \* isVerifiable of the field in the form
    request,      \* per handler the request it serves
    now,          \* the time since the transaction was created
    generated,    \* OTPs generated so far: they are numbered from 1
    smsCount,     \* SMSes counted for the admin of the form
    sent,         \* history: who has been sent an OTP
    compared,     \* history: how often the hash of an OTP has been compared
    verified,     \* history: signatures handed out, with the OTP typed
    faults        \* history: failures so far

verificationVars == <<fieldType, transaction, field, verifiable, request, now,
                      generated, smsCount, sent, compared, verified, faults>>

Otp == 1 .. MaxOtps
NoOtp == 0
NoTime == -1

\* A signature is told by the recipient it vouches for: the form, the field
\* and the transaction are the same throughout.
Signature == Recipient \cup {NoRecipient}

NewField == [hashedOtp |-> NoOtp, signedData |-> NoRecipient,
             hashCreatedAt |-> NoTime, hashRetries |-> 0, otpRequests |-> 0]

Idle == [pc |-> "idle", recipient |-> NoRecipient, otp |-> NoOtp,
         hashedOtp |-> NoOtp, signedData |-> NoRecipient]

Init ==
    /\ fieldType \in {"mobile", "email"}
    /\ transaction = "none"
    /\ field = NewField
    /\ verifiable = TRUE
    /\ request = [h \in Handler |-> Idle]
    /\ now = 0
    /\ generated = 0
    /\ smsCount = 0
    /\ sent = [o \in Otp |-> NoRecipient]
    /\ compared = [o \in Otp |-> 0]
    /\ verified = {}
    /\ faults = 0

At(h, step) == request[h].pc = step

GoTo(h, step) == request' = [request EXCEPT ![h].pc = step]

Finish(h) == request' = [request EXCEPT ![h] = Idle]

Fault == faults < MaxFaults /\ faults' = faults + 1

\* createTransactionFromForm.
CreateTransaction ==
    /\ transaction = "none"
    /\ verifiable
    /\ transaction' = "stored"
    /\ UNCHANGED <<fieldType, field, verifiable, request, now, generated,
                   smsCount, sent, compared, verified, faults>>

\* getValidTransaction: what every request reads first.
ValidTransaction == transaction = "stored" /\ now <= TransactionLife

isOtpWaitTimeElapsed ==
    field.hashCreatedAt # NoTime => now > field.hashCreatedAt + WaitTime

isOtpRequestCountExceeded == field.otpRequests >= MaxOtpRequests

isOtpExpired ==
    field.hashCreatedAt # NoTime /\ field.hashCreatedAt + HashLife < now

\* Mutant of HasHash: the check is missing.
HashAssumed == TRUE

HasHash == field.hashedOtp # NoOtp

\* Mutant of isOtpRetryExceeded: off by one.
RetryExceededLate == field.hashRetries > NumOtpRetries

isOtpRetryExceeded == field.hashRetries >= NumOtpRetries

-----------------------------------------------------------------------------
(* sendNewOtp, with what the controller does before and after it.           *)

GenerateOtp(h, r) ==
    /\ At(h, "idle")
    /\ generated < MaxOtps
    /\ ValidTransaction
    /\ isOtpWaitTimeElapsed
    /\ ~isOtpRequestCountExceeded
    /\ generated' = generated + 1
    /\ request' = [request EXCEPT ![h] =
          [Idle EXCEPT !.pc = IF fieldType = "mobile" THEN "form" ELSE "send",
                       !.recipient = r, !.otp = generated + 1]]
    /\ UNCHANGED <<fieldType, transaction, field, verifiable, now, smsCount,
                   sent, compared, verified, faults>>

\* A mobile field is looked up in the form, which may have changed. The form is
\* read from the nearest node: that it lags behind, and still has the field as
\* verifiable, is a fault.
shouldGenerateMobileOtp(h) ==
    /\ At(h, "form")
    /\ \/ /\ verifiable /\ request[h].recipient \in Allowed
          /\ GoTo(h, "send")
          /\ UNCHANGED faults
       \/ /\ ~(verifiable /\ request[h].recipient \in Allowed)
          /\ Finish(h)
          /\ UNCHANGED faults
       \/ /\ ~verifiable /\ request[h].recipient \in Allowed
          /\ Fault
          /\ GoTo(h, "send")
    /\ UNCHANGED <<fieldType, transaction, field, verifiable, now, generated,
                   smsCount, sent, compared, verified>>

\* An SMS is counted whether or not it could be sent, and a call that fails
\* may have sent the message all the same.
SendOtp(h) ==
    /\ At(h, "send")
    /\ smsCount' = IF fieldType = "mobile" THEN smsCount + 1 ELSE smsCount
    /\ LET toRecipient ==
             sent' = [sent EXCEPT ![request[h].otp] = request[h].recipient]
       IN  \/ toRecipient /\ GoTo(h, "save") /\ UNCHANGED faults
           \/ Fault /\ Finish(h) /\ (toRecipient \/ UNCHANGED sent)
    /\ UNCHANGED <<fieldType, transaction, field, verifiable, now, generated,
                   compared, verified>>

SaveHash(h) ==
    field' = [hashedOtp |-> request[h].otp,
              signedData |-> request[h].recipient,
              hashCreatedAt |-> now, hashRetries |-> 0,
              otpRequests |-> field.otpRequests + 1]

updateHashForField(h) ==
    /\ At(h, "save")
    /\ \/ /\ transaction = "stored"
          /\ SaveHash(h)
          /\ IF fieldType = "mobile" THEN GoTo(h, "quota") ELSE Finish(h)
          /\ UNCHANGED faults
       \/ transaction # "stored" /\ Finish(h) /\ UNCHANGED <<field, faults>>
       \/ /\ Fault
          /\ Finish(h)
          /\ UNCHANGED field \/ (transaction = "stored" /\ SaveHash(h))
    /\ UNCHANGED <<fieldType, transaction, verifiable, now, generated,
                   smsCount, sent, compared, verified>>

\* Mutant of hasAdminExceededFreeSmsLimit: only the SMS that exceeds it counts.
ExceedsLimitBy1 == smsCount = SmsLimit + 1

hasAdminExceededFreeSmsLimit == smsCount > SmsLimit

\* disableVerifiedFieldsIfRequired, after the response. The count is read on
\* a secondary, and the admin must be mailed before the fields are disabled:
\* that it lags behind or that a call fails is a fault.
processAdminSmsCounts(h) ==
    /\ At(h, "quota")
    /\ Finish(h)
    /\ \/ /\ hasAdminExceededFreeSmsLimit
          /\ verifiable' = FALSE
          /\ UNCHANGED faults
       \/ ~hasAdminExceededFreeSmsLimit /\ UNCHANGED <<verifiable, faults>>
       \/ Fault /\ UNCHANGED verifiable
    /\ UNCHANGED <<fieldType, transaction, field, now, generated, smsCount,
                   sent, compared, verified>>

-----------------------------------------------------------------------------
(* verifyOtp.                                                               *)

\* The hash and the signature are those of the document as it is read here.
VerifyOtp(h, typed) ==
    /\ At(h, "idle")
    /\ ValidTransaction
    /\ HasHash
    /\ ~isOtpExpired
    /\ ~isOtpRetryExceeded
    /\ request' = [request EXCEPT ![h] =
          [Idle EXCEPT !.pc = "compare", !.otp = typed,
                       !.hashedOtp = field.hashedOtp,
                       !.signedData = field.signedData]]
    /\ UNCHANGED <<fieldType, transaction, field, verifiable, now, generated,
                   smsCount, sent, compared, verified, faults>>

\* Mutant of ReadSignature: it is read again after the comparison.
CurrentSignature(h) == field.signedData

ReadSignature(h) == request[h].signedData

incrementFieldRetries ==
    field' = IF transaction = "stored"
             THEN [field EXCEPT !.hashRetries = @ + 1] ELSE field

\* That the transaction has gone meanwhile is not noticed.
CompareHash(h) ==
    /\ At(h, "compare")
    /\ \/ /\ incrementFieldRetries
          /\ compared' = [compared EXCEPT ![request[h].hashedOtp] = @ + 1]
          /\ verified' =
                IF request[h].otp = request[h].hashedOtp
                THEN verified \cup {[otp |-> request[h].otp,
                                     signedData |-> ReadSignature(h)]}
                ELSE verified
          /\ UNCHANGED faults
       \/ /\ Fault
          /\ incrementFieldRetries \/ UNCHANGED field
          /\ UNCHANGED <<compared, verified>>
    /\ Finish(h)
    /\ UNCHANGED <<fieldType, transaction, verifiable, now, generated,
                   smsCount, sent>>

-----------------------------------------------------------------------------
(* resetFieldForTransaction: the answer is being changed.                   *)

ResetField(h) ==
    /\ At(h, "idle")
    /\ ValidTransaction
    /\ GoTo(h, "reset")
    /\ UNCHANGED <<fieldType, transaction, field, verifiable, now, generated,
                   smsCount, sent, compared, verified, faults>>

\* The number of requests stays, the time of the last one does not.
resetField(h) ==
    /\ At(h, "reset")
    /\ \/ /\ field' = IF transaction = "stored"
                      THEN [NewField EXCEPT !.otpRequests = field.otpRequests]
                      ELSE field
          /\ UNCHANGED faults
       \/ Fault /\ UNCHANGED field
    /\ Finish(h)
    /\ UNCHANGED <<fieldType, transaction, verifiable, now, generated,
                   smsCount, sent, compared, verified>>

-----------------------------------------------------------------------------

Tick ==
    /\ transaction = "stored"
    /\ now < MaxTime
    /\ now' = now + 1
    /\ UNCHANGED <<fieldType, transaction, field, verifiable, request,
                   generated, smsCount, sent, compared, verified, faults>>

\* The TTL index on expireAt.
RemoveTransaction ==
    /\ transaction = "stored"
    /\ now > TransactionLife
    /\ transaction' = "removed"
    /\ field' = NewField
    /\ UNCHANGED <<fieldType, verifiable, request, now, generated, smsCount,
                   sent, compared, verified, faults>>

Serve(h) ==
    \/ \E r \in Recipient : GenerateOtp(h, r)
    \/ shouldGenerateMobileOtp(h)
    \/ SendOtp(h)
    \/ updateHashForField(h)
    \/ processAdminSmsCounts(h)
    \/ \E typed \in NoOtp .. generated : VerifyOtp(h, typed)
    \/ CompareHash(h)
    \/ ResetField(h)
    \/ resetField(h)

Next ==
    \/ CreateTransaction
    \/ \E h \in Handler : Serve(h)
    \/ Tick
    \/ RemoveTransaction

Spec == Init /\ [][Next]_verificationVars

-----------------------------------------------------------------------------

Step == {"idle", "form", "send", "save", "quota", "compare", "reset"}

\* Every variable has its type.
TypeOK ==
    /\ fieldType \in {"mobile", "email"}
    /\ transaction \in {"none", "stored", "removed"}
    /\ field \in [hashedOtp : Otp \cup {NoOtp}, signedData : Signature,
                  hashCreatedAt : Nat \cup {NoTime}, hashRetries : Nat,
                  otpRequests : Nat]
    /\ verifiable \in BOOLEAN
    /\ request \in [Handler -> [pc : Step, recipient : Signature,
                                otp : Otp \cup {NoOtp},
                                hashedOtp : Otp \cup {NoOtp},
                                signedData : Signature]]
    /\ now \in Nat /\ generated \in 0 .. MaxOtps /\ smsCount \in Nat
    /\ sent \in [Otp -> Signature]
    /\ compared \in [Otp -> Nat]
    /\ verified \subseteq [otp : Otp, signedData : Signature]
    /\ faults \in Nat

\* A signature vouches for the recipient that was sent the OTP which was
\* typed, whichever OTPs are requested, saved late or reset while the OTP is
\* being checked (verifyOtp returns the signature it read with the hash).
SignatureIsOfRecipient ==
    \A v \in verified : sent[v.otp] = v.signedData

\* The checks of the two limits are made on what was read, before the update
\* that counts: requests that overlap go beyond them, but each handler by no
\* more than one.
LimitsHold ==
    /\ \A o \in Otp :
          compared[o] <= NumOtpRetries - 1 + Cardinality(Handler)
    /\ field.otpRequests <= MaxOtpRequests - 1 + Cardinality(Handler)

\* The SMSes of a form without credentials of its own stop soon after the
\* limit: one for each handler that had passed the check of the form, one for
\* each failure to count, mail or disable, and one for each request that a
\* node still told the field is verifiable after it had been disabled.
QuotaHolds == smsCount <= SmsLimit + Cardinality(Handler) + faults

=============================================================================
