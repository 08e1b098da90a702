------------------------------- MODULE OtpProofs -------------------------------
(***************************************************************************)
(* Proofs about the OTPs: of a field of a public form (FieldVerification), *)
(* of a login and of a contact (OtpToken), and of the two side by side     *)
(* (MCOtp). They hold for any number of concurrent requests, OTPs and      *)
(* failures and for every value of the limits.                             *)
(***************************************************************************)
EXTENDS MCOtp, FiniteSetTheorems, TLAPS

-----------------------------------------------------------------------------
(* Types.                                                                   *)

RequestType == [pc : Step, recipient : Signature, otp : Otp \cup {NoOtp},
                hashedOtp : Otp \cup {NoOtp}, signedData : Signature]

FieldRecord == [hashedOtp : Otp \cup {NoOtp}, signedData : Signature,
                hashCreatedAt : Nat \cup {NoTime}, hashRetries : Nat,
                otpRequests : Nat]

\* What CompareHash needs to know of the request it completes.
CompareType ==
    \A h \in Handler : At(h, "compare") => request[h].hashedOtp \in Otp

\* The records a field and a request start with have their types.
LEMMA Records ==
    /\ NewField \in FieldRecord
    /\ Idle \in RequestType
    /\ NoOtp \notin Otp
    /\ NoTime \notin Nat
  BY DEF NewField, FieldRecord, Idle, RequestType, Step, Signature, NoOtp, Otp,
         NoTime

\* Initially every variable has its type.
LEMMA TypeInit == Init => TypeOK /\ CompareType
  BY Records, VerificationAssumption
  DEF Init, TypeOK, CompareType, At, Idle, RequestType, FieldRecord, Otp, NoOtp,
      Signature

\* Every action keeps the types.
LEMMA TypeNext ==
    TypeOK /\ CompareType /\ [Next]_verificationVars => TypeOK' /\ CompareType'
<1> SUFFICES ASSUME TypeOK, CompareType, [Next]_verificationVars
             PROVE  TypeOK' /\ CompareType'
  OBVIOUS
<1> USE Records, VerificationAssumption
<1>t. /\ field \in FieldRecord /\ request \in [Handler -> RequestType]
      /\ now \in Nat /\ generated \in 0 .. MaxOtps /\ MaxOtps \in Nat
      /\ faults \in Nat /\ smsCount \in Nat
  BY DEF TypeOK, FieldRecord, RequestType
<1>1. CASE CreateTransaction
  BY <1>1 DEF CreateTransaction, TypeOK, CompareType, At
<1>2. ASSUME NEW h \in Handler, NEW r \in Recipient, GenerateOtp(h, r)
      PROVE  TypeOK' /\ CompareType'
  <2>1. generated' \in Otp /\ generated' \in 0 .. MaxOtps
    BY <1>2, <1>t DEF GenerateOtp, Otp
  <2>2. request'[h] \in RequestType /\ request'[h].pc # "compare"
    BY <1>2, <1>t, <2>1 DEF GenerateOtp, Idle, RequestType, Step, Signature
  <2>3. /\ request' = [request EXCEPT ![h] = request'[h]]
        /\ UNCHANGED <<fieldType, transaction, field, verifiable, now, smsCount,
                       sent, compared, verified, faults>>
    BY <1>2, <1>t DEF GenerateOtp
  <2> QED
    BY <1>t, <2>1, <2>2, <2>3 DEF TypeOK, CompareType, At, RequestType
<1>3. ASSUME NEW h \in Handler, shouldGenerateMobileOtp(h)
      PROVE  TypeOK' /\ CompareType'
  <2>1. faults' \in Nat
    BY <1>3, <1>t DEF shouldGenerateMobileOtp, Fault, TypeOK
  <2>2. GoTo(h, "send") \/ Finish(h)
    BY <1>3 DEF shouldGenerateMobileOtp
  <2>3. At(h, "form") /\ UNCHANGED <<fieldType, transaction, field, verifiable, now,
            generated, smsCount, sent, compared, verified>>
    BY <1>3 DEF shouldGenerateMobileOtp
  <2> QED
    BY <1>t, <2>1, <2>2, <2>3 DEF GoTo, Finish, TypeOK, CompareType, At,
       RequestType, Step, Idle
<1>4. ASSUME NEW h \in Handler, SendOtp(h)
      PROVE  TypeOK' /\ CompareType'
  <2>1. request' \in [Handler -> RequestType] /\ CompareType'
    BY <1>4, <1>t DEF SendOtp, GoTo, Finish, CompareType, At, RequestType, Step,
                     Idle
  <2>2. sent' \in [Otp -> Signature] /\ faults' \in Nat /\ smsCount' \in Nat
    BY <1>4, <1>t DEF SendOtp, Fault, TypeOK, RequestType
  <2> QED
    BY <1>4, <2>1, <2>2 DEF SendOtp, TypeOK, RequestType
<1>5. ASSUME NEW h \in Handler, updateHashForField(h)
      PROVE  TypeOK' /\ CompareType'
  <2>1. request' \in [Handler -> RequestType] /\ CompareType'
    BY <1>5, <1>t DEF updateHashForField, GoTo, Finish, CompareType, At,
                     RequestType, Step, Idle
  <2>2. field' \in FieldRecord /\ faults' \in Nat
    BY <1>5, <1>t DEF updateHashForField, SaveHash, Fault, FieldRecord, RequestType
  <2> QED
    BY <1>5, <2>1, <2>2 DEF updateHashForField, TypeOK, RequestType, FieldRecord
<1>6. ASSUME NEW h \in Handler, processAdminSmsCounts(h)
      PROVE  TypeOK' /\ CompareType'
  <2>1. request' \in [Handler -> RequestType] /\ CompareType'
    BY <1>6, <1>t DEF processAdminSmsCounts, Finish, CompareType, At, RequestType,
                     Idle
  <2>2. faults' \in Nat
    BY <1>6, <1>t DEF processAdminSmsCounts, Fault
  <2>3. verifiable' \in BOOLEAN
    BY <1>6, Zenon DEF processAdminSmsCounts, TypeOK
  <2> QED
    BY <1>6, <2>1, <2>2, <2>3 DEF processAdminSmsCounts, TypeOK, RequestType
<1>7. ASSUME NEW h \in Handler, NEW typed \in NoOtp .. generated,
             VerifyOtp(h, typed)
      PROVE  TypeOK' /\ CompareType'
  <2>1. /\ typed \in Otp \cup {NoOtp}
        /\ field.hashedOtp \in Otp /\ field.signedData \in Signature
    BY <1>7, <1>t DEF VerifyOtp, HasHash, FieldRecord, NoOtp, Otp
  <2>2. request'[h] \in RequestType /\ request'[h].hashedOtp \in Otp
    BY <1>7, <1>t, <2>1 DEF VerifyOtp, Idle, RequestType, Step
  <2>3. /\ request' = [request EXCEPT ![h] = request'[h]]
        /\ UNCHANGED <<fieldType, transaction, field, verifiable, now, generated,
                       smsCount, sent, compared, verified, faults>>
    BY <1>7, <1>t DEF VerifyOtp
  <2> QED
    BY <1>t, <2>2, <2>3 DEF TypeOK, CompareType, At, RequestType
<1>8. ASSUME NEW h \in Handler, CompareHash(h)
      PROVE  TypeOK' /\ CompareType'
  <2>1. request' \in [Handler -> RequestType] /\ CompareType'
    BY <1>8, <1>t DEF CompareHash, Finish, CompareType, At, RequestType, Idle
  <2>2. field' \in FieldRecord /\ faults' \in Nat
    BY <1>8, <1>t DEF CompareHash, incrementFieldRetries, Fault, FieldRecord
  <2>3. request[h].hashedOtp \in Otp /\ request[h].signedData \in Signature
    BY <1>8, <1>t DEF CompareHash, CompareType, RequestType
  <2>4. compared' \in [Otp -> Nat]
    BY <1>8, <2>3 DEF CompareHash, TypeOK
  <2>5. verified' \subseteq [otp : Otp, signedData : Signature]
    BY <1>8, <2>3 DEF CompareHash, TypeOK, ReadSignature
  <2> QED
    BY <1>8, <2>1, <2>2, <2>4, <2>5
    DEF CompareHash, TypeOK, RequestType, FieldRecord
<1>9. ASSUME NEW h \in Handler, ResetField(h)
      PROVE  TypeOK' /\ CompareType'
  BY <1>9, <1>t DEF ResetField, GoTo, TypeOK, CompareType, At, RequestType, Step
<1>10. ASSUME NEW h \in Handler, resetField(h)
       PROVE  TypeOK' /\ CompareType'
  <2>1. request' \in [Handler -> RequestType] /\ CompareType'
    BY <1>10, <1>t DEF resetField, Finish, CompareType, At, RequestType, Idle
  <2>2. field' \in FieldRecord /\ faults' \in Nat
    BY <1>10, <1>t DEF resetField, Fault, FieldRecord, NewField
  <2> QED
    BY <1>10, <2>1, <2>2 DEF resetField, TypeOK, RequestType, FieldRecord
<1>11. CASE Tick \/ RemoveTransaction \/ UNCHANGED verificationVars
  BY <1>11, <1>t DEF Tick, RemoveTransaction, verificationVars, TypeOK,
                    CompareType, At, FieldRecord
<1> QED
  BY <1>1, <1>2, <1>3, <1>4, <1>5, <1>6, <1>7, <1>8, <1>9, <1>10, <1>11
  DEF Next, Serve

\* Every variable has its type in every reachable state.
THEOREM TypeCorrect == Spec => []TypeOK
<1> QED
  BY TypeInit, TypeNext, PTL DEF Spec

-----------------------------------------------------------------------------
(* Who has been sent which OTP.                                             *)

Issuing(h) == request[h].pc \in {"form", "send", "save"}

\* An OTP that is being issued is sent by the request that generated it, and
\* by no other.
IssueInv ==
    /\ \A h \in Handler : Issuing(h) =>
          /\ request[h].otp \in 1 .. generated
          /\ request[h].recipient \in Recipient
          /\ request[h].pc # "save" => sent[request[h].otp] = NoRecipient
          /\ request[h].pc = "save" =>
                sent[request[h].otp] = request[h].recipient
    /\ \A h, g \in Handler : Issuing(h) /\ Issuing(g) /\ h # g =>
          request[h].otp # request[g].otp
    /\ \A o \in Otp : o > generated => sent[o] = NoRecipient

Vouched(hash, data) ==
    hash # NoOtp => data \in Recipient /\ sent[hash] = data

\* Wherever a hash is kept with a signature, it is the signature of whoever
\* has been sent the OTP.
VouchInv ==
    /\ Vouched(field.hashedOtp, field.signedData)
    /\ \A h \in Handler : At(h, "compare") =>
          Vouched(request[h].hashedOtp, request[h].signedData)
    /\ \A v \in verified : Vouched(v.otp, v.signedData)

OtpInv == TypeOK /\ CompareType /\ IssueInv /\ VouchInv

\* Initially no OTP has been issued and nothing vouched for.
LEMMA OtpInvInit == Init => OtpInv
<1> SUFFICES ASSUME Init PROVE IssueInv /\ VouchInv
  BY TypeInit DEF OtpInv
<1>1. \A h \in Handler : ~Issuing(h) /\ ~At(h, "compare")
  BY DEF Init, Issuing, At, Idle
<1>2. /\ \A o \in Otp : sent[o] = NoRecipient
      /\ verified = {} /\ field.hashedOtp = NoOtp
  BY DEF Init, NewField
<1> QED
  BY <1>1, <1>2 DEF IssueInv, VouchInv, Vouched

\* A step of one handler leaves the requests of the others alone.
LEMMA OthersKept ==
    ASSUME TypeOK, NEW h \in Handler, Serve(h)
    PROVE  /\ request' = [request EXCEPT ![h] = request'[h]]
           /\ \A g \in Handler \ {h} : request'[g] = request[g]
<1>1. request = [g \in Handler |-> request[g]]
  BY DEF TypeOK
<1>2. \E r : request' = [request EXCEPT ![h] = r]
  <2>1. (\E s : GoTo(h, s)) \/ Finish(h) => \E r : request' = [request EXCEPT ![h] = r]
    BY <1>1 DEF GoTo, Finish
  <2> QED
    BY <2>1 DEF Serve, GenerateOtp, shouldGenerateMobileOtp, SendOtp,
        updateHashForField, processAdminSmsCounts, VerifyOtp, CompareHash,
        ResetField, resetField
<1> QED
  BY <1>1, <1>2

\* Only the request that has generated an OTP sends it, and only once.
LEMMA SentOnce ==
    ASSUME TypeOK, IssueInv, [Next]_verificationVars
    PROVE  \A o \in Otp : sent[o] # NoRecipient => sent'[o] = sent[o]
<1>1. ASSUME NEW h \in Handler, SendOtp(h)
      PROVE  \A o \in Otp : sent[o] # NoRecipient => sent'[o] = sent[o]
  <2>1. sent[request[h].otp] = NoRecipient
    BY <1>1 DEF SendOtp, At, IssueInv, Issuing
  <2>2. \/ sent' = [sent EXCEPT ![request[h].otp] = request[h].recipient]
        \/ UNCHANGED sent
    BY <1>1 DEF SendOtp
  <2> QED
    BY <2>1, <2>2 DEF TypeOK
<1>2. UNCHANGED sent \/ \E h \in Handler : SendOtp(h)
  BY DEF Next, Serve, verificationVars, CreateTransaction, GenerateOtp,
      shouldGenerateMobileOtp, updateHashForField, processAdminSmsCounts,
      VerifyOtp, CompareHash, ResetField, resetField, Tick, RemoveTransaction
<1> QED
  BY <1>1, <1>2

\* A signature that is vouched for remains so.
LEMMA VouchStays ==
    ASSUME TypeOK, IssueInv, [Next]_verificationVars
    PROVE  \A hash \in Otp \cup {NoOtp}, data \in Signature :
              Vouched(hash, data) =>
                (hash # NoOtp => data \in Recipient /\ sent'[hash] = data)
  BY SentOnce, VerificationAssumption DEF Vouched

\* Every step preserves what a valid signature says of its answer.
LEMMA VouchNext ==
    ASSUME OtpInv, [Next]_verificationVars
    PROVE  VouchInv'
<1> USE VerificationAssumption, Records
<1>t. TypeOK /\ CompareType /\ IssueInv /\ VouchInv
  BY DEF OtpInv
<1>v. \A hash \in Otp \cup {NoOtp}, data \in Signature :
         Vouched(hash, data) =>
           (hash # NoOtp => data \in Recipient /\ sent'[hash] = data)
  BY <1>t, VouchStays
<1>f. /\ field.hashedOtp \in Otp \cup {NoOtp} /\ field.signedData \in Signature
      /\ \A h \in Handler : /\ request[h].hashedOtp \in Otp \cup {NoOtp}
                             /\ request[h].signedData \in Signature
      /\ \A v \in verified : v.otp \in Otp /\ v.signedData \in Signature
  BY <1>t DEF TypeOK
\* The field keeps its hash, loses it, or gets that of an OTP sent.
<1>1. Vouched(field.hashedOtp, field.signedData)'
  <2>1. CASE /\ field'.hashedOtp = field.hashedOtp
             /\ field'.signedData = field.signedData
    BY <2>1, <1>t, <1>v, <1>f DEF VouchInv, Vouched
  <2>2. CASE field'.hashedOtp = NoOtp
    BY <2>2 DEF Vouched
  <2>3. ASSUME NEW h \in Handler, At(h, "save"), SaveHash(h), UNCHANGED sent
        PROVE  Vouched(field.hashedOtp, field.signedData)'
    BY <2>3, <1>t DEF At, SaveHash, IssueInv, Issuing, Vouched
  <2>4. \/ /\ field'.hashedOtp = field.hashedOtp
           /\ field'.signedData = field.signedData
        \/ field'.hashedOtp = NoOtp
        \/ \E h \in Handler : At(h, "save") /\ SaveHash(h) /\ UNCHANGED sent
    <3>1. \/ UNCHANGED field \/ RemoveTransaction
          \/ \E h \in Handler :
                updateHashForField(h) \/ CompareHash(h) \/ resetField(h)
      BY DEF Next, Serve, verificationVars, CreateTransaction, GenerateOtp,
          shouldGenerateMobileOtp, SendOtp, processAdminSmsCounts, VerifyOtp,
          ResetField, Tick, RemoveTransaction
    <3>2. ASSUME NEW h \in Handler, CompareHash(h)
          PROVE  /\ field'.hashedOtp = field.hashedOtp
                 /\ field'.signedData = field.signedData
      BY <3>2, <1>t DEF CompareHash, incrementFieldRetries, TypeOK
    <3>3. ASSUME NEW h \in Handler, resetField(h)
          PROVE  field'.hashedOtp = NoOtp \/ field' = field
      BY <3>3 DEF resetField, NewField
    <3>4. ASSUME NEW h \in Handler, updateHashForField(h)
          PROVE  field' = field \/ (At(h, "save") /\ SaveHash(h) /\ UNCHANGED sent)
      BY <3>4 DEF updateHashForField
    <3>5. RemoveTransaction => field'.hashedOtp = NoOtp
      BY DEF RemoveTransaction, NewField
    <3> QED
      BY <3>1, <3>2, <3>3, <3>4, <3>5
  <2> QED
    BY <2>1, <2>2, <2>3, <2>4
\* A comparison begins with what the field holds.
<1>2. ASSUME NEW g \in Handler, At(g, "compare")'
      PROVE  Vouched(request[g].hashedOtp, request[g].signedData)'
  <2>1. CASE request'[g] = request[g]
    <3>1. Vouched(request[g].hashedOtp, request[g].signedData)
      BY <1>2, <2>1, <1>t DEF At, VouchInv
    <3> QED
      BY <2>1, <3>1, <1>v, <1>f DEF Vouched
  <2>2. ASSUME NEW typed \in NoOtp .. generated, VerifyOtp(g, typed)
        PROVE  Vouched(request[g].hashedOtp, request[g].signedData)'
    <3>1. /\ request'[g].hashedOtp = field.hashedOtp
          /\ request'[g].signedData = field.signedData
          /\ UNCHANGED sent
      BY <2>2, <1>t DEF VerifyOtp, TypeOK, Idle
    <3> QED
      BY <3>1, <1>t DEF VouchInv, Vouched
  <2>3. request'[g] = request[g] \/ \E typed \in NoOtp .. generated : VerifyOtp(g, typed)
    <3>1. CASE Serve(g)
      <4>1. CASE (\E s \in Step \ {"compare"} : GoTo(g, s)) \/ Finish(g)
        BY <4>1, <1>2, <1>t DEF GoTo, Finish, At, Idle, TypeOK
      <4>2. ASSUME NEW r \in Recipient, GenerateOtp(g, r)
            PROVE  FALSE
        BY <4>2, <1>2, <1>t DEF GenerateOtp, At, Idle, TypeOK
      <4> QED
        BY <3>1, <4>1, <4>2 DEF Serve, shouldGenerateMobileOtp, SendOtp,
            updateHashForField, processAdminSmsCounts, CompareHash, ResetField,
            resetField, Step
    <3>2. ASSUME NEW h \in Handler \ {g}, Serve(h)
          PROVE  request'[g] = request[g]
      BY <3>2, <1>t, OthersKept
    <3>3. CASE UNCHANGED request
      BY <3>3
    <3> QED
      BY <3>1, <3>2, <3>3 DEF Next, verificationVars, CreateTransaction, Tick,
          RemoveTransaction
  <2> QED
    BY <2>1, <2>2, <2>3
\* The signature handed out is the one that was read with the hash.
<1>3. ASSUME NEW v \in verified'
      PROVE  Vouched(v.otp, v.signedData)'
  <2>1. CASE v \in verified
    BY <2>1, <1>t, <1>v, <1>f DEF VouchInv, Vouched
  <2>2. ASSUME NEW h \in Handler, CompareHash(h), v \notin verified
        PROVE  Vouched(v.otp, v.signedData)'
    <3>1. /\ v.otp = request[h].hashedOtp /\ v.signedData = request[h].signedData
          /\ UNCHANGED sent
      BY <2>2, <1>3 DEF CompareHash, ReadSignature
    <3> QED
      BY <2>2, <3>1, <1>t DEF CompareHash, VouchInv, Vouched
  <2>3. verified' = verified \/ \E h \in Handler : CompareHash(h)
    BY DEF Next, Serve, verificationVars, CreateTransaction, GenerateOtp,
        shouldGenerateMobileOtp, SendOtp, updateHashForField,
        processAdminSmsCounts, VerifyOtp, ResetField, resetField, Tick,
        RemoveTransaction
  <2> QED
    BY <2>1, <2>2, <2>3, <1>3
<1> QED
  BY <1>1, <1>2, <1>3 DEF VouchInv

\* How a request comes to be issuing an OTP, or goes on doing so.
IssueStep(g) ==
    \/ request'[g] = request[g]
    \/ /\ At(g, "form")
       /\ request'[g] = [request[g] EXCEPT !.pc = "send"]
       /\ UNCHANGED <<sent, generated>>
    \/ /\ At(g, "send")
       /\ request'[g] = [request[g] EXCEPT !.pc = "save"]
       /\ sent' = [sent EXCEPT ![request[g].otp] = request[g].recipient]
       /\ UNCHANGED generated
    \/ /\ request'[g].pc \in {"form", "send"}
       /\ request'[g].otp = generated + 1 /\ request'[g].recipient \in Recipient
       /\ generated + 1 \in Otp /\ generated' = generated + 1
       /\ UNCHANGED sent

\* A handler that issues an OTP after a step did so before, or starts to.
LEMMA IssueSteps ==
    ASSUME TypeOK, [Next]_verificationVars, NEW g \in Handler, Issuing(g)'
    PROVE  IssueStep(g)
<1>1. CASE Serve(g)
  <2>1. ASSUME NEW r \in Recipient, GenerateOtp(g, r)
        PROVE  IssueStep(g)
    <3>1. g \in DOMAIN request /\ generated + 1 \in Otp
      BY <2>1, VerificationAssumption DEF GenerateOtp, TypeOK, Otp
    <3>2. /\ generated' = generated + 1 /\ UNCHANGED sent
          /\ request'[g].pc \in {"form", "send"}
          /\ request'[g].otp = generated + 1 /\ request'[g].recipient = r
      BY <2>1, <3>1 DEF GenerateOtp, Idle
    <3> QED
      BY <3>1, <3>2 DEF IssueStep
  <2>2. ASSUME NEW step \in {"quota", "reset"}, GoTo(g, step)
        PROVE  FALSE
    BY <2>2 DEF GoTo, Issuing, TypeOK
  <2>3. ASSUME Finish(g)
        PROVE  FALSE
    BY <2>3 DEF Finish, Issuing, Idle, TypeOK
  <2>4. CASE shouldGenerateMobileOtp(g)
    BY <2>3, <2>4 DEF shouldGenerateMobileOtp, GoTo, IssueStep, At, TypeOK
  <2>5. CASE SendOtp(g)
    BY <2>3, <2>5 DEF SendOtp, GoTo, IssueStep, At, TypeOK
  <2>6. ASSUME NEW typed \in NoOtp .. generated, VerifyOtp(g, typed)
        PROVE  FALSE
    BY <2>6 DEF VerifyOtp, Issuing, Idle, TypeOK
  <2> QED
    BY <1>1, <2>1, <2>2, <2>3, <2>4, <2>5, <2>6
    DEF Serve, updateHashForField, processAdminSmsCounts, CompareHash,
        ResetField, resetField
<1>2. ASSUME NEW h \in Handler \ {g}, Serve(h)
      PROVE  IssueStep(g)
  BY <1>2, OthersKept DEF IssueStep
<1>3. CASE UNCHANGED request
  BY <1>3 DEF IssueStep
<1> QED
  BY <1>1, <1>2, <1>3 DEF Next, verificationVars, CreateTransaction, Tick,
      RemoveTransaction

\* Two requests do not move in the same step.
LEMMA OneMoves ==
    ASSUME TypeOK, [Next]_verificationVars, NEW g \in Handler,
           NEW h \in Handler \ {g}, request'[g] # request[g]
    PROVE  request'[h] = request[h]
  BY OthersKept DEF Next, verificationVars, CreateTransaction, Tick,
     RemoveTransaction

\* An OTP is generated, or an OTP is sent, or neither.
LEMMA SentByIssuer ==
    ASSUME TypeOK, [Next]_verificationVars
    PROVE  /\ generated' \in {generated, generated + 1}
           /\ \/ UNCHANGED sent
              \/ \E h \in Handler :
                    /\ At(h, "send") /\ request'[h] # request[h]
                    /\ UNCHANGED generated
                    /\ sent' = [sent EXCEPT ![request[h].otp] =
                                             request[h].recipient]
<1>1. ASSUME NEW h \in Handler, SendOtp(h)
      PROVE  /\ request'[h] # request[h] /\ At(h, "send") /\ UNCHANGED generated
             /\ \/ UNCHANGED sent
                \/ sent' = [sent EXCEPT ![request[h].otp] = request[h].recipient]
  BY <1>1 DEF SendOtp, GoTo, Finish, At, Idle, TypeOK
<1>2. UNCHANGED sent \/ \E h \in Handler : SendOtp(h)
  BY DEF Next, Serve, verificationVars, CreateTransaction, GenerateOtp,
      shouldGenerateMobileOtp, updateHashForField, processAdminSmsCounts,
      VerifyOtp, CompareHash, ResetField, resetField, Tick, RemoveTransaction
<1>3. generated' \in {generated, generated + 1}
  BY DEF Next, Serve, verificationVars, CreateTransaction, GenerateOtp,
      shouldGenerateMobileOtp, SendOtp, updateHashForField,
      processAdminSmsCounts, VerifyOtp, CompareHash, ResetField, resetField,
      Tick, RemoveTransaction
<1> QED
  BY <1>1, <1>2, <1>3

\* Every step preserves what is known of the OTPs being issued.
LEMMA IssueNext ==
    ASSUME TypeOK, IssueInv, [Next]_verificationVars
    PROVE  IssueInv'
<1> USE VerificationAssumption
<1>t. /\ generated \in Nat /\ generated' \in {generated, generated + 1}
      /\ sent \in [Otp -> Signature] /\ generated \in 0 .. MaxOtps
      /\ \A h \in Handler : request[h] \in RequestType
  BY SentByIssuer DEF TypeOK, RequestType
<1>o. \A h \in Handler : Issuing(h) => request[h].otp \in Otp
  BY <1>t DEF IssueInv, Otp
\* What is sent to somebody else leaves the OTP of g as it was.
<1>1. ASSUME NEW g \in Handler, Issuing(g), request'[g] = request[g]
      PROVE  sent'[request[g].otp] = sent[request[g].otp]
  BY <1>1, <1>t, <1>o, SentByIssuer DEF IssueInv, Issuing, At
<1>2. ASSUME NEW g \in Handler, Issuing(g)'
      PROVE  /\ request'[g].otp \in 1 .. generated'
             /\ request'[g].recipient \in Recipient
             /\ request'[g].pc # "save" => sent'[request'[g].otp] = NoRecipient
             /\ request'[g].pc = "save" =>
                   sent'[request'[g].otp] = request'[g].recipient
  <2>1. CASE request'[g] = request[g]
    BY <2>1, <1>1, <1>2, <1>t DEF IssueInv, Issuing
  <2>2. CASE /\ At(g, "form")
             /\ request'[g] = [request[g] EXCEPT !.pc = "send"]
             /\ UNCHANGED <<sent, generated>>
    BY <2>2, <1>t DEF IssueInv, Issuing, At, RequestType
  <2>3. CASE /\ At(g, "send")
             /\ request'[g] = [request[g] EXCEPT !.pc = "save"]
             /\ sent' = [sent EXCEPT ![request[g].otp] = request[g].recipient]
             /\ UNCHANGED generated
    BY <2>3, <1>t, <1>o DEF IssueInv, Issuing, At, RequestType
  <2>4. CASE /\ request'[g].pc \in {"form", "send"}
             /\ request'[g].otp = generated + 1
             /\ request'[g].recipient \in Recipient
             /\ generated + 1 \in Otp /\ generated' = generated + 1
             /\ UNCHANGED sent
    BY <2>4, <1>t DEF IssueInv
  <2> QED
    BY <1>2, <2>1, <2>2, <2>3, <2>4, IssueSteps DEF IssueStep
<1>3. ASSUME NEW g \in Handler, NEW h \in Handler, g # h, Issuing(g)', Issuing(h)'
      PROVE  request'[g].otp # request'[h].otp
  <2>1. \A i \in {g, h} :
           \/ Issuing(i) /\ request'[i].otp = request[i].otp
           \/ /\ request'[i].otp = generated + 1
              /\ request'[i] # request[i] \/ Issuing(i)
    BY <1>3, <1>t, IssueSteps DEF IssueStep, Issuing, At, RequestType
  <2>2. request'[g] = request[g] \/ request'[h] = request[h]
    BY <1>3, OneMoves
  <2> QED
    BY <1>3, <2>1, <2>2, <1>t DEF IssueInv, Issuing
<1>4. ASSUME NEW o \in Otp, o > generated'
      PROVE  sent'[o] = NoRecipient
  <2>1. o \in Nat /\ o > generated
    BY <1>4, <1>t DEF Otp
  <2>2. \A h \in Handler : Issuing(h) => request[h].otp # o
    BY <2>1, <1>t DEF IssueInv
  <2> QED
    BY <2>1, <2>2, <1>t, SentByIssuer DEF IssueInv, At, Issuing
<1> QED
  BY <1>2, <1>3, <1>4 DEF IssueInv

\* The inductive invariant: an OTP is sent by the request that has generated
\* it, and a hash is kept with the signature of whoever was sent the OTP.
THEOREM OtpsVouched == Spec => []OtpInv
<1>1. OtpInv /\ [Next]_verificationVars => OtpInv'
  BY TypeNext, IssueNext, VouchNext DEF OtpInv
<1> QED
  BY OtpInvInit, <1>1, PTL DEF Spec

\* Whatever overlaps with the comparison of an OTP, the signature that is
\* handed out is of the recipient which was sent it.
THEOREM SignaturesVouch == Spec => []SignatureIsOfRecipient
<1>1. OtpInv => SignatureIsOfRecipient
  BY Records DEF OtpInv, TypeOK, VouchInv, Vouched, SignatureIsOfRecipient
<1> QED
  BY OtpsVouched, <1>1, PTL

-----------------------------------------------------------------------------
(* The limits.                                                              *)

Issuers == {h \in Handler : Issuing(h)}

\* The requests of OTPs, with those under way.
RequestsInv ==
    field.otpRequests + Cardinality(Issuers)
        <= MaxOtpRequests - 1 + Cardinality(Handler)

\* The sizes of sets of handlers, as the counting below needs them.
LEMMA FiniteHandlers ==
    ASSUME NEW S \in SUBSET Handler
    PROVE  /\ IsFiniteSet(S) /\ Cardinality(S) \in Nat
           /\ Cardinality(Handler) \in Nat
           /\ Cardinality(S) <= Cardinality(Handler)
           /\ \A T \in SUBSET S : Cardinality(T) <= Cardinality(S)
           /\ \A h \in S : \A T \in SUBSET (S \ {h}) :
                 Cardinality(T) <= Cardinality(S) - 1
<1>1. IsFiniteSet(Handler) /\ Cardinality(Handler) \in Nat
  BY VerificationAssumption, FS_CardinalityType
<1>2. IsFiniteSet(S) /\ Cardinality(S) <= Cardinality(Handler)
  BY <1>1, FS_Subset
<1>3. Cardinality(S) \in Nat
  BY <1>2, FS_CardinalityType
<1>4. ASSUME NEW h \in S
      PROVE  IsFiniteSet(S \ {h}) /\ Cardinality(S \ {h}) = Cardinality(S) - 1
  BY <1>2, FS_RemoveElement
<1>5. ASSUME NEW h \in S, NEW T \in SUBSET (S \ {h})
      PROVE  Cardinality(T) <= Cardinality(S) - 1
  <2>1. IsFiniteSet(S \ {h}) /\ Cardinality(S \ {h}) = Cardinality(S) - 1
    BY <1>4
  <2>2. Cardinality(T) <= Cardinality(S \ {h})
    BY <2>1, FS_Subset
  <2> QED
    BY <2>1, <2>2
<1>6. ASSUME NEW T \in SUBSET S
      PROVE  Cardinality(T) <= Cardinality(S)
  BY <1>2, FS_Subset
<1> QED
  BY <1>1, <1>2, <1>3, <1>5, <1>6

\* What a step may do to the number of requests and to those under way.
LEMMA RequestSteps ==
    ASSUME TypeOK, [Next]_verificationVars
    PROVE  \/ field'.otpRequests <= MaxOtpRequests - 1
           \/ /\ field'.otpRequests <= field.otpRequests
              /\ Issuers' \subseteq Issuers
           \/ \E h \in Issuers : /\ field'.otpRequests = field.otpRequests + 1
                                 /\ Issuers' \subseteq Issuers \ {h}
<1> USE VerificationAssumption
<1>t. field.otpRequests \in Nat /\ MaxOtpRequests \in Nat \ {0}
  BY DEF TypeOK
<1>1. ASSUME NEW h \in Handler, NEW r \in Recipient, GenerateOtp(h, r)
      PROVE  field'.otpRequests <= MaxOtpRequests - 1
  BY <1>1, <1>t DEF GenerateOtp, isOtpRequestCountExceeded
<1>2. CASE \A h \in Handler, r \in Recipient : ~GenerateOtp(h, r)
  <2>1. UNCHANGED generated
    BY <1>2 DEF Next, Serve, verificationVars, CreateTransaction,
        shouldGenerateMobileOtp, SendOtp, updateHashForField,
        processAdminSmsCounts, VerifyOtp, CompareHash, ResetField, resetField,
        Tick, RemoveTransaction
  <2>2. generated \in Nat
    BY DEF TypeOK
  <2>3. Issuers' \subseteq Issuers
    <3> SUFFICES ASSUME NEW g \in Handler, Issuing(g)'
                 PROVE  Issuing(g)
      BY DEF Issuers
    <3>1. IssueStep(g)
      BY IssueSteps
    <3> QED
      BY <3>1, <2>1, <2>2 DEF IssueStep, Issuing, At
  <2>4. ASSUME NEW h \in Handler, updateHashForField(h), SaveHash(h)
        PROVE  /\ field'.otpRequests = field.otpRequests + 1
               /\ h \in Issuers /\ h \notin Issuers'
    BY <2>4 DEF updateHashForField, SaveHash, Issuers, Issuing, At, GoTo,
                Finish, Idle, TypeOK
  <2>5. field'.otpRequests <= field.otpRequests
          \/ \E h \in Handler : updateHashForField(h) /\ SaveHash(h)
    <3>1. ASSUME NEW h \in Handler, CompareHash(h) \/ resetField(h)
          PROVE  field'.otpRequests = field.otpRequests
      BY <3>1 DEF CompareHash, incrementFieldRetries, resetField, TypeOK, NewField
    <3>2. RemoveTransaction => field'.otpRequests = 0
      BY DEF RemoveTransaction, NewField
    <3>3. ASSUME NEW h \in Handler, updateHashForField(h), ~SaveHash(h)
          PROVE  UNCHANGED field
      BY <3>3 DEF updateHashForField
    <3>4. \/ UNCHANGED field \/ RemoveTransaction
          \/ \E h \in Handler :
                updateHashForField(h) \/ CompareHash(h) \/ resetField(h)
      BY DEF Next, Serve, verificationVars, CreateTransaction, GenerateOtp,
          shouldGenerateMobileOtp, SendOtp, processAdminSmsCounts, VerifyOtp,
          ResetField, Tick, RemoveTransaction
    <3> QED
      BY <3>1, <3>2, <3>3, <3>4, <1>t
  <2> QED
    BY <2>3, <2>4, <2>5
<1> QED
  BY <1>1, <1>2

\* Every step preserves the count of the requests for an OTP.
LEMMA RequestsNext ==
    ASSUME TypeOK, TypeOK', RequestsInv, [Next]_verificationVars
    PROVE  RequestsInv'
<1>1. /\ field.otpRequests \in Nat /\ field'.otpRequests \in Nat
      /\ MaxOtpRequests \in Nat
  BY VerificationAssumption DEF TypeOK
<1>2. Issuers \in SUBSET Handler /\ Issuers' \in SUBSET Handler
  BY DEF Issuers
<1>3. /\ Cardinality(Issuers) \in Nat /\ Cardinality(Issuers') \in Nat
      /\ Cardinality(Handler) \in Nat
      /\ Cardinality(Issuers') <= Cardinality(Handler)
      /\ Issuers' \subseteq Issuers =>
            Cardinality(Issuers') <= Cardinality(Issuers)
      /\ \A h \in Issuers : Issuers' \subseteq Issuers \ {h} =>
            Cardinality(Issuers') <= Cardinality(Issuers) - 1
  BY <1>2, FiniteHandlers
<1> QED
  BY <1>1, <1>3, RequestSteps DEF RequestsInv

Comparing(o) == {h \in Handler : At(h, "compare") /\ request[h].hashedOtp = o}

\* No hash of o is saved yet.
Fresh(o) == o > generated \/ \E g \in Issuers : request[g].otp = o

\* The hash of o is or was in the field.
Used(o) == field.hashedOtp = o \/ compared[o] # 0 \/ Comparing(o) # {}

\* An OTP that is not saved yet is compared by nobody, the retries of the
\* field count the comparisons of its hash, and those under way are so many.
ComparedInv ==
    /\ \A o \in Otp : Fresh(o) => ~Used(o)
    /\ field.hashedOtp # NoOtp => /\ transaction = "stored"
                                  /\ compared[field.hashedOtp]
                                        <= field.hashRetries
    /\ \A o \in Otp : compared[o] + Cardinality(Comparing(o))
                         <= NumOtpRetries - 1 + Cardinality(Handler)

\* The two ways for a hash to come into use, and to be compared.
SavesHash(h) ==
    /\ At(h, "save") /\ SaveHash(h) /\ UNCHANGED compared
    /\ transaction' = "stored"
    /\ ~Issuing(h)' /\ \A o \in Otp : Comparing(o)' = Comparing(o)

StartsToCompare(h) ==
    /\ field.hashedOtp # NoOtp /\ field.hashRetries < NumOtpRetries
    /\ UNCHANGED <<field, transaction, compared>>
    /\ \A o \in Otp : o # field.hashedOtp => Comparing(o)' = Comparing(o)

Compares(h) ==
    \E o \in Otp :
        /\ h \in Comparing(o) /\ Comparing(o)' \subseteq Comparing(o) \ {h}
        /\ \A p \in Otp \ {o} : Comparing(p)' = Comparing(p)
        /\ UNCHANGED transaction
        /\ field'.hashedOtp = field.hashedOtp
        /\ field'.hashRetries >= field.hashRetries
        /\ \/ UNCHANGED compared
           \/ /\ compared' = [compared EXCEPT ![o] = @ + 1]
              /\ transaction = "stored" =>
                    field'.hashRetries = field.hashRetries + 1

NoComparison ==
    /\ UNCHANGED compared
    /\ \A o \in Otp : Comparing(o)' = Comparing(o)
    /\ field'.hashedOtp = NoOtp
          \/ (field' = field /\ (transaction' = transaction \/ transaction = "none"))

\* Every step is one of those the counting of comparisons tells apart.
LEMMA ComparisonSteps ==
    ASSUME TypeOK, CompareType, [Next]_verificationVars
    PROVE  \/ NoComparison
           \/ \E h \in Handler : SavesHash(h) \/ StartsToCompare(h) \/ Compares(h)
<1> USE VerificationAssumption
<1>t. /\ request \in [Handler -> RequestType] /\ field \in FieldRecord
      /\ NumOtpRetries \in Nat
  BY DEF TypeOK, RequestType, FieldRecord
\* A step of h that neither begins nor ends a comparison.
<1>s. ASSUME NEW h \in Handler, Serve(h), ~At(h, "compare"), ~At(h, "compare")'
      PROVE  \A o \in Otp : Comparing(o)' = Comparing(o)
  BY <1>s, OthersKept DEF Comparing, At
<1>1. CASE UNCHANGED <<request, compared>> /\ field'.hashedOtp = NoOtp
  BY <1>1 DEF NoComparison, Comparing, At
<1>2. CASE /\ UNCHANGED <<request, compared, field>>
           /\ transaction' = transaction \/ transaction = "none"
  BY <1>2 DEF NoComparison, Comparing, At
<1>3. ASSUME NEW h \in Handler, NEW typed \in NoOtp .. generated,
             VerifyOtp(h, typed)
      PROVE  StartsToCompare(h)
  <2>1. /\ HasHash /\ ~isOtpRetryExceeded
        /\ UNCHANGED <<field, transaction, compared>>
        /\ ~At(h, "compare") /\ request'[h].hashedOtp = field.hashedOtp
    BY <1>3, <1>t DEF VerifyOtp, At, Idle
  <2>2. \A g \in Handler \ {h} : request'[g] = request[g]
    BY <1>3, OthersKept DEF Serve
  <2>3. \A o \in Otp : o # field.hashedOtp => Comparing(o)' = Comparing(o)
    BY <2>1, <2>2 DEF Comparing, At
  <2> QED
    BY <2>1, <2>3, <1>t DEF StartsToCompare, HasHash, isOtpRetryExceeded, FieldRecord
<1>4. ASSUME NEW h \in Handler, CompareHash(h)
      PROVE  Compares(h)
  <2>1. PICK o \in Otp : o = request[h].hashedOtp
    BY <1>4 DEF CompareHash, CompareType
  <2>2. h \in Comparing(o) /\ ~At(h, "compare")'
    BY <1>4, <1>t, <2>1 DEF CompareHash, Comparing, At, Finish, Idle
  <2>3. \A g \in Handler \ {h} : request'[g] = request[g]
    BY <1>4, OthersKept DEF Serve
  <2>4. ASSUME NEW p \in Otp
        PROVE  Comparing(p)' = Comparing(p) \ {h}
    BY <2>2, <2>3 DEF Comparing, At
  <2>5. \A p \in Otp \ {o} : h \notin Comparing(p)
    BY <2>1 DEF Comparing
  <2>6. /\ Comparing(o)' \subseteq Comparing(o) \ {h}
        /\ \A p \in Otp \ {o} : Comparing(p)' = Comparing(p)
    <3>1. ASSUME NEW p \in Otp \ {o}
          PROVE  Comparing(p)' = Comparing(p)
      BY <2>4, <2>5
    <3> QED
      BY <2>4, <3>1
  <2>7. /\ field'.hashedOtp = field.hashedOtp
        /\ field'.hashRetries >= field.hashRetries
    BY <1>4, <1>t DEF CompareHash, incrementFieldRetries, FieldRecord
  <2>8. \/ UNCHANGED compared
        \/ /\ compared' = [compared EXCEPT ![o] = @ + 1]
           /\ transaction = "stored" => field'.hashRetries = field.hashRetries + 1
    BY <1>4, <1>t, <2>1 DEF CompareHash, incrementFieldRetries, FieldRecord
  <2>9. UNCHANGED transaction
    BY <1>4 DEF CompareHash
  <2> QED
    BY <2>2, <2>6, <2>7, <2>8, <2>9 DEF Compares
<1>5. ASSUME NEW h \in Handler, updateHashForField(h)
      PROVE  SavesHash(h) \/ NoComparison
  <2>1. At(h, "save") /\ UNCHANGED <<compared, transaction>>
    BY <1>5 DEF updateHashForField
  <2>2. ~At(h, "compare") /\ ~At(h, "compare")' /\ ~Issuing(h)'
    <3>1. CASE GoTo(h, "quota")
      BY <3>1, <2>1, <1>t DEF GoTo, At, Issuing
    <3>2. CASE Finish(h)
      BY <3>2, <2>1, <1>t DEF Finish, At, Idle, Issuing
    <3> QED
      BY <1>5, <3>1, <3>2 DEF updateHashForField
  <2>3. \A o \in Otp : Comparing(o)' = Comparing(o)
    BY <1>5, <1>s, <2>2 DEF Serve
  <2>4. UNCHANGED field \/ (At(h, "save") /\ SaveHash(h) /\ transaction = "stored")
    BY <1>5 DEF updateHashForField
  <2> QED
    BY <2>1, <2>2, <2>3, <2>4 DEF SavesHash, NoComparison
<1>6. ASSUME NEW h \in Handler, Serve(h),
             \A typed \in NoOtp .. generated : ~VerifyOtp(h, typed),
             ~CompareHash(h), ~updateHashForField(h)
      PROVE  NoComparison
  <2>1. ~At(h, "compare") /\ ~At(h, "compare")'
    <3>1. ASSUME NEW s \in Step \ {"compare"}, GoTo(h, s)
          PROVE  ~At(h, "compare")'
      BY <3>1, <1>t DEF GoTo, At
    <3>2. ASSUME Finish(h)
          PROVE  ~At(h, "compare")'
      BY <3>2, <1>t DEF Finish, At, Idle
    <3>3. ASSUME NEW r \in Recipient, GenerateOtp(h, r)
          PROVE  ~At(h, "compare")'
      BY <3>3, <1>t DEF GenerateOtp, At, Idle
    <3>4. ~At(h, "compare")'
      BY <1>6, <3>1, <3>2, <3>3 DEF Serve, shouldGenerateMobileOtp, SendOtp,
          processAdminSmsCounts, ResetField, resetField, Step
    <3> QED
      BY <1>6, <3>4 DEF Serve, GenerateOtp, shouldGenerateMobileOtp, SendOtp,
          processAdminSmsCounts, ResetField, resetField, At
  <2>2. UNCHANGED <<compared, transaction>>
    BY <1>6 DEF Serve, GenerateOtp, shouldGenerateMobileOtp, SendOtp,
        processAdminSmsCounts, ResetField, resetField
  <2>3. UNCHANGED field \/ field'.hashedOtp = NoOtp
    BY <1>6 DEF Serve, GenerateOtp, shouldGenerateMobileOtp, SendOtp,
        processAdminSmsCounts, ResetField, resetField, NewField
  <2> QED
    BY <1>6, <1>s, <2>1, <2>2, <2>3 DEF NoComparison
<1> QED
  BY <1>1, <1>2, <1>3, <1>4, <1>5, <1>6
  DEF Next, verificationVars, CreateTransaction, Tick, RemoveTransaction, Serve,
      NewField

\* An OTP that is still fresh after a step was fresh before it.
LEMMA FreshStays ==
    ASSUME TypeOK, [Next]_verificationVars, NEW o \in Otp, Fresh(o)'
    PROVE  Fresh(o)
<1>1. generated \in Nat /\ generated' \in {generated, generated + 1}
  BY SentByIssuer DEF TypeOK
<1>2. CASE o > generated'
  BY <1>1, <1>2 DEF Fresh, Otp
<1>3. ASSUME NEW g \in Handler, Issuing(g)', request'[g].otp = o
      PROVE  Fresh(o)
  <2>1. request \in [Handler -> RequestType]
    BY DEF TypeOK, RequestType
  <2>2. (Issuing(g) /\ request[g].otp = o) \/ o = generated + 1
    BY <1>3, <2>1, IssueSteps DEF IssueStep, Issuing, At, RequestType
  <2> QED
    BY <2>2, <1>1 DEF Fresh, Issuers
<1> QED
  BY <1>2, <1>3 DEF Fresh, Issuers

\* Every step preserves the bound on the comparisons with one OTP.
LEMMA ComparedNext ==
    ASSUME TypeOK, TypeOK', CompareType, IssueInv, ComparedInv,
           [Next]_verificationVars
    PROVE  ComparedInv'
<1> USE VerificationAssumption
<1> DEFINE B == NumOtpRetries - 1 + Cardinality(Handler)
<1>t. /\ compared \in [Otp -> Nat] /\ field \in FieldRecord
      /\ field'.hashRetries \in Nat /\ field'.hashedOtp \in Otp \cup {NoOtp}
      /\ NoOtp \notin Otp /\ NumOtpRetries \in Nat
  BY DEF TypeOK, FieldRecord, Otp, NoOtp
<1>c. Cardinality(Handler) \in Nat
  BY FiniteHandlers
<1>d. ASSUME NEW o \in Otp
      PROVE  /\ Cardinality(Comparing(o)) \in Nat
             /\ Cardinality(Comparing(o)') \in Nat
             /\ Cardinality(Comparing(o)') <= Cardinality(Handler)
             /\ \A h \in Comparing(o) :
                   Comparing(o)' \subseteq Comparing(o) \ {h} =>
                      Cardinality(Comparing(o)') <= Cardinality(Comparing(o)) - 1
  <2>1. Comparing(o) \in SUBSET Handler /\ Comparing(o)' \in SUBSET Handler
    BY DEF Comparing
  <2> QED
    BY <2>1, FiniteHandlers
<1>1. CASE NoComparison
  <2>1. \A o \in Otp : Fresh(o)' => ~Used(o)'
    BY <1>1, <1>t, FreshStays DEF NoComparison, ComparedInv, Used
  <2>2. (field'.hashedOtp # NoOtp) => /\ transaction' = "stored"
                                    /\ compared'[field'.hashedOtp]
                                          <= field'.hashRetries
    BY <1>1 DEF NoComparison, ComparedInv
  <2>3. \A o \in Otp : compared'[o] + Cardinality(Comparing(o)') <= B
    BY <1>1 DEF NoComparison, ComparedInv
  <2> QED
    BY <2>1, <2>2, <2>3 DEF ComparedInv
<1>2. ASSUME NEW h \in Handler, SavesHash(h)
      PROVE  ComparedInv'
  <2>t. generated \in 0 .. MaxOtps
    BY DEF TypeOK
  <2>i. Issuing(h) /\ request[h].otp \in 1 .. generated
    BY <1>2 DEF SavesHash, At, IssueInv, Issuing
  <2>1. PICK o \in Otp : o = request[h].otp
    BY <2>t, <2>i DEF Otp
  <2>2. /\ field'.hashedOtp = o /\ field'.hashRetries = 0
        /\ Issuing(h) /\ o <= generated /\ request'[h] # request[h]
    BY <1>2, <2>1 DEF SavesHash, SaveHash, At, IssueInv, Issuing, TypeOK
  <2>3. ~Used(o)
    BY <2>1, <2>2 DEF ComparedInv, Fresh, Issuers
  <2>4. ASSUME Fresh(o)'
        PROVE  FALSE
    <3>1. generated \in Nat /\ generated' \in {generated, generated + 1}
      BY SentByIssuer DEF TypeOK
    <3>2. PICK g \in Handler : Issuing(g)' /\ request'[g].otp = o
      BY <2>2, <2>4, <3>1 DEF Fresh, Issuers, Otp
    <3>3. g # h
      BY <3>2, <1>2 DEF SavesHash
    <3>4. request'[g] = request[g]
      BY <2>2, <3>3, OneMoves
    <3> QED
      BY <2>1, <2>2, <3>2, <3>3, <3>4 DEF IssueInv, Issuing
  <2>5. \A p \in Otp : Fresh(p)' => ~Used(p)'
    BY <1>2, <2>2, <2>4, FreshStays DEF SavesHash, ComparedInv, Used
  <2>6. transaction' = "stored" /\ compared'[o] = 0
    BY <1>2, <2>3 DEF SavesHash, Used
  <2>7. \A p \in Otp : compared'[p] + Cardinality(Comparing(p)') <= B
    BY <1>2 DEF SavesHash, ComparedInv
  <2> QED
    BY <2>2, <2>5, <2>6, <2>7 DEF ComparedInv
<1>3. ASSUME NEW h \in Handler, StartsToCompare(h)
      PROVE  ComparedInv'
  <2>1. PICK f \in Otp : f = field.hashedOtp
    BY <1>3, <1>t DEF StartsToCompare, FieldRecord
  <2>2. field.hashRetries \in Nat /\ compared[f] \in Nat
        /\ compared[f] <= NumOtpRetries - 1
    BY <1>3, <1>t, <2>1 DEF StartsToCompare, ComparedInv, FieldRecord
  <2>3. UNCHANGED <<field, transaction, compared>>
    BY <1>3 DEF StartsToCompare
  <2>4. ASSUME NEW p \in Otp
        PROVE  compared'[p] + Cardinality(Comparing(p)') <= B
    <3>1. CASE p = f
      BY <3>1, <2>2, <2>3, <1>c, <1>d, <1>t
    <3>2. CASE p # f
      BY <3>2, <2>1, <2>3, <1>3 DEF StartsToCompare, ComparedInv
    <3> QED
      BY <3>1, <3>2
  <2>5. \A p \in Otp : Fresh(p)' => ~Used(p)'
    BY <1>3, <2>1, <2>3, FreshStays DEF StartsToCompare, ComparedInv, Used
  <2> QED
    BY <2>3, <2>4, <2>5 DEF ComparedInv
<1>4. ASSUME NEW h \in Handler, Compares(h)
      PROVE  ComparedInv'
  <2>1. PICK o \in Otp :
           /\ h \in Comparing(o) /\ Comparing(o)' \subseteq Comparing(o) \ {h}
           /\ \A p \in Otp \ {o} : Comparing(p)' = Comparing(p)
           /\ UNCHANGED transaction
           /\ field'.hashedOtp = field.hashedOtp
           /\ field'.hashRetries >= field.hashRetries
           /\ \/ UNCHANGED compared
              \/ /\ compared' = [compared EXCEPT ![o] = @ + 1]
                 /\ transaction = "stored" =>
                       field'.hashRetries = field.hashRetries + 1
    BY <1>4 DEF Compares
  <2>2. /\ \A p \in Otp \ {o} : compared'[p] = compared[p]
        /\ compared'[o] \in {compared[o], compared[o] + 1}
    BY <2>1, <1>t
  <2>3. ASSUME NEW p \in Otp
        PROVE  compared'[p] + Cardinality(Comparing(p)') <= B
    <3>1. CASE p = o
      <4>1. Cardinality(Comparing(o)') <= Cardinality(Comparing(o)) - 1
        BY <2>1, <1>d
      <4>2. compared[o] + Cardinality(Comparing(o)) <= B
        BY DEF ComparedInv
      <4> QED
        BY <3>1, <4>1, <4>2, <2>2, <1>d, <1>t, <1>c
    <3>2. CASE p # o
      BY <3>2, <2>1, <2>2 DEF ComparedInv
    <3> QED
      BY <3>1, <3>2
  <2>4. ~Fresh(o)
    BY <2>1 DEF ComparedInv, Used
  <2>5. ASSUME NEW p \in Otp, Fresh(p)'
        PROVE  ~Used(p)'
    <3>1. p # o /\ ~Used(p)
      BY <2>4, <2>5, FreshStays DEF ComparedInv
    <3> QED
      BY <3>1, <2>1, <2>2 DEF Used
  <2>6. ASSUME field'.hashedOtp # NoOtp
        PROVE  /\ transaction' = "stored"
               /\ compared'[field'.hashedOtp] <= field'.hashRetries
    <3>1. PICK f \in Otp : f = field.hashedOtp
      BY <2>6, <2>1, <1>t DEF FieldRecord
    <3>2. /\ transaction = "stored" /\ compared[f] <= field.hashRetries
          /\ field.hashRetries \in Nat /\ compared[f] \in Nat
      BY <3>1, <2>6, <2>1, <1>t DEF ComparedInv, FieldRecord
    <3> QED
      BY <3>1, <3>2, <2>1, <2>2, <1>t
  <2> QED
    BY <2>3, <2>5, <2>6 DEF ComparedInv
<1> QED
  BY <1>1, <1>2, <1>3, <1>4, ComparisonSteps

LimitsInv == TypeOK /\ CompareType /\ IssueInv /\ VouchInv /\ RequestsInv
                /\ ComparedInv

\* Whatever requests overlap and whichever calls fail, the hash of an OTP is
\* compared at most NumOtpRetries - 1 times more than there are handlers, and
\* a transaction gets at most MaxOtpRequests - 1 OTPs more than there are.
THEOREM LimitsAlwaysHold == Spec => []LimitsHold
<1> USE VerificationAssumption
<1>1. Init => LimitsInv
  <2> SUFFICES ASSUME Init
               PROVE  LimitsInv
    OBVIOUS
  <2>1. TypeOK /\ CompareType /\ IssueInv /\ VouchInv
    BY TypeInit, OtpInvInit DEF OtpInv
  <2>2. Issuers = {}
    BY DEF Init, Issuers, Issuing, Idle
  <2>3. \A o \in Otp : Comparing(o) = {}
    BY DEF Init, Comparing, At, Idle
  <2>4. \A o \in Otp : ~Used(o)
    BY <2>3 DEF Init, Used, NewField, Otp, NoOtp
  <2>5. Cardinality({}) = 0 /\ Cardinality(Handler) \in Nat
    BY FS_EmptySet, FiniteHandlers
  <2>6. RequestsInv
    BY <2>2, <2>5 DEF RequestsInv, Init, NewField
  <2>7. ComparedInv
    <3>1. \A o \in Otp : compared[o] + Cardinality(Comparing(o))
                            <= NumOtpRetries - 1 + Cardinality(Handler)
      <4> TAKE o \in Otp
      <4>1. compared[o] = 0
        BY DEF Init
      <4>2. Cardinality(Comparing(o)) = 0
        BY <2>3, <2>5
      <4> QED
        BY <2>5, <4>1, <4>2
    <3> QED
      BY <2>4, <3>1 DEF ComparedInv, Init, NewField
  <2> QED
    BY <2>1, <2>6, <2>7 DEF LimitsInv
<1>2. LimitsInv /\ [Next]_verificationVars => LimitsInv'
  <2> SUFFICES ASSUME LimitsInv, [Next]_verificationVars
               PROVE  LimitsInv'
    OBVIOUS
  <2>1. TypeOK' /\ CompareType' /\ IssueInv'
    BY TypeNext, IssueNext DEF LimitsInv
  <2>2. VouchInv'
    BY VouchNext DEF LimitsInv, OtpInv
  <2>3. RequestsInv' /\ ComparedInv'
    BY <2>1, RequestsNext, ComparedNext DEF LimitsInv
  <2> QED
    BY <2>1, <2>2, <2>3 DEF LimitsInv
<1>3. LimitsInv => LimitsHold
  <2> SUFFICES ASSUME LimitsInv
               PROVE  LimitsHold
    OBVIOUS
  <2>1. /\ Cardinality(Handler) \in Nat /\ Cardinality(Issuers) \in Nat
        /\ \A o \in Otp : Cardinality(Comparing(o)) \in Nat
    BY FiniteHandlers DEF Issuers, Comparing
  <2> QED
    BY <2>1 DEF LimitsInv, LimitsHold, RequestsInv, ComparedInv, TypeOK
<1> QED
  BY <1>1, <1>2, <1>3, PTL DEF Spec


-----------------------------------------------------------------------------
(* The quota of SMSes.                                                      *)

\* New SMSes may be asked for: the field is enabled, the transaction stays.
Opened == verifiable /\ transaction # "removed"

\* The requests that have sent an SMS and have not looked at the count yet,
\* and those that send one whatever becomes of the field.
Uncounted == {h \in Handler : request[h].pc \in {"save", "quota"}}

Bound == {h \in Handler : At(h, "send") \/ (At(h, "form") /\ verifiable)}

\* While SMSes may be asked for, those beyond the limit are of requests that
\* have still to look at the count, or of failures; afterwards only those of
\* requests that are bound to send one can be added, and a request becomes
\* bound by a fault alone.
QuotaInv ==
    /\ fieldType = "email" => smsCount = 0
    /\ transaction = "none" => \A h \in Handler : At(h, "idle")
    /\ fieldType = "mobile" =>
          IF Opened
          THEN smsCount <= SmsLimit + Cardinality(Uncounted) + faults
          ELSE smsCount + Cardinality(Bound)
                  <= SmsLimit + Cardinality(Handler) + faults

\* What a step may do to the SMSes and to the requests that matter for them.
QuotaStep ==
    \/ /\ Opened' /\ Opened
       /\ \/ smsCount' <= SmsLimit
          \/ /\ smsCount' = smsCount /\ faults' >= faults
             /\ Uncounted \subseteq Uncounted'
          \/ /\ smsCount' = smsCount /\ faults' = faults + 1
             /\ \E h \in Uncounted : Uncounted \ {h} \subseteq Uncounted'
          \/ /\ smsCount' = smsCount + 1 /\ faults' = faults
             /\ \E h \in Uncounted' : Uncounted \subseteq Uncounted' \ {h}
          \/ /\ smsCount' = smsCount + 1 /\ faults' = faults + 1
             /\ Uncounted \subseteq Uncounted'
    \/ /\ ~Opened' /\ Opened
       /\ smsCount' = smsCount /\ faults' >= faults
       /\ Bound' \cap Uncounted = {}
    \/ /\ ~Opened' /\ ~Opened /\ faults' >= faults
       /\ \/ smsCount' = smsCount /\ Bound' \subseteq Bound
          \/ /\ smsCount' = smsCount + 1
             /\ \E h \in Bound : Bound' \subseteq Bound \ {h}
    \/ /\ ~Opened' /\ ~Opened /\ faults' = faults + 1 /\ smsCount' = smsCount
       /\ \E h \in Handler : Bound' \subseteq Bound \cup {h}

\* The step of one handler, told by where it takes the handler.
LEMMA ServeMoves ==
    ASSUME TypeOK, NEW h \in Handler, Serve(h)
    PROVE  /\ \A g \in Handler \ {h} : request'[g] = request[g]
           /\ \A s \in Step : GoTo(h, s) => request'[h].pc = s
           /\ Finish(h) => request'[h].pc = "idle"
  BY OthersKept DEF GoTo, Finish, Idle, TypeOK

\* Every step for a mobile field is one of those the quota tells apart.
LEMMA QuotaSteps ==
    ASSUME TypeOK, QuotaInv, fieldType = "mobile", [Next]_verificationVars
    PROVE  QuotaStep
<1>t. /\ smsCount \in Nat /\ faults \in Nat /\ SmsLimit \in Nat
      /\ request \in [Handler -> RequestType] /\ verifiable \in BOOLEAN
  BY VerificationAssumption DEF TypeOK, RequestType
<1> DEFINE pc(h) == request[h].pc
\* A step that leaves the count and the field alone.
<1>1. ASSUME smsCount' = smsCount, faults' >= faults,
             verifiable' = verifiable,
             transaction' = transaction \/ transaction' = "stored",
             transaction = "removed" => transaction' = "removed",
             Uncounted \subseteq Uncounted', ~Opened => Bound' \subseteq Bound
      PROVE  QuotaStep
  <2>1. Opened' <=> Opened
    BY <1>1, <1>t DEF Opened
  <2> QED
    BY <1>1, <2>1 DEF QuotaStep
<1>2. ASSUME UNCHANGED <<request, smsCount, faults, verifiable>>
      PROVE  Uncounted' = Uncounted /\ Bound' = Bound
  BY <1>2 DEF Uncounted, Bound, At
<1>3. CASE CreateTransaction \/ Tick \/ UNCHANGED verificationVars
  BY <1>1, <1>2, <1>3, <1>t DEF CreateTransaction, Tick, verificationVars
<1>4. CASE RemoveTransaction
  <2>1. /\ UNCHANGED <<request, smsCount, faults, verifiable>>
        /\ transaction = "stored" /\ transaction' = "removed"
    BY <1>4 DEF RemoveTransaction
  <2>2. Bound' \cap Uncounted = {}
    BY <1>2, <2>1 DEF Uncounted, Bound, At
  <2>3. CASE Opened
    BY <2>1, <2>2, <2>3, <1>t DEF QuotaStep, Opened
  <2>4. CASE ~Opened
    BY <1>2, <2>1, <2>4, <1>t DEF QuotaStep, Opened
  <2> QED
    BY <2>3, <2>4
<1>5. ASSUME NEW h \in Handler, Serve(h) PROVE QuotaStep
  <2>1. /\ \A g \in Handler \ {h} : request'[g] = request[g]
        /\ \A s \in Step : GoTo(h, s) => request'[h].pc = s
        /\ Finish(h) => request'[h].pc = "idle"
    BY <1>5, ServeMoves
  <2>2. transaction' = transaction
    BY <1>5 DEF Serve, GenerateOtp, shouldGenerateMobileOtp, SendOtp,
        updateHashForField, processAdminSmsCounts, VerifyOtp, CompareHash,
        ResetField, resetField
\* The handler does not send an SMS and does not end one that was sent.
  <2>3. ASSUME smsCount' = smsCount, faults' \in {faults, faults + 1},
               verifiable' = verifiable,
               pc(h) \in {"save", "quota"} => request'[h].pc \in {"save", "quota"},
               request'[h].pc \in {"form", "send"} =>
                  Opened \/ h \in Bound
        PROVE  QuotaStep
    <3>1. Uncounted \subseteq Uncounted'
      BY <2>1, <2>3 DEF Uncounted
    <3>2. ~Opened => Bound' \subseteq Bound
      BY <2>1, <2>3 DEF Bound, At
    <3> QED
      BY <1>1, <1>t, <2>2, <2>3, <3>1, <3>2
  <2>4. ASSUME NEW r \in Recipient, GenerateOtp(h, r)
        PROVE  QuotaStep
    <3>1. /\ pc(h) = "idle" /\ UNCHANGED <<smsCount, faults, verifiable>>
          /\ transaction = "stored" /\ request'[h].pc = "form"
      BY <2>4, <1>t DEF GenerateOtp, At, ValidTransaction, Idle
    <3>2. CASE verifiable
      BY <2>3, <3>1, <3>2 DEF Opened
    <3>3. CASE ~verifiable
      <4>1. Uncounted \subseteq Uncounted' /\ Bound' \subseteq Bound
        BY <2>1, <3>1, <3>3 DEF Uncounted, Bound, At
      <4> QED
        BY <1>1, <1>t, <2>2, <3>1, <4>1
    <3> QED
      BY <3>2, <3>3
  <2>5. CASE shouldGenerateMobileOtp(h)
    <3>1. /\ pc(h) = "form" /\ UNCHANGED <<smsCount, verifiable>>
          /\ \/ request'[h].pc = "idle" /\ faults' = faults
             \/ request'[h].pc = "send" /\ verifiable /\ faults' = faults
             \/ request'[h].pc = "send" /\ ~verifiable /\ faults' = faults + 1
      BY <2>1, <2>5 DEF shouldGenerateMobileOtp, At, Step, Fault
    <3>2. CASE faults' = faults
      BY <2>3, <3>1, <3>2, <1>t DEF Bound, At
\* The node that was asked lags behind.
    <3>3. CASE ~verifiable /\ faults' = faults + 1
      <4>1. Bound' \subseteq Bound \cup {h}
        BY <2>1, <3>1, <3>3 DEF Bound, At
      <4>2. ~Opened /\ ~Opened'
        BY <3>1, <3>3 DEF Opened
      <4> QED
        BY <3>1, <3>3, <4>1, <4>2 DEF QuotaStep
    <3> QED
      BY <3>1, <3>2, <3>3, <1>t
  <2>6. CASE SendOtp(h)
    <3>1. /\ pc(h) = "send" /\ smsCount' = smsCount + 1
          /\ verifiable' = verifiable
          /\ \/ request'[h].pc = "save" /\ faults' = faults
             \/ request'[h].pc = "idle" /\ faults' = faults + 1
      BY <2>1, <2>6 DEF SendOtp, At, Step, Fault
    <3>2. h \in Bound /\ Bound' \subseteq Bound \ {h}
      BY <2>1, <3>1 DEF Bound, At
    <3>3. h \notin Uncounted /\ Uncounted \subseteq Uncounted'
      BY <2>1, <3>1 DEF Uncounted
    <3>4. request'[h].pc = "save" => h \in Uncounted'
      BY DEF Uncounted
    <3>5. Opened' <=> Opened
      BY <2>2, <3>1 DEF Opened
    <3>6. CASE ~Opened
      BY <3>1, <3>2, <3>5, <3>6, <1>t DEF QuotaStep
    <3>7. CASE Opened
      BY <3>1, <3>3, <3>4, <3>5, <3>7 DEF QuotaStep
    <3> QED
      BY <3>6, <3>7
\* The handler ends, and a failure makes up for the count it does not check.
  <2>7. ASSUME smsCount' = smsCount, verifiable' = verifiable,
               pc(h) \in {"save", "quota"}, request'[h].pc = "idle",
               faults' = faults + 1
        PROVE  QuotaStep
    <3>1. h \in Uncounted /\ Uncounted \ {h} \subseteq Uncounted'
      BY <2>1, <2>7 DEF Uncounted
    <3>2. Bound' \subseteq Bound
      BY <2>1, <2>7 DEF Bound, At
    <3>3. Opened' <=> Opened
      BY <2>2, <2>7 DEF Opened
    <3>4. CASE Opened
      BY <2>7, <3>1, <3>3, <3>4 DEF QuotaStep
    <3>5. CASE ~Opened
      BY <2>7, <3>2, <3>3, <3>5, <1>t DEF QuotaStep
    <3> QED
      BY <3>4, <3>5
  <2>8. CASE updateHashForField(h)
    <3>1. /\ pc(h) = "save" /\ UNCHANGED <<smsCount, verifiable>>
          /\ \/ request'[h].pc = "quota" /\ faults' = faults
             \/ /\ request'[h].pc = "idle" /\ faults' = faults
                /\ transaction # "stored"
             \/ request'[h].pc = "idle" /\ faults' = faults + 1
      BY <2>1, <2>8 DEF updateHashForField, At, Step, Fault
    <3>2. CASE request'[h].pc = "quota" /\ faults' = faults
      BY <2>3, <3>1, <3>2
    <3>3. CASE /\ request'[h].pc = "idle" /\ faults' = faults
               /\ transaction # "stored"
      <4>1. transaction = "removed"
        BY <3>1, <3>3 DEF QuotaInv, At, TypeOK
      <4>2. Bound' \subseteq Bound
        BY <2>1, <3>1, <3>3 DEF Bound, At
      <4> QED
        BY <2>2, <3>1, <3>3, <4>1, <4>2, <1>t DEF QuotaStep, Opened
    <3>4. CASE request'[h].pc = "idle" /\ faults' = faults + 1
      BY <2>7, <3>1, <3>4
    <3> QED
      BY <3>1, <3>2, <3>3, <3>4
  <2>9. CASE processAdminSmsCounts(h)
    <3>1. /\ pc(h) = "quota" /\ request'[h].pc = "idle" /\ smsCount' = smsCount
          /\ \/ ~verifiable' /\ faults' = faults
             \/ /\ smsCount <= SmsLimit /\ verifiable' = verifiable
                /\ faults' = faults
             \/ verifiable' = verifiable /\ faults' = faults + 1
      BY <1>t, <2>1, <2>9
      DEF processAdminSmsCounts, At, Fault, hasAdminExceededFreeSmsLimit
    <3>2. CASE ~verifiable' /\ faults' = faults
      <4>1. Bound' \subseteq Bound /\ Bound' \cap Uncounted = {}
        BY <2>1, <3>1, <3>2 DEF Bound, At, Uncounted
      <4>2. ~Opened'
        BY <3>2 DEF Opened
      <4> QED
        BY <3>1, <3>2, <4>1, <4>2, <1>t DEF QuotaStep
    <3>3. CASE /\ smsCount <= SmsLimit /\ verifiable' = verifiable
               /\ faults' = faults
      <4>1. Bound' \subseteq Bound
        BY <2>1, <3>1, <3>3 DEF Bound, At
      <4>2. Opened' <=> Opened
        BY <2>2, <3>3 DEF Opened
      <4> QED
        BY <3>1, <3>3, <4>1, <4>2, <1>t DEF QuotaStep
    <3>4. CASE verifiable' = verifiable /\ faults' = faults + 1
      BY <2>7, <3>1, <3>4
    <3> QED
      BY <3>1, <3>2, <3>3, <3>4
  <2>10. ASSUME NEW typed \in NoOtp .. generated, VerifyOtp(h, typed)
         PROVE  QuotaStep
    <3>1. /\ pc(h) = "idle" /\ request'[h].pc = "compare"
          /\ UNCHANGED <<smsCount, verifiable, faults>>
      BY <2>10, <1>t DEF VerifyOtp, At, Idle
    <3> QED
      BY <2>3, <3>1
  <2>11. CASE CompareHash(h) \/ ResetField(h) \/ resetField(h)
    <3>1. /\ pc(h) \in {"compare", "idle", "reset"}
          /\ request'[h].pc \in {"idle", "reset"}
          /\ UNCHANGED <<smsCount, verifiable>>
          /\ faults' \in {faults, faults + 1}
      BY <2>1, <2>11 DEF CompareHash, ResetField, resetField, At, Fault, Step
    <3> QED
      BY <2>3, <3>1
  <2> QED
    BY <1>5, <2>4, <2>5, <2>6, <2>8, <2>9, <2>10, <2>11 DEF Serve
<1> QED
  BY <1>3, <1>4, <1>5 DEF Next

\* Every step preserves the bound on the messages sent.
LEMMA QuotaNext ==
    ASSUME TypeOK, TypeOK', QuotaInv, [Next]_verificationVars
    PROVE  QuotaInv'
<1>t. /\ smsCount \in Nat /\ faults \in Nat /\ SmsLimit \in Nat
      /\ smsCount' \in Nat /\ faults' \in Nat
  BY VerificationAssumption DEF TypeOK
<1>1. fieldType' = fieldType
  BY DEF Next, Serve, verificationVars, CreateTransaction, GenerateOtp,
      shouldGenerateMobileOtp, SendOtp, updateHashForField,
      processAdminSmsCounts, VerifyOtp, CompareHash, ResetField, resetField,
      Tick, RemoveTransaction
<1>2. fieldType = "email" => smsCount' = smsCount
  BY DEF Next, Serve, verificationVars, CreateTransaction, GenerateOtp,
      shouldGenerateMobileOtp, SendOtp, updateHashForField,
      processAdminSmsCounts, VerifyOtp, CompareHash, ResetField, resetField,
      Tick, RemoveTransaction
<1>3. transaction' = "none" => \A h \in Handler : At(h, "idle")'
  <2> SUFFICES ASSUME transaction' = "none"
               PROVE  UNCHANGED <<transaction, request>>
    BY DEF QuotaInv, At
  <2>1. transaction = "none"
    BY DEF Next, Serve, verificationVars, CreateTransaction, GenerateOtp,
        shouldGenerateMobileOtp, SendOtp, updateHashForField,
        processAdminSmsCounts, VerifyOtp, CompareHash, ResetField, resetField,
        Tick, RemoveTransaction
  <2>2. \A h \in Handler : ~Serve(h)
    BY <2>1 DEF QuotaInv, At, Serve, GenerateOtp, shouldGenerateMobileOtp,
        SendOtp, updateHashForField, processAdminSmsCounts, VerifyOtp,
        CompareHash, ResetField, resetField, ValidTransaction
  <2> QED
    BY <2>1, <2>2 DEF Next, verificationVars, CreateTransaction, Tick,
        RemoveTransaction
<1>4. ASSUME fieldType = "mobile"
      PROVE  IF Opened'
             THEN smsCount' <= SmsLimit + Cardinality(Uncounted') + faults'
             ELSE smsCount' + Cardinality(Bound')
                     <= SmsLimit + Cardinality(Handler) + faults'
  <2>1. /\ Uncounted \in SUBSET Handler /\ Uncounted' \in SUBSET Handler
        /\ Bound \in SUBSET Handler /\ Bound' \in SUBSET Handler
    BY DEF Uncounted, Bound
  <2> DEFINE u == Cardinality(Uncounted)
             v == Cardinality(Uncounted')
             b == Cardinality(Bound)
             c == Cardinality(Bound')
             n == Cardinality(Handler)
  <2>2. u \in Nat /\ v \in Nat /\ b \in Nat /\ c \in Nat /\ n \in Nat
    BY <2>1, FiniteHandlers
  <2>3. /\ Uncounted \subseteq Uncounted' => u <= v
        /\ \A h \in Uncounted' : Uncounted \subseteq Uncounted' \ {h} => u <= v - 1
        /\ Bound' \subseteq Bound => c <= b
        /\ \A h \in Bound : Bound' \subseteq Bound \ {h} => c <= b - 1
    BY <2>1, FiniteHandlers
  <2>10. ASSUME NEW h \in Handler, Bound' \subseteq Bound \cup {h}
         PROVE  c <= b + 1
    <3>1. IsFiniteSet(Bound) /\ Bound \cup {h} \in SUBSET Handler
      BY <2>1, FiniteHandlers
    <3>2. Cardinality(Bound \cup {h}) \in {b, b + 1}
      BY <2>2, <3>1, FS_AddElement
    <3>3. c <= Cardinality(Bound \cup {h})
      BY <2>1, <2>10, <3>1, FiniteHandlers
    <3> QED
      BY <2>2, <3>2, <3>3
  <2>4. ASSUME NEW h \in Uncounted, Uncounted \ {h} \subseteq Uncounted'
        PROVE  u <= v + 1
    <3>1. IsFiniteSet(Uncounted)
      BY <2>1, FiniteHandlers
    <3>2. Cardinality(Uncounted \ {h}) = u - 1
      BY <3>1, FS_RemoveElement
    <3>3. Cardinality(Uncounted \ {h}) <= v
      BY <2>1, <2>4, FiniteHandlers
    <3> QED
      BY <2>2, <3>2, <3>3
  <2>5. ASSUME Bound' \cap Uncounted = {}
        PROVE  u + c <= n
    <3>1. /\ IsFiniteSet(Uncounted) /\ IsFiniteSet(Bound')
          /\ Uncounted \cup Bound' \in SUBSET Handler
          /\ Uncounted \cap Bound' = {}
      BY <2>1, <2>5, FiniteHandlers
    <3>2. Cardinality(Uncounted \cup Bound')
             = u + c - Cardinality(Uncounted \cap Bound')
      BY <3>1, FS_Union
    <3>3. Cardinality(Uncounted \cap Bound') = 0
      BY <3>1, FS_EmptySet
    <3>4. Cardinality(Uncounted \cup Bound') <= n
      BY <3>1, FiniteHandlers
    <3> QED
      BY <2>2, <3>2, <3>3, <3>4
  <2>6. /\ Opened => smsCount <= SmsLimit + u + faults
        /\ ~Opened => smsCount + b <= SmsLimit + n + faults
    BY <1>4 DEF QuotaInv
  <2>7. QuotaStep
    BY <1>4, QuotaSteps
  <2> HIDE DEF u, v, b, c, n
  <2>8. CASE Opened'
    <3> SUFFICES smsCount' <= SmsLimit + v + faults'
      BY <2>8 DEF v
    <3>1. Opened'
      BY <2>8
    <3>2. \/ smsCount' <= SmsLimit
          \/ /\ Opened
             /\ \/ smsCount' = smsCount /\ faults' >= faults /\ u <= v
                \/ smsCount' = smsCount /\ faults' = faults + 1 /\ u <= v + 1
                \/ smsCount' = smsCount + 1 /\ faults' = faults /\ u <= v - 1
                \/ smsCount' = smsCount + 1 /\ faults' = faults + 1 /\ u <= v
      BY <2>3, <2>4, <2>7, <3>1, Zenon DEF QuotaStep
    <3>3. Opened => smsCount <= SmsLimit + u + faults
      BY <2>6, Zenon
    <3>4. \A l, x, y, i, j, k, m \in Nat :
             /\ x <= l + k + i
             /\ \/ y = x /\ j >= i /\ k <= m
                \/ y = x /\ j = i + 1 /\ k <= m + 1
                \/ y = x + 1 /\ j = i /\ k <= m - 1
                \/ y = x + 1 /\ j = i + 1 /\ k <= m
             => y <= l + m + j
      OBVIOUS
    <3>5. \A l, y, j, m \in Nat : y <= l => y <= l + m + j
      OBVIOUS
    <3> QED
      BY <1>t, <2>2, <3>2, <3>3, <3>4, <3>5, Zenon
  <2>9. CASE ~Opened'
    <3> SUFFICES smsCount' + c <= SmsLimit + n + faults'
      BY <2>9 DEF c, n
    <3>1. ~Opened'
      BY <2>9
    <3>2. /\ faults' >= faults
          /\ \/ Opened /\ smsCount' = smsCount /\ u + c <= n
             \/ ~Opened /\ smsCount' = smsCount /\ c <= b
             \/ ~Opened /\ smsCount' = smsCount + 1 /\ c <= b - 1
             \/ ~Opened /\ smsCount' = smsCount /\ faults' = faults + 1 /\ c <= b + 1
      <4>1. faults' = faults + 1 => faults' >= faults
        BY <1>t
      <4> QED
        BY <2>3, <2>5, <2>7, <2>10, <3>1, <4>1, Zenon DEF QuotaStep
    <3>3. /\ Opened => smsCount <= SmsLimit + u + faults
          /\ ~Opened => smsCount + b <= SmsLimit + n + faults
      BY <2>6, Zenon
    <3>4. \A l, x, y, i, j, k, m, p \in Nat :
             x <= l + k + i /\ j >= i /\ y = x /\ k + m <= p
                => y + m <= l + p + j
      OBVIOUS
    <3>5. \A l, x, y, i, j, k, m, p \in Nat :
             /\ x + k <= l + p + i /\ j >= i
             /\ \/ y = x /\ m <= k
                \/ y = x + 1 /\ m <= k - 1
                \/ y = x /\ j = i + 1 /\ m <= k + 1
             => y + m <= l + p + j
      OBVIOUS
    <3>6. CASE Opened
      BY <1>t, <2>2, <3>2, <3>3, <3>4, <3>6, Zenon
    <3>7. CASE ~Opened
      BY <1>t, <2>2, <3>2, <3>3, <3>5, <3>7, Zenon
    <3> QED
      BY <3>6, <3>7
  <2> QED
    BY <2>8, <2>9
<1> QED
  BY <1>1, <1>2, <1>3, <1>4 DEF QuotaInv, TypeOK

\* Whatever requests overlap and whenever the transaction goes, the SMSes
\* exceed the limit by no more than the handlers, the failures, and the reads
\* of the form by a node that lags behind.
THEOREM QuotaAlwaysHolds == Spec => []QuotaHolds
<1>1. Init => QuotaInv
  <2> SUFFICES ASSUME Init PROVE QuotaInv
    OBVIOUS
  <2>1. Uncounted \in SUBSET Handler /\ Opened /\ smsCount = 0 /\ faults = 0
    BY DEF Init, Uncounted, Opened
  <2>2. Cardinality(Uncounted) \in Nat /\ SmsLimit \in Nat
    BY <2>1, FiniteHandlers, VerificationAssumption
  <2>3. smsCount <= SmsLimit + Cardinality(Uncounted) + faults
    BY <2>1, <2>2
  <2>4. \A h \in Handler : At(h, "idle")
    BY DEF Init, At, Idle
  <2> QED
    BY <2>1, <2>3, <2>4 DEF QuotaInv
<1>2. OtpInv /\ OtpInv' /\ QuotaInv /\ [Next]_verificationVars => QuotaInv'
  BY QuotaNext DEF OtpInv
<1>3. OtpInv /\ QuotaInv => QuotaHolds
  <2> SUFFICES ASSUME OtpInv, QuotaInv PROVE QuotaHolds
    OBVIOUS
  <2>1. /\ smsCount \in Nat /\ faults \in Nat /\ SmsLimit \in Nat
        /\ fieldType \in {"mobile", "email"}
    BY VerificationAssumption DEF OtpInv, TypeOK
  <2>2. Uncounted \in SUBSET Handler /\ Bound \in SUBSET Handler
    BY DEF Uncounted, Bound
  <2>3. /\ Cardinality(Uncounted) \in Nat /\ Cardinality(Bound) \in Nat
        /\ Cardinality(Handler) \in Nat
        /\ Cardinality(Uncounted) <= Cardinality(Handler)
    BY <2>2, FiniteHandlers
  <2> QED
    BY <2>1, <2>3 DEF QuotaInv, QuotaHolds
<1> QED
  BY <1>1, <1>2, <1>3, OtpsVouched, PTL DEF Spec

-----------------------------------------------------------------------------
(* The OTPs of administrators.                                              *)

\* The requests that have an OTP which is in no document yet.
Making(h) == serving[h].pc \in {"upsert", "insert"}

\* Those that send one, or have accepted one.
Sending(h) == ServingAt(h, "send")
Accepting(h) == serving[h].pc \in {"remove", "succeed"}

HandlerType ==
    \A h \in OtpHandler :
        /\ Making(h) \/ Sending(h) => /\ serving[h].otp \in 1 .. issued
                                      /\ serving[h].contact \in Target
        /\ Accepting(h) => /\ serving[h].otp \in AdminOtp
                           /\ serving[h].contact \in Target

\* An OTP belongs to one request that makes it, or to documents of one contact.
OwnerInv ==
    /\ \A t \in tokens : t.otp <= issued
    /\ \A t, u \in tokens : t.otp = u.otp => t = u
    /\ \A g, h \in OtpHandler : (Making(g) \/ Sending(g)) /\ (Making(h) \/ Sending(h))
          /\ g # h => serving[g].otp # serving[h].otp
    /\ \A h \in OtpHandler, t \in tokens : Making(h) => t.otp # serving[h].otp

\* The attempts counted in the document of an OTP cover all made on it.
TriedInv ==
    /\ \A o \in AdminOtp : tried[o] <= MaxOtpAttempts
    /\ \A t \in tokens : tried[t.otp] <= t.numOtpAttempts
    /\ \A o \in AdminOtp : o > issued => tried[o] = 0
    /\ \A h \in OtpHandler : Making(h) => tried[serving[h].otp] = 0

TokenInv == TokenTypeOK /\ HandlerType /\ OwnerInv /\ TriedInv

\* Initially no token has been sent and no handler is at work.
LEMMA TokenInvInit == TokenInit => TokenInv
  BY TokenAssumption DEF TokenInit, TokenInv, TokenTypeOK, HandlerType,
     OwnerInv, TriedInv, NotServing, AdminOtp, NoAdminOtp, Making, Sending,
     Accepting, ServingAt

\* Every step preserves the types of the login.
LEMMA TokenTypeStep ==
    ASSUME TokenInv, [TokenNext]_tokenVars
    PROVE  TokenTypeOK'
<1> USE TokenAssumption DEF TokenInv
<1>t. /\ \A t \in tokens : t \in Token /\ Incremented(t) \in Token
      /\ MaxOtpAttempts \in Nat /\ MaxAdminOtps \in Nat
  BY DEF TokenTypeOK, Token, Incremented, Capped
<1>1. ASSUME NEW h \in OtpHandler, NEW c \in Named, createOtp(h, c)
      PROVE  TokenTypeOK'
  BY <1>1, <1>t DEF createOtp, TokenTypeOK, Named, Target, AdminOtp
<1>2. ASSUME NEW h \in OtpHandler, upsertOtp(h)
      PROVE  TokenTypeOK'
  <2>1. ServingAt(h, "upsert") => NewToken(h) \in Token
    BY <1>t DEF HandlerType, NewToken, Token, ServingAt, Making, TokenTypeOK,
       AdminOtp
  <2>2. serving' \in [OtpHandler ->
          [pc : {"idle", "upsert", "insert", "send", "remove", "succeed"},
           otp : AdminOtp \cup {NoAdminOtp}, contact : Target \cup {NoContact}]]
    BY <1>2, <1>t DEF upsertOtp, ServeNext, StopServing, NotServing, TokenTypeOK
  <2>3. tokens' \subseteq Token
    BY <1>2, <2>1 DEF upsertOtp, TokenTypeOK
  <2> QED
    BY <1>2, <2>2, <2>3, <1>t DEF upsertOtp, TokenTypeOK, Failure
<1>3. ASSUME NEW h \in OtpHandler, insertOtp(h)
      PROVE  TokenTypeOK'
  <2>1. ServingAt(h, "insert") => NewToken(h) \in Token
    BY <1>t DEF HandlerType, NewToken, Token, ServingAt, Making, TokenTypeOK,
       AdminOtp
  <2> QED
    BY <1>3, <2>1 DEF insertOtp, ServeNext, TokenTypeOK
<1>4. ASSUME NEW h \in OtpHandler, sendOtp(h)
      PROVE  TokenTypeOK'
  BY <1>4, <1>t DEF sendOtp, StopServing, NotServing, TokenTypeOK, Failure,
     ServingAt
<1>5. ASSUME NEW h \in OtpHandler, NEW typed \in Typed, NEW c \in Named,
             verifyOtp(h, typed, c)
      PROVE  TokenTypeOK'
  <2>1. PICK t \in tokens :
          /\ tokens' = (tokens \ {t}) \cup {Incremented(t)}
          /\ \/ UNCHANGED <<serving, tried>>
             \/ /\ tried' = [tried EXCEPT ![t.otp] = @ + 1]
                /\ \/ UNCHANGED serving
                   \/ serving' = [serving EXCEPT ![h] =
                         [pc |-> "remove", otp |-> typed, contact |-> c]]
    BY <1>5 DEF verifyOtp
  <2>2. tokens' \subseteq Token /\ t.otp \in AdminOtp
    BY <2>1, <1>t DEF TokenTypeOK, Token
  <2>3. c \in Target /\ typed \in AdminOtp \cup {NoAdminOtp}
    BY DEF Named, Target, Typed
  <2>4. tried' \in [AdminOtp -> Nat]
    BY <2>1, <2>2 DEF TokenTypeOK
  <2>5. serving' \in [OtpHandler ->
          [pc : {"idle", "upsert", "insert", "send", "remove", "succeed"},
           otp : AdminOtp \cup {NoAdminOtp}, contact : Target \cup {NoContact}]]
    BY <2>1, <2>3 DEF TokenTypeOK
  <2> QED
    BY <1>5, <2>2, <2>4, <2>5, <1>t DEF verifyOtp, Failure, TokenTypeOK
<1>6. ASSUME NEW h \in OtpHandler, removeTokenOnSuccess(h)
      PROVE  TokenTypeOK'
  BY <1>6, <1>t DEF removeTokenOnSuccess, ServeNext, StopServing, NotServing,
     TokenTypeOK, Failure, ServingAt
<1>7. ASSUME NEW h \in OtpHandler, Succeed(h)
      PROVE  TokenTypeOK'
  <2>1. serving[h].otp \in AdminOtp /\ serving[h].contact \in Target
    BY <1>7 DEF Succeed, ServingAt, HandlerType, Accepting
  <2>2. accepted' \subseteq [otp : AdminOtp, contact : Target]
    BY <1>7, <2>1 DEF Succeed, TokenTypeOK
  <2> QED
    BY <1>7, <2>1, <2>2, <1>t DEF Succeed, StopServing, NotServing, TokenTypeOK,
       Failure
<1>8. CASE RemoveExpired
  BY <1>8, <1>t DEF RemoveExpired, TokenTypeOK
<1>9. CASE UNCHANGED tokenVars
  BY <1>9 DEF tokenVars, TokenTypeOK
<1> QED
  BY <1>1, <1>2, <1>3, <1>4, <1>5, <1>6, <1>7, <1>8, <1>9 DEF TokenNext

ServingRecord ==
    [pc : {"idle", "upsert", "insert", "send", "remove", "succeed"},
     otp : AdminOtp \cup {NoAdminOtp}, contact : Target \cup {NoContact}]

\* Every step preserves whom a token belongs to and how often it was tried.
LEMMA TokenInvNext ==
    ASSUME TokenInv, [TokenNext]_tokenVars
    PROVE  HandlerType' /\ OwnerInv' /\ TriedInv'
<1> USE TokenAssumption DEF TokenInv
<1>t. /\ serving \in [OtpHandler -> ServingRecord] /\ issued \in Nat
      /\ tried \in [AdminOtp -> Nat] /\ MaxOtpAttempts \in Nat /\ MaxAdminOtps \in Nat
      /\ \A t \in tokens : t \in Token /\ t.otp \in AdminOtp
                           /\ t.numOtpAttempts \in Nat
  BY DEF TokenTypeOK, ServingRecord, Token
<1>1. ASSUME NEW h \in OtpHandler, NEW c \in Named, createOtp(h, c)
      PROVE  HandlerType' /\ OwnerInv' /\ TriedInv'
  <2>1. /\ serving' = [serving EXCEPT ![h] =
                         [pc |-> "upsert", otp |-> issued + 1, contact |-> c]]
        /\ issued' = issued + 1 /\ issued + 1 \in AdminOtp /\ c \in Target
        /\ UNCHANGED <<tokens, tried>> /\ ServingAt(h, "idle")
    BY <1>1, <1>t DEF createOtp, Named, Target, AdminOtp, TokenTypeOK
  <2>2. HandlerType'
    BY <2>1, <1>t DEF HandlerType, Making, Sending, Accepting, ServingAt
  <2>3. /\ \A g \in OtpHandler \ {h} : serving'[g] = serving[g]
        /\ serving'[h].otp = issued + 1 /\ Making(h)'
        /\ \A g \in OtpHandler : Making(g) \/ Sending(g) => serving[g].otp <= issued
    BY <2>1, <1>t DEF HandlerType, Making
  <2>4. OwnerInv'
    <3>1. \A t \in tokens : t.otp <= issued /\ t.otp # issued + 1
      BY <1>t DEF OwnerInv
    <3>2. \A g \in OtpHandler, t \in tokens : Making(g)' => t.otp # serving'[g].otp
      BY <2>3, <3>1 DEF OwnerInv, Making
    <3>3. ASSUME NEW f \in OtpHandler, NEW g \in OtpHandler, f # g,
                 (Making(f) \/ Sending(f))', (Making(g) \/ Sending(g))'
          PROVE  serving'[f].otp # serving'[g].otp
      BY <2>3, <3>3, <1>t DEF OwnerInv, Making, Sending, ServingAt, HandlerType
    <3>4. \A t \in tokens' : t.otp <= issued'
      BY <2>1, <3>1, <1>t DEF AdminOtp
    <3> QED
      BY <2>1, <3>2, <3>3, <3>4 DEF OwnerInv
  <2>5. TriedInv'
    <3>1. \A g \in OtpHandler : Making(g)' => tried[serving'[g].otp] = 0
      BY <2>1, <2>3, <1>t DEF TriedInv, Making
    <3> QED
      BY <2>1, <3>1, <1>t DEF TriedInv, AdminOtp
  <2> QED
    BY <2>2, <2>4, <2>5
<1>2. ASSUME NEW h \in OtpHandler, Making(h), ServeNext(h, "send"),
             NEW D \in SUBSET tokens, tokens' = D \cup {NewToken(h)},
             UNCHANGED <<issued, tried>>
      PROVE  HandlerType' /\ OwnerInv' /\ TriedInv'
  <2>1. /\ serving'[h] = [serving[h] EXCEPT !.pc = "send"]
        /\ \A g \in OtpHandler \ {h} : serving'[g] = serving[g]
    BY <1>2, <1>t DEF ServeNext
  <2>2. /\ NewToken(h).otp = serving[h].otp /\ NewToken(h).numOtpAttempts = 0
        /\ serving[h].otp \in 1 .. issued /\ tried[serving[h].otp] = 0
    BY <1>2 DEF NewToken, HandlerType, TriedInv
  <2>3. HandlerType'
    BY <1>2, <2>1, <1>t DEF HandlerType, Making, Sending, Accepting, ServingAt,
       ServingRecord
  <2>4. OwnerInv'
    <3>1. \A t, u \in tokens' : t.otp = u.otp => t = u
      BY <1>2, <2>2 DEF OwnerInv
    <3>2. \A g \in OtpHandler, t \in tokens' : Making(g)' => t.otp # serving'[g].otp
      BY <1>2, <2>1, <2>2, <1>t DEF OwnerInv, Making, ServingRecord
    <3>3. \A t \in tokens' : t.otp <= issued'
      BY <1>2, <2>2 DEF OwnerInv
    <3>4. \A g \in OtpHandler :
             /\ serving'[g].otp = serving[g].otp
             /\ (Making(g) \/ Sending(g))' <=> (Making(g) \/ Sending(g))
      BY <1>2, <2>1, <1>t DEF Making, Sending, ServingAt, ServingRecord
    <3> QED
      BY <3>1, <3>2, <3>3, <3>4 DEF OwnerInv
  <2>5. TriedInv'
    BY <1>2, <2>1, <2>2, <1>t DEF TriedInv, Making, ServingRecord
  <2> QED
    BY <2>3, <2>4, <2>5
\* The request ends, or goes on with what it has; documents only go.
<1>3. ASSUME NEW h \in OtpHandler, UNCHANGED <<issued, tried>>,
             tokens' \in SUBSET tokens,
             \/ UNCHANGED serving
             \/ StopServing(h)
             \/ Accepting(h) /\ ServeNext(h, "succeed")
             \/ ServingAt(h, "upsert") /\ ServeNext(h, "insert")
      PROVE  HandlerType' /\ OwnerInv' /\ TriedInv'
  <2>1. /\ \A g \in OtpHandler \ {h} : serving'[g] = serving[g]
        /\ (Making(h) \/ Sending(h))' => /\ Making(h)' /\ Making(h)
                                         /\ serving'[h].otp = serving[h].otp
                                         /\ serving'[h].contact = serving[h].contact
           \/ serving' = serving
        /\ Accepting(h)' => /\ Accepting(h)
                            /\ serving'[h].otp = serving[h].otp
                            /\ serving'[h].contact = serving[h].contact
    <3>1. CASE UNCHANGED serving
      BY <3>1 DEF Accepting
    <3>2. CASE StopServing(h)
      BY <3>2, <1>t DEF StopServing, NotServing, Accepting, Making, Sending,
         ServingAt
    <3>3. CASE Accepting(h) /\ ServeNext(h, "succeed")
      BY <3>3, <1>t DEF ServeNext, Accepting, Making, Sending, ServingAt,
         ServingRecord
    <3>4. CASE ServingAt(h, "upsert") /\ ServeNext(h, "insert")
      BY <3>4, <1>t DEF ServeNext, Accepting, Making, Sending, ServingAt,
         ServingRecord
    <3> QED
      BY <1>3, <3>1, <3>2, <3>3, <3>4
  <2>2. \A g \in OtpHandler :
           /\ (Making(g) \/ Sending(g))' => /\ Making(g) \/ Sending(g)
                                            /\ Making(g)' => Making(g)
                                            /\ serving'[g].otp = serving[g].otp
                                            /\ serving'[g].contact = serving[g].contact
           /\ Accepting(g)' => /\ Accepting(g)
                               /\ serving'[g].otp = serving[g].otp
                               /\ serving'[g].contact = serving[g].contact
    BY <2>1 DEF Making, Sending, Accepting, ServingAt
  <2>3. HandlerType'
    BY <2>2, <1>3 DEF HandlerType
  <2>4. OwnerInv'
    BY <2>2, <1>3 DEF OwnerInv
  <2>5. TriedInv'
    BY <2>2, <1>3 DEF TriedInv
  <2> QED
    BY <2>3, <2>4, <2>5
<1>4. ASSUME NEW h \in OtpHandler, NEW typed \in Typed, NEW c \in Named,
             verifyOtp(h, typed, c)
      PROVE  HandlerType' /\ OwnerInv' /\ TriedInv'
  <2>1. PICK t \in tokens :
          /\ tokens' = (tokens \ {t}) \cup {Incremented(t)}
          /\ \/ UNCHANGED <<serving, tried>>
             \/ /\ Incremented(t).numOtpAttempts <= MaxOtpAttempts
                /\ tried' = [tried EXCEPT ![t.otp] = @ + 1]
                /\ \/ UNCHANGED serving
                   \/ /\ typed = t.otp
                      /\ serving' = [serving EXCEPT ![h] =
                            [pc |-> "remove", otp |-> typed, contact |-> c]]
    BY <1>4, <1>t DEF verifyOtp, Returned, HashesMatch, Incremented, Capped,
       Token
  <2>2. ServingAt(h, "idle") /\ UNCHANGED issued /\ c \in Target
    BY <1>4 DEF verifyOtp, Named, Target
  <2>3. /\ Incremented(t).otp = t.otp
        /\ Incremented(t).numOtpAttempts >= t.numOtpAttempts
        /\ Incremented(t).numOtpAttempts <= MaxOtpAttempts =>
              Incremented(t).numOtpAttempts = t.numOtpAttempts + 1
    BY <1>t DEF Incremented, Capped, Token
  <2>4. \A g \in OtpHandler :
           /\ (Making(g) \/ Sending(g))' => serving'[g] = serving[g]
           /\ Accepting(g)' => \/ serving'[g] = serving[g]
                               \/ serving'[g].otp \in AdminOtp
                                     /\ serving'[g].contact \in Target
    BY <2>1, <2>2, <1>t DEF Making, Sending, Accepting, ServingAt
  <2>5. HandlerType'
    BY <2>2, <2>4 DEF HandlerType, Making, Sending, Accepting, ServingAt
  <2>6. OwnerInv'
    <3>1. /\ \A u \in tokens' : u.otp <= issued'
          /\ \A u, v \in tokens' : u.otp = v.otp => u = v
      BY <2>1, <2>2, <2>3 DEF OwnerInv
    <3>2. \A g \in OtpHandler, u \in tokens' : Making(g)' => u.otp # serving'[g].otp
      BY <2>1, <2>3, <2>4 DEF OwnerInv, Making
    <3> QED
      BY <3>1, <3>2, <2>4 DEF OwnerInv, Making, Sending, ServingAt
  <2>7. TriedInv'
    <3>1. /\ \A o \in AdminOtp \ {t.otp} : tried'[o] = tried[o]
          /\ \/ tried'[t.otp] = tried[t.otp]
             \/ /\ tried'[t.otp] = tried[t.otp] + 1
                /\ Incremented(t).numOtpAttempts = t.numOtpAttempts + 1
                /\ Incremented(t).numOtpAttempts <= MaxOtpAttempts
          /\ tried[t.otp] <= t.numOtpAttempts /\ t.otp <= issued
      BY <2>1, <2>3, <1>t DEF TriedInv, OwnerInv
    <3>2. \A o \in AdminOtp : tried'[o] <= MaxOtpAttempts
      BY <3>1, <1>t DEF TriedInv
    <3>3. \A u \in tokens' : tried'[u.otp] <= u.numOtpAttempts
      <4>1. tried'[t.otp] <= Incremented(t).numOtpAttempts
        BY <3>1, <2>3, <1>t DEF Incremented, Capped, Token
      <4>2. ASSUME NEW u \in tokens \ {t}
            PROVE  tried'[u.otp] <= u.numOtpAttempts
        BY <3>1, <1>t DEF TriedInv, OwnerInv
      <4> QED
        BY <2>1, <2>3, <4>1, <4>2
    <3>4. \A o \in AdminOtp : o > issued' => tried'[o] = 0
      BY <3>1, <2>2, <1>t DEF TriedInv, AdminOtp
    <3>5. \A g \in OtpHandler : Making(g)' => tried'[serving'[g].otp] = 0
      <4> SUFFICES ASSUME NEW g \in OtpHandler, Making(g)'
                   PROVE  tried'[serving'[g].otp] = 0
        OBVIOUS
      <4>1. serving'[g] = serving[g] /\ Making(g)
        BY <2>4 DEF Making
      <4>2. serving[g].otp # t.otp /\ serving[g].otp \in AdminOtp
        BY <4>1, <1>t DEF OwnerInv, HandlerType, AdminOtp, TokenTypeOK
      <4> QED
        BY <4>1, <4>2, <3>1 DEF TriedInv
    <3> QED
      BY <3>2, <3>3, <3>4, <3>5 DEF TriedInv
  <2> QED
    BY <2>5, <2>6, <2>7
<1>5. ASSUME NEW h \in OtpHandler, upsertOtp(h)
      PROVE  HandlerType' /\ OwnerInv' /\ TriedInv'
  <2>1. ServingAt(h, "upsert") /\ Making(h) /\ UNCHANGED <<issued, tried>>
    BY <1>5 DEF upsertOtp, ServingAt, Making
  <2>2. \/ ServeNext(h, "send") /\ \E t \in tokens :
              tokens' = (tokens \ {t}) \cup {NewToken(h)}
        \/ (StopServing(h) \/ ServeNext(h, "insert")) /\ UNCHANGED tokens
    BY <1>5 DEF upsertOtp
  <2> QED
    BY <2>1, <2>2, <1>2, <1>3
<1>6. ASSUME NEW h \in OtpHandler, insertOtp(h)
      PROVE  HandlerType' /\ OwnerInv' /\ TriedInv'
  BY <1>6, <1>2 DEF insertOtp, ServingAt, Making
<1>7. ASSUME NEW h \in OtpHandler, sendOtp(h) \/ removeTokenOnSuccess(h) \/ Succeed(h)
      PROVE  HandlerType' /\ OwnerInv' /\ TriedInv'
  <2>1. UNCHANGED <<issued, tried>> /\ tokens' \in SUBSET tokens
    BY <1>7 DEF sendOtp, removeTokenOnSuccess, Succeed
  <2>2. StopServing(h) \/ (Accepting(h) /\ ServeNext(h, "succeed"))
    BY <1>7 DEF sendOtp, removeTokenOnSuccess, Succeed, Accepting, ServingAt
  <2> QED
    BY <2>1, <2>2, <1>3
<1>8. CASE RemoveExpired \/ UNCHANGED tokenVars
  <2>1. UNCHANGED <<issued, tried, serving>> /\ tokens' \in SUBSET tokens
    BY <1>8 DEF RemoveExpired, tokenVars
  <2> QED
    BY <2>1 DEF HandlerType, OwnerInv, TriedInv, Making, Sending, Accepting,
       ServingAt
<1> QED
  BY <1>1, <1>4, <1>5, <1>6, <1>7, <1>8 DEF TokenNext

\* Every state of the tokens and of the requests has its type.
THEOREM TokenTypeCorrect == TokenSpec => []TokenTypeOK
<1>1. TokenInv /\ [TokenNext]_tokenVars => TokenInv'
  BY TokenTypeStep, TokenInvNext DEF TokenInv
<1>2. TokenInv => TokenTypeOK
  BY DEF TokenInv
<1> QED
  BY TokenInvInit, <1>1, <1>2, PTL DEF TokenSpec

\* No OTP is compared more than MAX_OTP_ATTEMPTS times, however many requests
\* overlap and however many documents they have inserted.
THEOREM AttemptsAlwaysHold ==
    TokenSpec => []AttemptsHold
<1>1. TokenInv /\ [TokenNext]_tokenVars => TokenInv'
  BY TokenTypeStep, TokenInvNext DEF TokenInv
<1>2. TokenInv => AttemptsHold
  BY DEF TokenInv, TriedInv, AttemptsHold
<1> QED
  BY TokenInvInit, <1>1, <1>2, PTL DEF TokenSpec

SentInv ==
    /\ \A t \in tokens : sentTo[t.otp] \in {NoContact, t.contact}
    /\ \A h \in OtpHandler, t \in tokens :
          Sending(h) /\ t.otp = serving[h].otp => t.contact = serving[h].contact
    /\ \A o \in AdminOtp : o > issued => sentTo[o] = NoContact
    /\ \A h \in OtpHandler : Making(h) \/ Sending(h) =>
          sentTo[serving[h].otp] = NoContact
    /\ \A h \in OtpHandler : Accepting(h) =>
          sentTo[serving[h].otp] = serving[h].contact

AcceptInv == TokenInv /\ SentInv /\ AcceptedWasSent

\* Every step preserves that what is accepted was sent before.
LEMMA SentNext ==
    ASSUME AcceptInv, [TokenNext]_tokenVars
    PROVE  SentInv' /\ AcceptedWasSent'
<1> USE TokenAssumption DEF TokenInv, AcceptInv
<1>t. /\ serving \in [OtpHandler -> ServingRecord] /\ issued \in Nat
      /\ sentTo \in [AdminOtp -> Target \cup {NoContact}] /\ NoContact \notin Target
      /\ \A t \in tokens : t.otp \in AdminOtp /\ t.contact \in Target
      /\ accepted \subseteq [otp : AdminOtp, contact : Target]
      /\ AdminOtp \subseteq Nat
  BY DEF TokenTypeOK, ServingRecord, Token, Target, AdminOtp
<1>1. ASSUME NEW h \in OtpHandler, NEW c \in Named, createOtp(h, c)
      PROVE  SentInv' /\ AcceptedWasSent'
  <2>1. /\ serving' = [serving EXCEPT ![h] =
                         [pc |-> "upsert", otp |-> issued + 1, contact |-> c]]
        /\ issued' = issued + 1 /\ issued + 1 \in AdminOtp
        /\ UNCHANGED <<tokens, sentTo, accepted, account>>
    BY <1>1, <1>t DEF createOtp, AdminOtp, TokenTypeOK
  <2>2. /\ \A g \in OtpHandler \ {h} : serving'[g] = serving[g]
        /\ serving'[h].otp = issued + 1 /\ Making(h)' /\ ~Sending(h)'
        /\ ~Accepting(h)' /\ sentTo[issued + 1] = NoContact
    BY <2>1, <1>t DEF Making, Sending, Accepting, ServingAt, SentInv
  <2>3. SentInv'
    BY <2>1, <2>2, <1>t DEF SentInv, Making, Sending, Accepting, ServingAt
  <2> QED
    BY <2>1, <2>3 DEF AcceptedWasSent
<1>2. ASSUME NEW h \in OtpHandler, Making(h), ServeNext(h, "send"),
             NEW D \in SUBSET tokens, tokens' = D \cup {NewToken(h)},
             UNCHANGED <<issued, sentTo, accepted, account>>
      PROVE  SentInv' /\ AcceptedWasSent'
  <2>1. /\ serving'[h] = [serving[h] EXCEPT !.pc = "send"]
        /\ \A g \in OtpHandler \ {h} : serving'[g] = serving[g]
    BY <1>2, <1>t DEF ServeNext
  <2>2. /\ NewToken(h).otp = serving[h].otp
        /\ NewToken(h).contact = serving[h].contact
        /\ sentTo[serving[h].otp] = NoContact
        /\ \A t \in D : t.otp # serving[h].otp
        /\ \A g \in OtpHandler \ {h} : Making(g) \/ Sending(g) =>
              serving[g].otp # serving[h].otp
    BY <1>2 DEF NewToken, SentInv, OwnerInv
  <2>3. /\ serving'[h].otp = serving[h].otp
        /\ serving'[h].contact = serving[h].contact
        /\ ~Accepting(h)'
    BY <2>1, <1>t DEF ServingRecord, Accepting
  <2>4. \A t \in tokens' : sentTo'[t.otp] \in {NoContact, t.contact}
    BY <1>2, <2>2 DEF SentInv
  <2>5. ASSUME NEW g \in OtpHandler, NEW t \in tokens', Sending(g)',
               t.otp = serving'[g].otp
        PROVE  t.contact = serving'[g].contact
    <3>1. CASE g = h
      BY <3>1, <2>5, <1>2, <2>2, <2>3
    <3>2. CASE g # h
      <4>1. serving'[g] = serving[g] /\ Sending(g)
        BY <3>2, <2>1, <2>5 DEF Sending, ServingAt
      <4> QED
        BY <4>1, <3>2, <2>2, <2>5, <1>2 DEF SentInv
    <3> QED
      BY <3>1, <3>2
  <2>6. \A g \in OtpHandler : (Making(g) \/ Sending(g))' =>
           sentTo'[serving'[g].otp] = NoContact
    <3>1. \A g \in OtpHandler \ {h} : (Making(g) \/ Sending(g))' =>
             serving'[g] = serving[g] /\ (Making(g) \/ Sending(g))
      BY <2>1 DEF Making, Sending, ServingAt
    <3>2. \A g \in OtpHandler \ {h} : (Making(g) \/ Sending(g))' =>
             sentTo'[serving'[g].otp] = NoContact
      BY <1>2, <3>1 DEF SentInv
    <3>3. sentTo'[serving'[h].otp] = NoContact
      BY <1>2, <2>2, <2>3
    <3> QED
      BY <3>2, <3>3
  <2>7. \A g \in OtpHandler : Accepting(g)' =>
           sentTo'[serving'[g].otp] = serving'[g].contact
    BY <1>2, <2>1, <2>3 DEF SentInv, Accepting
  <2>8. SentInv'
    BY <1>2, <2>4, <2>5, <2>6, <2>7 DEF SentInv
  <2> QED
    BY <1>2, <2>8 DEF AcceptedWasSent
\* Documents go, and requests end or go on with what they have.
<1>3. ASSUME UNCHANGED <<issued, sentTo>>, tokens' \in SUBSET tokens,
             \A g \in OtpHandler :
                /\ Making(g)' => Making(g)
                /\ Sending(g)' => Sending(g)
                /\ Accepting(g)' => Accepting(g)
                /\ (Making(g) \/ Sending(g) \/ Accepting(g))' =>
                      /\ serving'[g].otp = serving[g].otp
                      /\ serving'[g].contact = serving[g].contact
      PROVE  SentInv'
  BY <1>3 DEF SentInv
<1>4. ASSUME NEW h \in OtpHandler, StopServing(h)
      PROVE  \A g \in OtpHandler :
                /\ Making(g)' => Making(g)
                /\ Sending(g)' => Sending(g)
                /\ Accepting(g)' => Accepting(g)
                /\ (Making(g) \/ Sending(g) \/ Accepting(g))' =>
                      g # h /\ serving'[g] = serving[g]
  BY <1>4, <1>t DEF StopServing, NotServing, Making, Sending, Accepting,
     ServingAt
<1>5. ASSUME NEW h \in OtpHandler, upsertOtp(h)
      PROVE  SentInv' /\ AcceptedWasSent'
  <2>1. Making(h) /\ UNCHANGED <<issued, sentTo, accepted, account>>
    BY <1>5 DEF upsertOtp, Making, ServingAt
  <2>2. CASE ServeNext(h, "send")
    <3>1. \E t \in tokens : tokens' = (tokens \ {t}) \cup {NewToken(h)}
      <4>1. ~ServeNext(h, "insert") /\ ~StopServing(h)
        BY <2>2, <1>t DEF ServeNext, StopServing, NotServing, ServingRecord
      <4> QED
        BY <1>5, <4>1 DEF upsertOtp
    <3> QED
      BY <2>1, <2>2, <3>1, <1>2
  <2>3. CASE StopServing(h) /\ UNCHANGED tokens
    BY <2>1, <2>3, <1>3, <1>4 DEF AcceptedWasSent
  <2>4. CASE ServeNext(h, "insert") /\ UNCHANGED tokens
    <3>1. \A g \in OtpHandler :
             /\ Making(g)' => Making(g)
             /\ Sending(g)' => Sending(g)
             /\ Accepting(g)' => Accepting(g)
             /\ serving'[g].otp = serving[g].otp
             /\ serving'[g].contact = serving[g].contact
      BY <2>1, <2>4, <1>t DEF ServeNext, Making, Sending, Accepting, ServingAt,
         ServingRecord
    <3> QED
      BY <2>1, <2>4, <3>1, <1>3 DEF AcceptedWasSent
  <2> QED
    BY <1>5, <2>2, <2>3, <2>4 DEF upsertOtp
<1>6. ASSUME NEW h \in OtpHandler, insertOtp(h)
      PROVE  SentInv' /\ AcceptedWasSent'
  BY <1>6, <1>2 DEF insertOtp, ServingAt, Making
<1>7. ASSUME NEW h \in OtpHandler, sendOtp(h)
      PROVE  SentInv' /\ AcceptedWasSent'
  <2>1. /\ Sending(h) /\ StopServing(h)
        /\ UNCHANGED <<tokens, issued, accepted, account>>
        /\ \/ sentTo' = [sentTo EXCEPT ![serving[h].otp] = serving[h].contact]
           \/ UNCHANGED sentTo
    BY <1>7 DEF sendOtp, Sending
  <2>2. CASE UNCHANGED sentTo
    BY <2>1, <2>2, <1>3, <1>4 DEF AcceptedWasSent
  <2>3. CASE sentTo' = [sentTo EXCEPT ![serving[h].otp] = serving[h].contact]
    <3> DEFINE o == serving[h].otp
    <3>1. /\ o \in AdminOtp /\ o <= issued /\ sentTo[o] = NoContact
          /\ serving[h].contact \in Target
      BY <2>1, <1>t DEF HandlerType, SentInv, TokenTypeOK, AdminOtp
    <3>2. /\ sentTo'[o] = serving[h].contact
          /\ \A p \in AdminOtp \ {o} : sentTo'[p] = sentTo[p]
      BY <2>3, <3>1, <1>t
    <3>3. ASSUME NEW t \in tokens
          PROVE  sentTo'[t.otp] \in {NoContact, t.contact}
      BY <2>1, <3>2, <1>t DEF SentInv
    <3>4. ASSUME NEW g \in OtpHandler, (Making(g) \/ Sending(g))'
          PROVE  sentTo'[serving'[g].otp] = NoContact
      <4>1. g # h /\ serving'[g] = serving[g] /\ (Making(g) \/ Sending(g))
        BY <2>1, <3>4, <1>4
      <4>2. serving[g].otp # o /\ serving[g].otp \in AdminOtp
        BY <2>1, <4>1, <1>t DEF OwnerInv, HandlerType, TokenTypeOK, AdminOtp
      <4> QED
        BY <4>1, <4>2, <3>2 DEF SentInv
    <3>5. ASSUME NEW g \in OtpHandler, Accepting(g)'
          PROVE  sentTo'[serving'[g].otp] = serving'[g].contact
      <4>1. serving'[g] = serving[g] /\ Accepting(g)
        BY <2>1, <3>5, <1>4
      <4>2. /\ sentTo[serving[g].otp] = serving[g].contact
            /\ serving[g].otp \in AdminOtp /\ serving[g].contact \in Target
        BY <4>1 DEF SentInv, HandlerType
      <4> QED
        BY <4>1, <4>2, <3>1, <3>2, <1>t
    <3>6. ASSUME NEW p \in AdminOtp, p > issued
          PROVE  sentTo'[p] = NoContact
      BY <3>1, <3>2, <3>6, <1>t DEF SentInv
    <3>7. ASSUME NEW g \in OtpHandler, NEW t \in tokens, Sending(g)',
                 t.otp = serving'[g].otp
          PROVE  t.contact = serving'[g].contact
      BY <2>1, <3>7, <1>4 DEF SentInv
    <3>8. SentInv'
      BY <2>1, <3>3, <3>4, <3>5, <3>6, <3>7 DEF SentInv
    <3>9. ASSUME NEW a \in accepted
          PROVE  sentTo'[a.otp] = a.contact
      <4>1. sentTo[a.otp] = a.contact /\ a.otp \in AdminOtp /\ a.contact \in Target
        BY <1>t DEF AcceptedWasSent
      <4> QED
        BY <4>1, <3>1, <3>2, <1>t
    <3> QED
      BY <2>1, <3>8, <3>9 DEF AcceptedWasSent
  <2> QED
    BY <2>1, <2>2, <2>3
<1>8. ASSUME NEW h \in OtpHandler, NEW typed \in Typed, NEW c \in Named,
             verifyOtp(h, typed, c)
      PROVE  SentInv' /\ AcceptedWasSent'
  <2>1. PICK t \in tokens :
          /\ tokens' = (tokens \ {t}) \cup {Incremented(t)}
          /\ \/ UNCHANGED serving
             \/ /\ typed = t.otp /\ c = t.contact
                /\ serving' = [serving EXCEPT ![h] =
                      [pc |-> "remove", otp |-> typed, contact |-> c]]
    BY <1>8 DEF verifyOtp, HashesMatch
  <2>2. ServingAt(h, "idle") /\ UNCHANGED <<issued, sentTo, accepted, account>>
    BY <1>8 DEF verifyOtp
  <2>3. Incremented(t).otp = t.otp /\ Incremented(t).contact = t.contact
    BY DEF Incremented, TokenTypeOK, Token
  <2>4. \A g \in OtpHandler :
           /\ (Making(g) \/ Sending(g))' =>
                 serving'[g] = serving[g] /\ (Making(g) \/ Sending(g))
           /\ Sending(g)' => Sending(g)
           /\ Accepting(g)' => \/ serving'[g] = serving[g] /\ Accepting(g)
                               \/ /\ serving'[g].otp = typed /\ typed = t.otp
                                  /\ serving'[g].contact = t.contact
    BY <2>1, <2>2, <1>t DEF Making, Sending, Accepting, ServingAt
  <2>5. typed = t.otp => sentTo[typed] = t.contact
    BY <1>t DEF SentInv, Typed, AdminOtp, NoAdminOtp
  <2>6. /\ \A u \in tokens' : sentTo'[u.otp] \in {NoContact, u.contact}
        /\ \A g \in OtpHandler, u \in tokens' :
              Sending(g)' /\ u.otp = serving'[g].otp
                 => u.contact = serving'[g].contact
    BY <2>1, <2>2, <2>3, <2>4 DEF SentInv
  <2>7. \A g \in OtpHandler : Accepting(g)' =>
           sentTo'[serving'[g].otp] = serving'[g].contact
    BY <2>2, <2>4, <2>5 DEF SentInv
  <2>8. SentInv'
    BY <2>2, <2>4, <2>6, <2>7 DEF SentInv
  <2> QED
    BY <2>2, <2>8 DEF AcceptedWasSent
<1>9. ASSUME NEW h \in OtpHandler, removeTokenOnSuccess(h)
      PROVE  SentInv' /\ AcceptedWasSent'
  <2>1. /\ UNCHANGED <<issued, sentTo, accepted, account>>
        /\ tokens' \in SUBSET tokens /\ ServingAt(h, "remove")
        /\ ServeNext(h, "succeed") \/ StopServing(h)
    BY <1>9 DEF removeTokenOnSuccess
  <2>2. ServeNext(h, "succeed") => \A g \in OtpHandler :
           /\ Making(g)' => Making(g)
           /\ Sending(g)' => Sending(g)
           /\ Accepting(g)' => Accepting(g)
           /\ serving'[g].otp = serving[g].otp
           /\ serving'[g].contact = serving[g].contact
    BY <2>1, <1>t DEF ServeNext, Making, Sending, Accepting, ServingAt,
       ServingRecord
  <2> QED
    BY <2>1, <2>2, <1>3, <1>4 DEF AcceptedWasSent
<1>10. ASSUME NEW h \in OtpHandler, Succeed(h)
       PROVE  SentInv' /\ AcceptedWasSent'
  <2>1. /\ UNCHANGED <<issued, sentTo, tokens>> /\ StopServing(h) /\ Accepting(h)
        /\ \/ UNCHANGED <<account, accepted>>
           \/ /\ account' = serving[h].contact
              /\ accepted' = accepted \cup {[otp |-> serving[h].otp,
                                             contact |-> serving[h].contact]}
    BY <1>10 DEF Succeed, Accepting, ServingAt
  <2>2. sentTo[serving[h].otp] = serving[h].contact
    BY <2>1 DEF SentInv
  <2>3. AcceptedWasSent'
    <3>1. CASE UNCHANGED <<account, accepted>>
      BY <2>1, <3>1 DEF AcceptedWasSent
    <3>2. CASE /\ account' = serving[h].contact
               /\ accepted' = accepted \cup {[otp |-> serving[h].otp,
                                              contact |-> serving[h].contact]}
      <4> DEFINE a == [otp |-> serving[h].otp, contact |-> serving[h].contact]
      <4>1. a \in accepted' /\ a.contact = account'
        BY <3>2
      <4>2. sentTo'[a.otp] = a.contact
        BY <2>1, <2>2
      <4>3. \A b \in accepted : sentTo'[b.otp] = b.contact
        BY <2>1 DEF AcceptedWasSent
      <4>4. \A b \in accepted' : sentTo'[b.otp] = b.contact
        BY <3>2, <4>2, <4>3
      <4> QED
        BY <4>1, <4>4 DEF AcceptedWasSent
    <3> QED
      BY <2>1, <3>1, <3>2
  <2> QED
    BY <2>1, <2>3, <1>3, <1>4
<1>11. CASE RemoveExpired \/ UNCHANGED tokenVars
  <2>1. /\ UNCHANGED <<issued, sentTo, serving, accepted, account>>
        /\ tokens' \in SUBSET tokens
    BY <1>11 DEF RemoveExpired, tokenVars
  <2> QED
    BY <2>1, <1>3 DEF AcceptedWasSent, Making, Sending, Accepting, ServingAt
<1> QED
  BY <1>1, <1>5, <1>6, <1>7, <1>8, <1>9, <1>10, <1>11 DEF TokenNext

\* An OTP is accepted only for the contact it was sent to, although another
\* may have been entered, and another document removed, in between.
THEOREM AcceptedAlwaysSent ==
    TokenSpec => []AcceptedWasSent
<1>1. TokenInit => AcceptInv
  BY TokenInvInit DEF TokenInit, NotServing, AcceptInv, SentInv,
     AcceptedWasSent, Making, Sending, Accepting, ServingAt
<1>2. AcceptInv /\ [TokenNext]_tokenVars => AcceptInv'
  BY TokenTypeStep, TokenInvNext, SentNext DEF AcceptInv, TokenInv
<1>3. AcceptInv => AcceptedWasSent
  BY DEF AcceptInv
<1> QED
  BY <1>1, <1>2, <1>3, PTL DEF TokenSpec

-----------------------------------------------------------------------------
(* The two side by side.                                                    *)

\* A behaviour of the two is one of either.
LEMMA Composed == OtpSpec => Spec /\ TokenSpec
<1>1. OtpInit => Init /\ TokenInit
  BY DEF OtpInit
<1>2. [OtpNext]_<<component, verificationVars, tokenVars>>
         => [Next]_verificationVars /\ [TokenNext]_tokenVars
  BY DEF OtpNext
<1> QED
  BY <1>1, <1>2, PTL DEF OtpSpec, Spec, TokenSpec

\* Every variable of fields, logins and contacts keeps its type.
THEOREM OtpTypesCorrect == OtpSpec => []OtpTypeOK
<1>1. TypeOK /\ TokenTypeOK => OtpTypeOK
  BY DEF OtpTypeOK
<1> QED
  BY <1>1, Composed, TypeCorrect, TokenTypeCorrect, PTL

=============================================================================
