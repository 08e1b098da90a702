------------------------------ MODULE OtpToken ------------------------------
(***************************************************************************)
(* The OTPs of administrators: to log in with an email address, or to make *)
(* a mobile number the contact of the account.                             *)
(*                                                                         *)
(* Source: src/src/app/modules/auth/auth.service.ts with                   *)
(* token.server.model.ts (login), src/src/app/modules/user/user.service.ts *)
(* with admin_verification.server.model.ts (contact).                      *)
(*                                                                         *)
(* Both keep one document per administrator, found by the address or by    *)
(* the user id, without a unique index: an upsert finds a document and     *)
(* updates it, or inserts one after it has found none. A document goes     *)
(* when it has been used, and when the TTL index removes it: no code reads *)
(* the time, so that it may go at any time.                                *)
(***************************************************************************)
EXTENDS Integers, FiniteSets

CONSTANTS Contact,         \* mobile numbers an administrator may enter
          Email,           \* the address of the administrator
          NoContact,
          OtpHandler,         \* bound: requests served at a time
          MaxOtpAttempts,  \* MAX_OTP_ATTEMPTS
          MaxAdminOtps,         \* bound: OTPs generated
          MaxOtpFaults        \* bound: failures

\* What a proof assumes of them, and MCOtp checks.
ASSUME TokenAssumption ==
    /\ NoContact \notin Contact \cup {Email}
    /\ Email \notin Contact
    /\ {MaxOtpAttempts, MaxAdminOtps, MaxOtpFaults} \subseteq Nat

VARIABLES
    flow,        \* "login" or "contact"
    tokens,      \* the documents of this administrator
    serving,     \* per handler the request it serves
    issued,      \* OTPs generated so far: they are numbered from 1
    account,     \* the contact of the account, or the address logged in with
    sentTo,      \* history: who has been sent an OTP
    tried,       \* history: how often the hash of an OTP has been compared
    accepted,    \* history: OTPs accepted, with the contact they were for
    failures     \* history: failures so far

tokenVars == <<flow, tokens, serving, issued, account, sentTo, tried,
               accepted, failures>>

AdminOtp == 1 .. MaxAdminOtps
NoAdminOtp == 0

Target == Contact \cup {Email}

Token == [otp : AdminOtp, contact : Target,
          numOtpAttempts : 0 .. MaxOtpAttempts + 1]

NotServing == [pc |-> "idle", otp |-> NoAdminOtp, contact |-> NoContact]

TokenInit ==
    /\ flow \in {"login", "contact"}
    /\ tokens = {}
    /\ serving = [h \in OtpHandler |-> NotServing]
    /\ issued = 0
    /\ account = NoContact
    /\ sentTo = [o \in AdminOtp |-> NoContact]
    /\ tried = [o \in AdminOtp |-> 0]
    /\ accepted = {}
    /\ failures = 0

ServingAt(h, step) == serving[h].pc = step

ServeNext(h, step) == serving' = [serving EXCEPT ![h].pc = step]

StopServing(h) == serving' = [serving EXCEPT ![h] = NotServing]

Failure == failures < MaxOtpFaults /\ failures' = failures + 1

\* The contact a request may name: a login names the address.
Named == IF flow = "login" THEN {Email} ELSE Contact

-----------------------------------------------------------------------------
(* createLoginOtp and createContactOtp.                                     *)

createOtp(h, c) ==
    /\ ServingAt(h, "idle")
    /\ issued < MaxAdminOtps
    /\ issued' = issued + 1
    /\ serving' = [serving EXCEPT ![h] =
                     [pc |-> "upsert", otp |-> issued + 1, contact |-> c]]
    /\ UNCHANGED <<flow, tokens, account, sentTo, tried, accepted, failures>>

NewToken(h) == [otp |-> serving[h].otp, contact |-> serving[h].contact,
                numOtpAttempts |-> 0]

upsertOtp(h) ==
    /\ ServingAt(h, "upsert")
    /\ \/ /\ \E t \in tokens : tokens' = (tokens \ {t}) \cup {NewToken(h)}
          /\ ServeNext(h, "send")
          /\ UNCHANGED failures
       \/ /\ tokens = {}
          /\ ServeNext(h, "insert")
          /\ UNCHANGED <<tokens, failures>>
       \/ Failure /\ StopServing(h) /\ UNCHANGED tokens
    /\ UNCHANGED <<flow, issued, account, sentTo, tried, accepted>>

\* Another document may have been inserted since none was found.
insertOtp(h) ==
    /\ ServingAt(h, "insert")
    /\ tokens' = tokens \cup {NewToken(h)}
    /\ ServeNext(h, "send")
    /\ UNCHANGED <<flow, issued, account, sentTo, tried, accepted, failures>>

\* sendLoginOtp or sendAdminContactOtp; a call that fails may have sent it.
sendOtp(h) ==
    /\ ServingAt(h, "send")
    /\ \/ /\ sentTo' = [sentTo EXCEPT ![serving[h].otp] = serving[h].contact]
          /\ UNCHANGED failures \/ Failure
       \/ Failure /\ UNCHANGED sentTo
    /\ StopServing(h)
    /\ UNCHANGED <<flow, tokens, issued, account, tried, accepted>>

-----------------------------------------------------------------------------
(* verifyLoginOtp and verifyContactOtp.                                     *)

Capped(n) == IF n > MaxOtpAttempts + 1 THEN MaxOtpAttempts + 1 ELSE n

Incremented(t) == [t EXCEPT !.numOtpAttempts = Capped(@ + 1)]

\* Mutant of HashesMatch: the contact is not compared.
OtpMatches(t, typed, c) == typed = t.otp

HashesMatch(t, typed, c) == typed = t.otp /\ c = t.contact

\* Mutant of Returned: the document as it was before the update.
ReturnedOld(t) == t

\* incrementAttemptsByEmail and incrementAttemptsByAdminId return the document
\* they have updated, and that is the one whose hashes are compared. A call
\* that fails may have counted the attempt.
Returned(t) == Incremented(t)

verifyOtp(h, typed, c) ==
    /\ ServingAt(h, "idle")
    /\ \E t \in tokens :
          /\ tokens' = (tokens \ {t}) \cup {Incremented(t)}
          /\ \/ /\ Returned(t).numOtpAttempts <= MaxOtpAttempts
                /\ tried' = [tried EXCEPT ![t.otp] = @ + 1]
                /\ IF HashesMatch(t, typed, c)
                   THEN serving' = [serving EXCEPT ![h] =
                          [pc |-> "remove", otp |-> typed, contact |-> c]]
                   ELSE UNCHANGED serving
                /\ UNCHANGED failures
             \/ /\ Returned(t).numOtpAttempts > MaxOtpAttempts
                /\ UNCHANGED <<serving, tried, failures>>
             \/ Failure /\ UNCHANGED <<serving, tried>>
    /\ UNCHANGED <<flow, issued, account, sentTo, accepted>>

\* By address or user id: the document may be another one by now, or gone.
removeTokenOnSuccess(h) ==
    /\ ServingAt(h, "remove")
    /\ \/ /\ \/ \E t \in tokens : tokens' = tokens \ {t}
             \/ tokens = {} /\ UNCHANGED tokens
          /\ ServeNext(h, "succeed")
          /\ UNCHANGED failures
       \/ Failure /\ StopServing(h) /\ UNCHANGED tokens
    /\ UNCHANGED <<flow, issued, account, sentTo, tried, accepted>>

\* The session is set, or updateUserContact saves the contact.
Succeed(h) ==
    /\ ServingAt(h, "succeed")
    /\ \/ /\ account' = serving[h].contact
          /\ accepted' = accepted \cup
                {[otp |-> serving[h].otp, contact |-> serving[h].contact]}
          /\ UNCHANGED failures
       \/ Failure /\ UNCHANGED <<account, accepted>>
    /\ StopServing(h)
    /\ UNCHANGED <<flow, tokens, issued, sentTo, tried>>

-----------------------------------------------------------------------------

\* The TTL index on expireAt.
RemoveExpired ==
    /\ \E t \in tokens : tokens' = tokens \ {t}
    /\ UNCHANGED <<flow, serving, issued, account, sentTo, tried, accepted,
                   failures>>

\* A right OTP is typed only by someone who has been sent it.
Typed == {NoAdminOtp} \cup {o \in AdminOtp : sentTo[o] # NoContact}

TokenNext ==
    \/ \E h \in OtpHandler :
          \/ \E c \in Named : createOtp(h, c)
          \/ upsertOtp(h)
          \/ insertOtp(h)
          \/ sendOtp(h)
          \/ \E typed \in Typed, c \in Named : verifyOtp(h, typed, c)
          \/ removeTokenOnSuccess(h)
          \/ Succeed(h)
    \/ RemoveExpired

TokenSpec == TokenInit /\ [][TokenNext]_tokenVars

-----------------------------------------------------------------------------

\* Every variable has its type.
TokenTypeOK ==
    /\ flow \in {"login", "contact"}
    /\ tokens \subseteq Token
    /\ serving \in [OtpHandler ->
          [pc : {"idle", "upsert", "insert", "send", "remove", "succeed"},
           otp : AdminOtp \cup {NoAdminOtp}, contact : Target \cup {NoContact}]]
    /\ issued \in 0 .. MaxAdminOtps
    /\ account \in Target \cup {NoContact}
    /\ sentTo \in [AdminOtp -> Target \cup {NoContact}]
    /\ tried \in [AdminOtp -> Nat]
    /\ accepted \subseteq [otp : AdminOtp, contact : Target]
    /\ failures \in Nat

\* No OTP is compared more than MAX_OTP_ATTEMPTS times, however many requests
\* overlap and whichever of two documents they meet: the attempt is counted by
\* the update that returns the hash.
AttemptsHold == \A o \in AdminOtp : tried[o] <= MaxOtpAttempts

\* Whoever is logged in, and the contact of the account, has been sent the OTP
\* that was typed for it, although another contact may have been entered in
\* between and the removal may have met another document.
AcceptedWasSent ==
    /\ \A a \in accepted : sentTo[a.otp] = a.contact
    /\ account # NoContact => \E a \in accepted : a.contact = account

=============================================================================
