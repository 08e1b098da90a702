----------------------------- MODULE Submissions -----------------------------
(***************************************************************************)
(* Respondents submit a form that has a submission limit and a file to     *)
(* attach.                                                                 *)
(*                                                                         *)
(* Source: src/src/app/modules/submission, email-submission.controller.ts  *)
(* (a form in email mode) and encrypt-submission.controller.ts with its    *)
(* middleware and service (storage mode); form.service.ts (the limit); and *)
(* src/serverless/virus-scanner (the scan of a file, in storage mode with  *)
(* the virus scanner enabled).                                             *)
(*                                                                         *)
(* A respondent has uploaded the file of a storage mode form to a          *)
(* quarantine bucket under a key, possibly more than once: the bucket      *)
(* keeps versions, numbered here in the order of the uploads. The          *)
(* database, the buckets and the mail service are external.                *)
(***************************************************************************)
EXTENDS Integers, FiniteSets, Sequences

CONSTANTS Key,              \* keys in the quarantine bucket
          NoKey,
          Handler,          \* bound: requests served at a time
          SubmissionLimit,  \* submissionLimit of the form
          MaxUploads,       \* bound: uploads
          MaxReceived,      \* bound: requests
          MaxFaults         \* bound: failures, and counts that lag behind

\* What a proof assumes of them, and MCForms checks.
ASSUME SubmissionAssumption ==
    /\ SubmissionLimit \in Nat \ {0}
    /\ {MaxUploads, MaxReceived, MaxFaults} \subseteq Nat
    /\ IsFiniteSet(Handler)

VARIABLES
    mode,         \* responseMode of the form
    status,       \* status of the form
    submissions,  \* the submissions stored
    received,     \* requests so far: a submission is named by its number
    uploads,      \* history: of each version its key and whether it is malicious
    quarantine,   \* the versions in the quarantine bucket
    clean,        \* the versions moved to the clean bucket
    serving,      \* per handler the request it serves
    failed        \* history: failures so far

submissionVars == <<mode, status, submissions, received, uploads, quarantine,
                    clean, serving, failed>>

NoFile == 0

Idle == [pc |-> "idle", id |-> 0, status |-> "PRIVATE", key |-> NoKey,
         file |-> NoFile]

SubmissionInit ==
    /\ mode \in {"email", "encrypt"}
    /\ status = "PUBLIC"
    /\ submissions = {}
    /\ received = 0
    /\ uploads = <<>>
    /\ quarantine = {}
    /\ clean = {}
    /\ serving = [h \in Handler |-> Idle]
    /\ failed = 0

At(h, step) == serving[h].pc = step

GoTo(h, step) == serving' = [serving EXCEPT ![h].pc = step]

Finish(h) == serving' = [serving EXCEPT ![h] = Idle]

Fails == failed < MaxFaults /\ failed' = failed + 1

-----------------------------------------------------------------------------
(* The file.                                                                *)

\* With the presigned post data of getQuarantinePresignedPostData.
Upload(k, malicious) ==
    /\ mode = "encrypt"
    /\ Len(uploads) < MaxUploads
    /\ uploads' = Append(uploads, [key |-> k, malicious |-> malicious])
    /\ quarantine' = quarantine \cup {Len(uploads) + 1}
    /\ UNCHANGED <<mode, status, submissions, received, clean, serving, failed>>

Versions(k) == {v \in quarantine : uploads[v].key = k}

IsLatest(v, k) == v \in Versions(k) /\ \A w \in Versions(k) : w <= v

\* createFormsgAndRetrieveForm, or the retrieval in submitEmailModeForm.
ReceiveSubmission(h, k) ==
    /\ At(h, "idle")
    /\ received < MaxReceived
    /\ mode = "email" => k = NoKey
    /\ received' = received + 1
    /\ serving' = [serving EXCEPT ![h] =
          [pc |-> IF k = NoKey THEN "ensure" ELSE "scan", id |-> received + 1,
           status |-> status, key |-> k, file |-> NoFile]]
    /\ UNCHANGED <<mode, status, submissions, uploads, quarantine, clean,
                   failed>>

\* The scanner reads the latest version of the key, if there is one.
getS3FileStreamWithVersionId(h) ==
    /\ At(h, "scan")
    /\ \/ Versions(serving[h].key) = {} /\ Finish(h)
       \/ \E v \in quarantine :
             /\ IsLatest(v, serving[h].key)
             /\ serving' = [serving EXCEPT ![h].pc = "scanned", ![h].file = v]
    /\ UNCHANGED <<mode, status, submissions, received, uploads, quarantine,
                   clean, failed>>

\* A malicious version is deleted, if that succeeds, and refused either way.
scanFileStream(h) ==
    /\ At(h, "scanned")
    /\ \/ /\ uploads[serving[h].file].malicious
          /\ Finish(h)
          /\ \/ /\ quarantine' = quarantine \ {serving[h].file}
                /\ UNCHANGED failed
             \/ Fails /\ UNCHANGED quarantine
       \/ /\ ~uploads[serving[h].file].malicious
          /\ GoTo(h, "move")
          /\ UNCHANGED <<quarantine, failed>>
       \/ Fails /\ Finish(h) /\ UNCHANGED quarantine
    /\ UNCHANGED <<mode, status, submissions, received, uploads, clean>>

\* Mutant of VersionToMove: the copy names the key alone.
LatestToMove(h) == CHOOSE v \in quarantine : IsLatest(v, serving[h].key)

VersionToMove(h) == serving[h].file

\* Copy, then delete; a failure comes before, between or after the two, the
\* last when the answer of the scanner is lost.
moveS3File(h) ==
    /\ At(h, "move")
    /\ \/ /\ VersionToMove(h) \in quarantine
          /\ clean' = clean \cup {VersionToMove(h)}
          /\ \/ /\ quarantine' = quarantine \ {VersionToMove(h)}
                /\ serving' = [serving EXCEPT ![h].pc = "ensure",
                                              ![h].file = VersionToMove(h)]
                /\ UNCHANGED failed
             \/ /\ quarantine' \in {quarantine, quarantine \ {VersionToMove(h)}}
                /\ Fails /\ Finish(h)
       \/ /\ VersionToMove(h) \notin quarantine
          /\ Finish(h)
          /\ UNCHANGED <<quarantine, clean, failed>>
       \/ Fails /\ Finish(h) /\ UNCHANGED <<quarantine, clean>>
    /\ UNCHANGED <<mode, status, submissions, received, uploads>>

-----------------------------------------------------------------------------
(* The form.                                                                *)

isFormPublic(h) == serving[h].status = "PUBLIC"

\* Mutant of WithinLimit: off by one.
UpToLimit(count) == count <= SubmissionLimit

WithinLimit(count) == count < SubmissionLimit

\* The status is that of the form as it was retrieved. Submissions are counted
\* on a secondary: that the count lags behind is a failure.
checkFormSubmissionLimit(h) ==
    /\ At(h, "ensure")
    /\ \/ ~isFormPublic(h) /\ Finish(h) /\ UNCHANGED failed
       \/ /\ isFormPublic(h)
          /\ \E count \in 0 .. Cardinality(submissions) :
                /\ IF count = Cardinality(submissions)
                   THEN UNCHANGED failed ELSE Fails
                /\ GoTo(h, IF WithinLimit(count) THEN "save" ELSE "deactivate")
       \/ Fails /\ Finish(h)
    /\ UNCHANGED <<mode, status, submissions, received, uploads, quarantine,
                   clean>>

\* deactivateById reads the form again, and saves it. The nearest node may lag
\* behind: the form has been public, and before it was opened it was private.
deactivateFormRead(h) ==
    /\ At(h, "deactivate")
    /\ \E read \in {"PUBLIC", "PRIVATE"} :
          serving' = [serving EXCEPT ![h].pc = "deactivateSave",
                                     ![h].status = read]
    /\ UNCHANGED <<mode, status, submissions, received, uploads, quarantine,
                   clean, failed>>

deactivateFormSave(h) ==
    /\ At(h, "deactivateSave")
    /\ \/ /\ status' = IF isFormPublic(h) THEN "PRIVATE" ELSE status
          /\ UNCHANGED failed
       \/ Fails /\ UNCHANGED status
    /\ Finish(h)
    /\ UNCHANGED <<mode, submissions, received, uploads, quarantine, clean>>

Store(h) ==
    submissions' = submissions \cup
        {[id |-> serving[h].id, file |-> serving[h].file]}

\* uploadAttachments and _createSubmission, or saveSubmissionMetadata.
SaveSubmission(h) ==
    /\ At(h, "save")
    /\ \/ /\ Store(h)
          /\ IF mode = "email" THEN GoTo(h, "mail") ELSE Finish(h)
          /\ UNCHANGED failed
       \/ Fails /\ Finish(h) /\ (Store(h) \/ UNCHANGED submissions)
    /\ UNCHANGED <<mode, status, received, uploads, quarantine, clean>>

\* The submission stays, and counts, when the mail with its answers fails.
sendSubmissionToAdmin(h) ==
    /\ At(h, "mail")
    /\ Finish(h)
    /\ Fails \/ UNCHANGED failed
    /\ UNCHANGED <<mode, status, submissions, received, uploads, quarantine,
                   clean>>

\* An administrator opens or closes the form.
ChangeStatus(s) ==
    /\ status # s
    /\ received < MaxReceived
    /\ status' = s
    /\ UNCHANGED <<mode, submissions, received, uploads, quarantine, clean,
                   serving, failed>>

-----------------------------------------------------------------------------

SubmissionNext ==
    \/ \E k \in Key, malicious \in BOOLEAN : Upload(k, malicious)
    \/ \E h \in Handler :
          \/ \E k \in Key \cup {NoKey} : ReceiveSubmission(h, k)
          \/ getS3FileStreamWithVersionId(h)
          \/ scanFileStream(h)
          \/ moveS3File(h)
          \/ checkFormSubmissionLimit(h)
          \/ deactivateFormRead(h)
          \/ deactivateFormSave(h)
          \/ SaveSubmission(h)
          \/ sendSubmissionToAdmin(h)
    \/ \E s \in {"PUBLIC", "PRIVATE"} : ChangeStatus(s)

SubmissionSpec == SubmissionInit /\ [][SubmissionNext]_submissionVars

-----------------------------------------------------------------------------

Version == 1 .. MaxUploads

\* Every variable has its type, and only versions that exist are in a bucket
\* or being scanned.
SubmissionTypeOK ==
    /\ mode \in {"email", "encrypt"}
    /\ status \in {"PUBLIC", "PRIVATE"}
    /\ submissions \subseteq [id : 1 .. received, file : Version \cup {NoFile}]
    /\ received \in 0 .. MaxReceived
    /\ uploads \in Seq([key : Key, malicious : BOOLEAN])
    /\ quarantine \cup clean \subseteq DOMAIN uploads
    /\ serving \in [Handler ->
          [pc : {"idle", "scan", "scanned", "move", "ensure", "deactivate",
                 "deactivateSave", "save", "mail"},
           id : 0 .. received, status : {"PUBLIC", "PRIVATE"},
           key : Key \cup {NoKey}, file : Version \cup {NoFile}]]
    /\ \A h \in Handler : serving[h].file \in DOMAIN uploads \cup {NoFile}
    /\ failed \in 0 .. MaxFaults

\* A form takes more submissions than its limit only by requests that were
\* counted together, and by one for each count that lagged behind, however
\* often it is opened again.
LimitHolds ==
    Cardinality(submissions)
        <= SubmissionLimit - 1 + Cardinality(Handler) + failed

\* Whatever is uploaded under a key while it is being scanned, what is stored
\* with a submission, and what is in the clean bucket, has been found clean.
OnlyCleanFiles ==
    \A v \in clean \cup {s.file : s \in submissions} :
        v # NoFile => ~uploads[v].malicious

=============================================================================
