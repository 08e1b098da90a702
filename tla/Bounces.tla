------------------------------- MODULE Bounces -------------------------------
(***************************************************************************)
(* Amazon SNS reports what has become of the mails with which the          *)
(* submissions of one form were sent to its administrators. Its editors    *)
(* are told, once, when a mail has reached nobody, and the form is closed  *)
(* when every recipient has bounced for good.                              *)
(*                                                                         *)
(* Source: src/src/app/modules/bounce, bounce.controller.ts,               *)
(* bounce.service.ts and bounce.model.ts.                                  *)
(*                                                                         *)
(* Notifications arrive in any order, more than once, and are handled      *)
(* concurrently. Nothing makes a bounce document unique for its form. The  *)
(* database (as in FormEditing), SNS and the mails and SMSes to the        *)
(* editors are external.                                                   *)
(***************************************************************************)
EXTENDS Integers, FiniteSets, Sequences

CONSTANTS Recipient,         \* addresses the form sends its submissions to
          BounceHandler,           \* bound: notifications handled at a time
          MaxNotifications,  \* bound: notifications
          MaxLost            \* bound: no failure after so many losses

ASSUME BounceAssumption == /\ {MaxNotifications, MaxLost} \subseteq Nat
                           /\ IsFiniteSet(BounceHandler)

VARIABLES
    documents,  \* the bounce documents of the form, with a place for removed ones
    handling,   \* per handler the notification and its copy of the document
    closedFor,  \* history: what was known of the recipients of the mail for
                \* which the form was last closed
    notices,    \* history: times that the editors were told
    lost,       \* history: notices and saves that did not succeed
    arrived     \* notifications so far

bounceVars == <<documents, handling, closedFor, notices, lost, arrived>>

\* What a notification says of a recipient. BounceType "Undetermined" is
\* treated as "Transient" is.
Report == {"delivered", "Transient", "Permanent"}

\* commonHeaders.to of the mail, the recipients the notification is about,
\* and what it says of them.
Notification == {n \in [to : SUBSET Recipient, about : SUBSET Recipient,
                        says : Report] : n.about # {} /\ n.about \subseteq n.to}

NoBounces == [r \in Recipient |-> "absent"]

AllPermanent == [r \in Recipient |-> "Permanent"]

NoDocument == [version |-> 0, bounces |-> NoBounces, notified |-> FALSE,
               removed |-> FALSE, saved |-> NoBounces]

NewDocument == 0

NotHandling == [pc |-> "idle", of |-> NewDocument, read |-> NoDocument,
         bounces |-> NoBounces, notified |-> FALSE, reported |-> NoBounces]

\* There may be a document already, of a mail that reached nobody.
BounceInit ==
    /\ documents \in {<<>>, <<[NoDocument EXCEPT !.bounces = AllPermanent,
                                               !.saved = AllPermanent]>>}
    /\ handling = [h \in BounceHandler |-> NotHandling]
    /\ closedFor = {}
    /\ notices = 0
    /\ lost = 0
    /\ arrived = 0

HandlingAt(h, step) == handling[h].pc = step

HandleNext(h, step) == handling' = [handling EXCEPT ![h].pc = step]

StopHandling(h) == handling' = [handling EXCEPT ![h] = NotHandling]

Loses == lost' = lost + 1

BounceFails == lost < MaxLost /\ Loses

-----------------------------------------------------------------------------
(* The document.                                                            *)

Reports(n, r) == r \in n.about

\* fromSnsNotification is the same for a document that knows nothing.
updateBounceInfo(bounces, n) ==
    [r \in Recipient |->
        CASE r \notin n.to -> "absent"
          [] Reports(n, r) -> n.says
          [] r \in n.to /\ ~Reports(n, r) /\ bounces[r] = "absent" -> "delivered"
          [] OTHER -> bounces[r]]

Recipients(bounces) == {r \in Recipient : bounces[r] # "absent"}

isCriticalBounce(bounces) ==
    \A r \in Recipients(bounces) : bounces[r] # "delivered"

areAllPermanentBounces(bounces) ==
    \A r \in Recipients(bounces) : bounces[r] = "Permanent"

\* Mutant of hasNotified: as the document was before anyone was told.
NeverNotified(h) == FALSE

hasNotified(h) == handling[h].read.notified

Present == {d \in DOMAIN documents : ~documents[d].removed}

-----------------------------------------------------------------------------
(* The handler.                                                             *)

\* getUpdatedBounceDoc (with several documents it is any of them), and
\* retrieveFullFormById, which reads nothing that changes here.
ReadBounce(h, n, d) ==
    LET doc == IF d = NewDocument THEN NoDocument ELSE documents[d]
        bounces == updateBounceInfo(doc.bounces, n)
    IN  /\ HandlingAt(h, "idle")
        /\ arrived < MaxNotifications
        /\ IF Present = {} THEN d = NewDocument ELSE d \in Present
        /\ arrived' = arrived + 1
        /\ \/ /\ handling' = [handling EXCEPT ![h] =
                    [pc |-> IF isCriticalBounce(bounces)
                            THEN "notify" ELSE "save",
                     of |-> d, read |-> doc, bounces |-> bounces,
                     notified |-> doc.notified,
                     reported |-> [r \in Recipient |->
                        IF Reports(n, r) THEN n.says ELSE "absent"]]]
              /\ UNCHANGED lost
           \/ BounceFails /\ UNCHANGED handling
        /\ UNCHANGED <<documents, closedFor, notices>>

Told(h, notified) ==
    handling' = [handling EXCEPT
        ![h].notified = notified,
        ![h].pc = IF areAllPermanentBounces(handling[h].bounces)
                  THEN "deactivate" ELSE "save"]

\* sendEmailBounceNotification, sendSmsBounceNotification and
\* setNotificationState. There may be nobody to tell; and when a mail fails
\* some of the editors may have got it.
sendBounceNotification(h) ==
    /\ HandlingAt(h, "notify")
    /\ \/ hasNotified(h) /\ Told(h, TRUE) /\ UNCHANGED <<notices, lost>>
       \/ /\ ~hasNotified(h)
          /\ \/ Told(h, TRUE) /\ notices' = notices + 1 /\ UNCHANGED lost
             \/ Told(h, FALSE) /\ UNCHANGED <<notices, lost>>
             \/ Told(h, FALSE) /\ notices' = notices + 1 /\ BounceFails
    /\ UNCHANGED <<documents, closedFor, arrived>>

\* The last report of a recipient: this one, or the last that had been saved.
LastReport(h, r, saved) ==
    IF handling[h].reported[r] # "absent"
    THEN handling[h].reported[r] ELSE saved[r]

\* deactivateForm and notifyAdminsOfDeactivation, whatever their results.
deactivateForm(h) ==
    /\ HandlingAt(h, "deactivate")
    /\ HandleNext(h, "save")
    /\ closedFor' = {LastReport(h, r, handling[h].read.saved) :
                        r \in Recipients(handling[h].bounces)}
    /\ UNCHANGED <<documents, notices, lost, arrived>>

Saved(h) ==
    [version |-> handling[h].read.version, bounces |-> handling[h].bounces,
     notified |-> handling[h].notified, removed |-> FALSE,
     saved |-> handling[h].reported]

Insert(h) ==
    /\ handling[h].of = NewDocument
    /\ documents' = Append(documents, Saved(h))
    /\ UNCHANGED lost

\* The bounces are written as a whole, and only if they have changed.
BouncesChanged(h) == handling[h].bounces # handling[h].read.bounces

\* Mutant of SameBounceVersion: the version is not part of the filter.
AnyStoredVersion(h) == TRUE

SameBounceVersion(h) ==
    documents[handling[h].of].version = handling[h].read.version

Found(h) ==
    /\ handling[h].of \in Present
    /\ BouncesChanged(h) => SameBounceVersion(h)

\* What has not changed is not written.
Update(h) ==
    /\ handling[h].of # NewDocument
    /\ Found(h)
    /\ documents' = [documents EXCEPT ![handling[h].of] =
          [version |-> @.version + (IF BouncesChanged(h) THEN 1 ELSE 0),
           bounces |-> IF BouncesChanged(h) THEN handling[h].bounces
                       ELSE @.bounces,
           notified |-> IF handling[h].notified # handling[h].read.notified
                        THEN handling[h].notified ELSE @.notified,
           removed |-> FALSE,
           saved |-> IF BouncesChanged(h)
                     THEN [r \in Recipient |-> LastReport(h, r, @.saved)]
                     ELSE @.saved]]
    /\ UNCHANGED lost

\* A conflict is accepted; SNS sees 200, and the notification is lost.
NotFound(h) ==
    /\ handling[h].of # NewDocument
    /\ ~Found(h)
    /\ Loses
    /\ UNCHANGED documents

saveBounceDoc(h) ==
    /\ HandlingAt(h, "save")
    /\ StopHandling(h)
    /\ \/ Insert(h)
       \/ Update(h)
       \/ NotFound(h)
       \/ BounceFails /\ UNCHANGED documents
    /\ UNCHANGED <<closedFor, notices, arrived>>

\* The server stops while it handles the notification.
Crash(h) ==
    /\ ~HandlingAt(h, "idle")
    /\ BounceFails
    /\ StopHandling(h)
    /\ UNCHANGED <<documents, closedFor, notices, arrived>>

\* The index on expireAt.
Expire(d) ==
    /\ d \in Present
    /\ documents' = [documents EXCEPT ![d] = [NoDocument EXCEPT !.removed = TRUE]]
    /\ UNCHANGED <<handling, closedFor, notices, lost, arrived>>

-----------------------------------------------------------------------------

BounceNext ==
    \/ \E h \in BounceHandler :
          \/ \E n \in Notification, d \in Present \cup {NewDocument} :
                ReadBounce(h, n, d)
          \/ sendBounceNotification(h)
          \/ deactivateForm(h)
          \/ saveBounceDoc(h)
          \/ Crash(h)
    \/ \E d \in DOMAIN documents : Expire(d)

BounceSpec == BounceInit /\ [][BounceNext]_bounceVars

-----------------------------------------------------------------------------

Known == Report \cup {"absent"}

BounceDocument == [version : Nat, bounces : [Recipient -> Known],
                   notified : BOOLEAN,
                   removed : BOOLEAN, saved : [Recipient -> Known]]

\* Every variable has its type.
BounceTypeOK ==
    /\ documents \in Seq(BounceDocument)
    /\ handling \in [BounceHandler ->
          [pc : {"idle", "notify", "deactivate", "save"},
           of : DOMAIN documents \cup {NewDocument}, read : BounceDocument,
           bounces : [Recipient -> Known], notified : BOOLEAN,
           reported : [Recipient -> Known]]]
    /\ closedFor \subseteq Known
    /\ {notices, lost} \subseteq Nat
    /\ arrived \in 0 .. MaxNotifications

\* The form is closed only if of every recipient of the mail the last that has
\* been reported, by this notification or by one that was saved before the
\* document was read, is a permanent bounce: no delivery is forgotten when
\* notifications are handled concurrently.
DeactivationJustified == closedFor \subseteq {"Permanent"}

\* Whoever holds a notice that no document shows yet.
Creating == {h \in BounceHandler : handling[h].of = NewDocument
                                    /\ handling[h].notified}

\* The editors are told once for a document, but for the notifications that
\* are handled at the same time and the attempts whose outcome was lost.
NoticesBounded ==
    notices <= Len(documents) * Cardinality(BounceHandler)
                 + Cardinality(Creating) + lost

=============================================================================
