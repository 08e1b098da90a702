---------------------------- MODULE FormEditing ----------------------------
(***************************************************************************)
(* Administrators, and the server itself, edit one form at the same time.  *)
(*                                                                         *)
(* Source: src/src/app/models/form.server.model.ts (the methods and        *)
(* statics that change a form) and admin-form.service.ts (their callers).  *)
(*                                                                         *)
(* A request reads the form, works on the copy it has read, and saves.     *)
(* Mongoose (external) compares and increments the version of the document *)
(* by what was done to an array of it: an array that is written as a whole *)
(* compares and increments, an element that is written by its position     *)
(* compares only, an element that is pushed increments only. An update     *)
(* that does not go through save() does neither, and nor does a change of  *)
(* the status.                                                             *)
(***************************************************************************)
EXTENDS Integers, Sequences, SequencesExt

CONSTANTS MaxRequests,  \* bound: requests
          Fields,       \* bound: fields of the form at first
          Logics        \* bound: logics of the form at first

ASSUME EditingAssumption == {MaxRequests, Fields, Logics} \subseteq Nat

VARIABLES
    form,      \* the document
    request,   \* the requests made so far, with what each has read
    unseen,    \* history: changes of each array that left the version alone:
               \* of the content of an element, or of which one is where
    copies     \* the documents that one node or another may still return,
               \* each with what was unseen by then

editingVars == <<form, request, unseen, copies>>

\* Requests are numbered; an element carries the number of the request that
\* last wrote it, and is named by the one that created it.
Request == 1 .. MaxRequests

Lesser(a, b) == IF a < b THEN a ELSE b

NoId == 0
AtEnd == -1
FirstElements(n) == [i \in 1 .. n |-> [id |-> MaxRequests + i, edit |-> 0]]
ElementId == 0 .. MaxRequests + Fields + Logics
Element == [id : ElementId, edit : 0 .. MaxRequests]

Status == {"PUBLIC", "PRIVATE", "ARCHIVED"}

FieldOp == {"updateFormField", "insertFormField", "duplicateFormField",
            "reorderFormField", "deleteFormField"}
LogicOp == {"createFormLogic", "updateFormLogic", "deleteFormLogic"}
StatusOp == {"archiveForm", "publishForm", "unpublishForm", "deactivateForm"}

\* The array an operation is about.
ArrayOf(op) == IF op \in LogicOp THEN "form_logics" ELSE "form_fields"

Ids(elements) == {elements[i].id : i \in DOMAIN elements}

\* findIndex: 0 if there is none.
IndexOf(elements, id) ==
    IF id \in Ids(elements)
    THEN CHOOSE i \in DOMAIN elements :
            /\ elements[i].id = id
            /\ \A j \in 1 .. i - 1 : elements[j].id # id
    ELSE 0

NoChange == [content |-> 0, position |-> 0]

Copy == [read |-> form, seen |-> unseen]

Init ==
    /\ \E status \in {"PUBLIC", "PRIVATE"} :
          form = [form_fields |-> FirstElements(Fields),
                  form_logics |->
                     [i \in 1 .. Logics |-> [id |-> MaxRequests + Fields + i,
                                             edit |-> 0]],
                  status |-> status, version |-> 0]
    /\ request = <<>>
    /\ unseen = [form_fields |-> NoChange, form_logics |-> NoChange]
    /\ copies = {Copy}

-----------------------------------------------------------------------------
(* What a request does first: it reads the form. Its target is the element  *)
(* it names, its place a position (from 0) or the end.                      *)

assertFormAvailable(read) == read.status # "ARCHIVED"

\* getFormAfterPermissionChecks, and the check that the target exists: it is
\* made by the caller or the method, but always on what has been read here.
\* The form is read from the nearest node, which may lag behind.
Read(op, target, place) ==
    /\ Len(request) < MaxRequests
    /\ \E copy \in copies :
          /\ op # "deactivateForm" => assertFormAvailable(copy.read)
          /\ request' = Append(request,
                [op |-> op, target |-> target, place |-> place,
                 read |-> copy.read, seen |-> copy.seen,
                 pc |-> IF /\ target # NoId
                           /\ target \notin Ids(copy.read[ArrayOf(op)])
                        THEN "notFound"
                        ELSE IF op = "updateFormLogic" THEN "readAgain"
                        ELSE "save"])
    /\ UNCHANGED <<form, unseen>>

\* updateFormLogic of the model reads the form by its id.
ReadAgain(r) ==
    /\ request[r].pc = "readAgain"
    /\ \E copy \in copies :
          request' = [request EXCEPT
             ![r].read = copy.read, ![r].seen = copy.seen,
             ![r].pc = IF request[r].target \in Ids(copy.read.form_logics)
                       THEN "save" ELSE "notFound"]
    /\ UNCHANGED <<form, unseen>>

-----------------------------------------------------------------------------
(* save() of Mongoose.                                                      *)

Answer(r, code) == request' = [request EXCEPT ![r].pc = code]

Saving(r, op) == request[r].pc = "save" /\ request[r].op = op

\* Mutant of SameVersion: the version is not part of the filter.
AnyVersion(r) == TRUE

SameVersion(r) == form.version = request[r].read.version

\* VersionError, which becomes a DatabaseConflictError.
Conflict(r) ==
    ~SameVersion(r) /\ Answer(r, "refused") /\ UNCHANGED <<form, unseen>>

\* Assigning what is there already is not a change.
SetArray(r, array, elements) ==
    \/ /\ elements = request[r].read[array]
       /\ Answer(r, "ok")
       /\ UNCHANGED <<form, unseen>>
    \/ /\ elements # request[r].read[array]
       /\ \/ Conflict(r)
          \/ /\ SameVersion(r)
             /\ form' = [form EXCEPT ![array] = elements, !.version = @ + 1]
             /\ Answer(r, "ok")
             /\ UNCHANGED unseen

\* Mutant of PushedVersion: it is counted by the caller and by save().
CountedTwice(v) == v + 2

\* Mutant of PushedVersion: a push leaves the version alone.
SameAfterPush(v) == v

PushedVersion(v) == v + 1

PushElement(r, array, element) ==
    /\ form' = [form EXCEPT ![array] = Append(@, element),
                            !.version = PushedVersion(@)]
    /\ Answer(r, "ok")
    /\ UNCHANGED unseen

\* The element at position i has this id.
Holds(array, i, id) == i \in DOMAIN form[array] /\ form[array][i].id = id

\* MongoDB fills up an array that has become too short.
Nothing == [id |-> NoId, edit |-> 0]

\* Written by its position: an array within the element that is replaced, if
\* any, has the version incremented as well.
SetElement(r, array, i, element, increment) ==
    \/ Conflict(r)
    \/ /\ SameVersion(r)
       /\ form' = [form EXCEPT ![array] =
             [j \in 1 .. (IF i > Len(@) THEN i ELSE Len(@)) |->
                IF j = i THEN element
                ELSE IF j \in DOMAIN @ THEN form[array][j] ELSE Nothing],
                                !.version = @ + increment]
       /\ unseen' = IF increment = 1 THEN unseen ELSE [unseen EXCEPT
             ![array].content = @ + 1,
             ![array].position = IF Holds(array, i, element.id) THEN @ ELSE @ + 1]
       /\ Answer(r, "ok")

Without(elements, id) ==
    LET kept[n \in 0 .. Len(elements)] ==
            IF n = 0 THEN <<>>
            ELSE IF elements[n].id = id THEN kept[n - 1]
            ELSE Append(kept[n - 1], elements[n])
    IN  kept[Len(elements)]

\* findByIdAndUpdate with $pull, which knows no version.
PullElement(r, array) ==
    /\ form' = [form EXCEPT ![array] = Without(@, request[r].target)]
    /\ unseen' = [unseen EXCEPT ![array].position = @ + 1]
    /\ Answer(r, "ok")

-----------------------------------------------------------------------------
(* The fields.                                                              *)

ReadFields(r) == request[r].read.form_fields

NewElement(r) == [id |-> r, edit |-> r]

\* A field of another type invalidates the document, which is then not saved.
\* fieldToUpdate.set(newField) sets the paths below the position it was found
\* at, so that the element which is there keeps its id.
updateFormFieldById(r) ==
    /\ Saving(r, "updateFormField")
    /\ LET i == IndexOf(ReadFields(r), request[r].target)
           id == IF i \in DOMAIN form.form_fields
                 THEN form.form_fields[i].id ELSE NoId
       IN  \/ Answer(r, "refused") /\ UNCHANGED <<form, unseen>>
           \/ \E increment \in {0, 1} :
                 SetElement(r, "form_fields", i, [id |-> id, edit |-> r],
                            increment)

insertFormField(r) ==
    /\ Saving(r, "insertFormField")
    /\ IF request[r].place = AtEnd
       THEN PushElement(r, "form_fields", NewElement(r))
       ELSE SetArray(r, "form_fields",
              InsertAt(ReadFields(r),
                       1 + Lesser(request[r].place, Len(ReadFields(r))),
                       NewElement(r)))

duplicateFormFieldByIdAndIndex(r) ==
    /\ Saving(r, "duplicateFormField")
    /\ SetArray(r, "form_fields",
          InsertAt(ReadFields(r),
                   IndexOf(ReadFields(r), request[r].target) + 1,
                   NewElement(r)))

reorder(elements, from, to) ==
    InsertAt(RemoveAt(elements, from), 1 + Lesser(to, Len(elements) - 1),
             elements[from])

reorderFormFieldById(r) ==
    /\ Saving(r, "reorderFormField")
    /\ SetArray(r, "form_fields",
          reorder(ReadFields(r), IndexOf(ReadFields(r), request[r].target),
                  request[r].place))

deleteFormFieldById(r) ==
    /\ Saving(r, "deleteFormField")
    /\ PullElement(r, "form_fields")

-----------------------------------------------------------------------------
(* The logics.                                                              *)

createFormLogic(r) ==
    /\ Saving(r, "createFormLogic")
    /\ PushElement(r, "form_logics", NewElement(r))

\* The whole element is written, with the id it must have.
updateFormLogic(r) ==
    /\ Saving(r, "updateFormLogic")
    /\ SetElement(r, "form_logics",
          IndexOf(request[r].read.form_logics, request[r].target),
          [id |-> request[r].target, edit |-> r], 0)

deleteFormLogic(r) ==
    /\ Saving(r, "deleteFormLogic")
    /\ PullElement(r, "form_logics")

-----------------------------------------------------------------------------
(* The status.                                                              *)

SetStatus(r, status) ==
    /\ form' = [form EXCEPT !.status = status]
    /\ Answer(r, "ok")
    /\ UNCHANGED unseen

archive(r) ==
    /\ Saving(r, "archiveForm")
    /\ SetStatus(r, "ARCHIVED")

\* findByIdAndUpdate with the status among the settings.
updateFormSettings(r) ==
    \/ Saving(r, "publishForm") /\ SetStatus(r, "PUBLIC")
    \/ Saving(r, "unpublishForm") /\ SetStatus(r, "PRIVATE")

\* By the submission limit or a bounce, without a check of the permissions.
deactivateById(r) ==
    /\ Saving(r, "deactivateForm")
    /\ SetStatus(r, IF request[r].read.status = "PUBLIC"
                    THEN "PRIVATE" ELSE form.status)

-----------------------------------------------------------------------------

\* Any element that is or was in the form may be named.
Named(array) ==
    LET about == {r \in DOMAIN request : ArrayOf(request[r].op) = array}
    IN  (Ids(form[array]) \cup {request[r].target : r \in about}) \ {NoId}

Position == 0 .. Len(form.form_fields)

Receive ==
    \/ \E op \in FieldOp, f \in Named("form_fields"), to \in Position :
          CASE op = "insertFormField" -> Read(op, NoId, to)
            [] op = "reorderFormField" -> Read(op, f, to)
            [] OTHER -> Read(op, f, AtEnd)
    \/ Read("insertFormField", NoId, AtEnd)
    \/ Read("createFormLogic", NoId, AtEnd)
    \/ \E op \in LogicOp \ {"createFormLogic"}, l \in Named("form_logics") :
          Read(op, l, AtEnd)
    \/ \E op \in StatusOp : Read(op, NoId, AtEnd)

Save(r) ==
    \/ updateFormFieldById(r)
    \/ insertFormField(r)
    \/ duplicateFormFieldByIdAndIndex(r)
    \/ reorderFormFieldById(r)
    \/ deleteFormFieldById(r)
    \/ createFormLogic(r)
    \/ updateFormLogic(r)
    \/ deleteFormLogic(r)
    \/ archive(r)
    \/ updateFormSettings(r)
    \/ deactivateById(r)

Next ==
    /\ \/ Receive
       \/ \E r \in DOMAIN request : ReadAgain(r) \/ Save(r)
    /\ copies' = copies \cup {Copy'}

Spec == Init /\ [][Next]_editingVars

-----------------------------------------------------------------------------

Array == {"form_fields", "form_logics"}

Document == [form_fields : Seq(Element), form_logics : Seq(Element),
             status : Status, version : Nat]

Changes == [Array -> [content : Nat, position : Nat]]

\* Every variable has its type, and the version counts at most the requests.
TypeOK ==
    /\ form \in Document
    /\ form.version <= MaxRequests
    /\ unseen \in Changes
    /\ copies \subseteq [read : Document, seen : Changes] /\ Copy \in copies
    /\ Len(request) <= MaxRequests
    /\ \A r \in DOMAIN request :
          /\ request[r].op \in FieldOp \cup LogicOp \cup StatusOp
          /\ request[r].pc \in {"readAgain", "save", "ok", "refused",
                                "notFound"}
          /\ request[r].target \in ElementId
          /\ request[r].read \in Document
          /\ request[r].seen \in Changes

\* What the version could not tell request r: since it has read the form,
\* positions have changed under it, or contents that it writes back.
Misled(r) ==
    LET array == ArrayOf(request[r].op)
        moved == unseen[array].position # request[r].seen[array].position
        written == unseen[array].content # request[r].seen[array].content
    IN  CASE request[r].op \in {"updateFormField", "updateFormLogic"} -> moved
          [] request[r].op \in {"duplicateFormField", "reorderFormField"}
               -> moved \/ written
          [] request[r].op = "insertFormField"
               -> request[r].place # AtEnd /\ (moved \/ written)
          [] OTHER -> FALSE

Elements(array) == {form[array][i] : i \in DOMAIN form[array]}

\* Request r has changed no element but its target, has brought no deleted
\* element back, and has added at most its own.
OnlyTarget(r) ==
    \A array \in Array :
        LET others == {e \in Elements(array) : e.id # request[r].target}
        IN  /\ others \subseteq Elements(array)'
            /\ Ids(form'[array]) \subseteq Ids(form[array]) \cup {r}

\* A request that is answered with success, however many others were saved
\* since it has read the form, does what it says to the form as it is then:
\* no other change is lost, undone or overwritten. The version sees to it but
\* for the changes that leave it alone.
SavesOnlyTarget ==
    [][\A r \in DOMAIN request :
          (/\ request[r].pc = "save" /\ request'[r].pc = "ok"
           /\ ~Misled(r)) => OnlyTarget(r)]_editingVars

\* A field of the form, and one whose creation has been acknowledged, is lost
\* only by a request that deletes it.
FieldsStay ==
    LET deleted == {request[r].target : r \in {q \in DOMAIN request :
                       request[q].op = "deleteFormField" /\ request[q].pc = "ok"}}
        created == {r \in DOMAIN request :
                       /\ request[r].op \in {"insertFormField",
                                             "duplicateFormField"}
                       /\ request[r].pc = "ok"}
    IN  Ids(FirstElements(Fields)) \cup created
            \subseteq Ids(form.form_fields) \cup deleted

\* An update of a logic that has been deleted meanwhile is answered with
\* LogicNotFoundError (admin-form.service.ts, updateFormLogic).
DeletedLogicNotFound ==
    [][\A r \in DOMAIN request :
          (/\ request[r].op = "updateFormLogic"
           /\ request[r].pc = "save" /\ request'[r].pc = "ok")
             => request[r].target \in Ids(form.form_logics)]_editingVars

=============================================================================
