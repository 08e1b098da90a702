----------------------------- MODULE FormLogic -----------------------------
(***************************************************************************)
(* Conditional logic of a form.  Both the browser and the server compute   *)
(* which fields of the form are visible and whether a logic unit prevents  *)
(* the submission, each with an implementation of its own: the browser on  *)
(* the inputs of the page it has rendered, after every change; the server  *)
(* on the responses it receives, with the form as it is stored by then.    *)
(* The server refuses a response that its own computation did not expect.  *)
(*                                                                         *)
(* An answer is abstracted to its text, and a condition's value to the     *)
(* texts it lists; NumberOf is JavaScript's Number() on those texts.       *)
(***************************************************************************)
EXTENDS Integers, Sequences, FiniteSets

CONSTANTS
  FieldIds,       \* identifiers of form fields
  Kind,           \* FieldIds -> the field's type, fixed when it is created
  Required,       \* the fields that must be answered when they are visible
  Prefilled,      \* the fields a link or MyInfo may fill before the user does
  Texts,          \* the answers that occur, as strings; "" when there is none
  NumberOf,       \* Texts -> Number(text), NaN when it is not a number
  NaN,
  OthersTexts,    \* the texts that start with "Others: "
  Inputs,         \* FieldIds -> what a user may enter in the field
  Forms,          \* the versions of the form that an administrator may save
  MaxSaves        \* bound: how often the form is saved while pages are open

(***************************************************************************)
(* A condition names a field, a comparison and the values to compare with; *)
(* a logic unit either shows fields or prevents submission.  An input also *)
(* says whether "Others" is selected in a radio field, and with a text or  *)
(* without.                                                                *)
(***************************************************************************)
States == {"equals", "either", "lte", "gte"}
Condition == [field : FieldIds, state : States, values : SUBSET Texts]
Logic == [type : {"show", "prevent"}, show : SUBSET FieldIds,
          conditions : SUBSET Condition]
Form == [fields : Seq(FieldIds), logics : SUBSET Logic]
Input == [text : Texts, others : {"no", "blank", "typed"}]
Nothing == [text |-> "", others |-> "no"]
Logicable == {"yes_no", "radio", "rating", "number", "decimal", "dropdown"}

ASSUME KindAssumption == Kind \in [FieldIds -> STRING]
ASSUME TextAssumption ==
  /\ "" \in Texts
  /\ OthersTexts \subseteq Texts
  /\ NumberOf \in [Texts -> Int \cup {NaN}]
ASSUME InputAssumption == Inputs \in [FieldIds -> SUBSET Input]
ASSUME FormAssumption == Forms \subseteq Form
ASSUME FieldSetAssumption == Required \subseteq FieldIds /\ Prefilled \subseteq FieldIds
ASSUME BoundAssumption == MaxSaves \in Nat

VARIABLES
  form,       \* the form in the database
  page,       \* the copy of it that the browser has rendered
  inputs,     \* what the page's fields hold, visible or not
  shown,      \* the fields the page shows
  answers,    \* the responses of the last submission, by field
  verdict,    \* what the server said to it
  pc,         \* what goes on: rendering, idle, sent, checking, done
  used,       \* the copy of the form the running evaluation reads
  visible,    \* getVisibleFieldIds: fields found visible so far
  cursor,     \* position in used.fields of the next field to look at
  changed,    \* changesMade
  saves       \* number of saves so far

evaluation == <<used, visible, cursor, changed>>
vars == <<form, page, inputs, shown, answers, verdict, pc, evaluation, saves>>

-----------------------------------------------------------------------------
(***************************************************************************)
(* Conditions, as the browser and as the server read them.                 *)
(***************************************************************************)
Ids(f) == {f.fields[k] : k \in DOMAIN f.fields}

AtMost(a, b) == a \in Int /\ b \in Int /\ a <= b

\* isConditionFulfilled of the browser.
ClientFulfils(i, c) ==
  /\ Kind[c.field] \in Logicable
  /\ i.text # ""
  /\ \/ c.state = "lte" /\ \E v \in c.values : AtMost(NumberOf[i.text], NumberOf[v])
     \/ c.state = "gte" /\ \E v \in c.values : AtMost(NumberOf[v], NumberOf[i.text])
     \/ c.state = "either" /\ i.others = "typed" /\ "Others" \in c.values
     \/ c.state = "equals" /\ i.others # "no" /\ "Others" \in c.values
     \/ c.state = "either" /\ i.others = "no" /\ i.text \in c.values
     \/ /\ c.state = "equals"
        /\ i.others = "no"
        /\ IF Kind[c.field] = "decimal"
           THEN \E v \in c.values : /\ NumberOf[v] \in Int
                                    /\ NumberOf[v] = NumberOf[i.text]
           ELSE i.text \in c.values

\* Mutant: an answer given under "Others" is compared like any other.
NoOthers(t, c) ==
  /\ t # ""
  /\ \/ c.state = "lte" /\ \E v \in c.values : AtMost(NumberOf[t], NumberOf[v])
     \/ c.state = "gte" /\ \E v \in c.values : AtMost(NumberOf[v], NumberOf[t])
     \/ c.state \in {"equals", "either"} /\ t \in c.values

\* isConditionFulfilled of the server: one rule for every type of field.
ServerFulfils(t, c) ==
  /\ t # ""
  /\ \/ c.state = "lte" /\ \E v \in c.values : AtMost(NumberOf[t], NumberOf[v])
     \/ c.state = "gte" /\ \E v \in c.values : AtMost(NumberOf[v], NumberOf[t])
     \/ /\ c.state \in {"equals", "either"}
        /\ \/ t \in c.values
           \/ "Others" \in c.values /\ t \in OthersTexts

Conditions == UNION {l.conditions : l \in UNION {f.logics : f \in Forms}}

\* The conditions fulfilled by a page's inputs, and by a list of responses.
ClientTruth(in) == {c \in Conditions : ClientFulfils(in[c.field], c)}
ServerTruth(ans) ==
  {c \in Conditions : c.field \in DOMAIN ans /\ ServerFulfils(ans[c.field], c)}

(***************************************************************************)
(* The rules both sides share.  A unit with a condition on a field that    *)
(* was deleted is left out; a field no remaining unit shows is visible.    *)
(***************************************************************************)
Valid(f, l) == \A c \in l.conditions : c.field \in Ids(f)

Groups(f, x) == {l \in f.logics : l.type = "show" /\ x \in l.show /\ Valid(f, l)}

Satisfied(truth, vis, l) == \A c \in l.conditions : c.field \in vis /\ c \in truth

Due(f, truth, vis, x) ==
  \/ Groups(f, x) = {}
  \/ \E l \in Groups(f, x) : Satisfied(truth, vis, l)

Prevented(f, truth, vis) ==
  \E l \in f.logics : l.type = "prevent" /\ Valid(f, l) /\ Satisfied(truth, vis, l)

Truth == IF pc = "rendering" THEN ClientTruth(inputs) ELSE ServerTruth(answers)

-----------------------------------------------------------------------------
(***************************************************************************)
(* The browser opens the form, renders it again after each change of an    *)
(* input, and submits it.                                                  *)
(***************************************************************************)
Values(x) == Inputs[x] \cup {Nothing}

\* What the fields of a freshly opened page may hold.
Prefills(f) ==
  {in \in [FieldIds -> UNION {Values(x) : x \in Prefilled} \cup {Nothing}] :
     \A x \in FieldIds :
       in[x] \in IF x \in Prefilled \cap Ids(f) THEN Values(x) ELSE {Nothing}}

Init ==
  /\ form \in Forms
  /\ page = form
  /\ inputs \in Prefills(form)
  /\ shown = {}
  /\ answers = <<>>
  /\ verdict = "none"
  /\ pc = "rendering"
  /\ used = form
  /\ visible = {}
  /\ cursor = 1
  /\ changed = FALSE
  /\ saves = 0

StartEvaluation(f) ==
  /\ used' = f
  /\ visible' = {}
  /\ cursor' = 1
  /\ changed' = FALSE

Render(f, in) ==
  /\ StartEvaluation(f)
  /\ page' = f
  /\ inputs' = in
  /\ shown' = {}
  /\ answers' = <<>>
  /\ verdict' = "none"
  /\ pc' = "rendering"

Open(in) ==
  /\ pc \in {"idle", "done"}
  /\ Render(form, in)
  /\ UNCHANGED <<form, saves>>

Type(x, i) ==
  /\ pc = "idle"
  /\ x \in shown
  /\ i # inputs[x]
  /\ Render(page, [inputs EXCEPT ![x] = i])
  /\ UNCHANGED <<form, saves>>

\* Mutant: the inputs of hidden fields are sent too.
AllResponses(f, in, vis) == [x \in Ids(f) |-> in[x].text]

\* filterHiddenInputs, then one response per field of the page.
Responses(f, in, vis) == [x \in Ids(f) |-> IF x \in vis THEN in[x].text ELSE ""]

\* The page's own validation of the fields it shows.
FilledIn ==
  \A x \in shown : /\ inputs[x].others # "blank"
                   /\ x \in Required => inputs[x].text # ""

Submit ==
  /\ pc = "idle"
  /\ ~Prevented(page, ClientTruth(inputs), shown)
  /\ FilledIn
  /\ answers' = Responses(page, inputs, shown)
  /\ verdict' = "none"
  /\ pc' = "sent"
  /\ UNCHANGED <<form, page, inputs, shown, evaluation, saves>>

(***************************************************************************)
(* getVisibleFieldIds, run by either side: passes over the form's fields   *)
(* until a pass adds none.                                                 *)
(***************************************************************************)
Running == pc \in {"rendering", "checking"}

Visit ==
  /\ Running
  /\ cursor <= Len(used.fields)
  /\ LET x == used.fields[cursor]
         adds == x \notin visible /\ Due(used, Truth, visible, x)
     IN  /\ visible' = IF adds THEN visible \cup {x} ELSE visible
         /\ changed' = (changed \/ adds)
  /\ cursor' = cursor + 1
  /\ UNCHANGED <<form, page, inputs, shown, answers, verdict, pc, used, saves>>

\* Mutant: changesMade is not reset at the start of a pass.
ChangedKept ==
  /\ Running
  /\ cursor > Len(used.fields)
  /\ changed
  /\ cursor' = 1
  /\ UNCHANGED <<form, page, inputs, shown, answers, verdict, pc, used, visible,
                 changed, saves>>

NextPass ==
  /\ Running
  /\ cursor > Len(used.fields)
  /\ changed
  /\ cursor' = 1
  /\ changed' = FALSE
  /\ UNCHANGED <<form, page, inputs, shown, answers, verdict, pc, used, visible, saves>>

\* Mutant: one pass over the fields.
OnePass == Running /\ cursor > Len(used.fields)

PassesOver == Running /\ cursor > Len(used.fields) /\ ~changed

Rendered ==
  /\ PassesOver
  /\ pc = "rendering"
  /\ shown' = visible
  /\ pc' = "idle"
  /\ UNCHANGED <<form, page, inputs, answers, verdict, evaluation, saves>>

(***************************************************************************)
(* The server loads the form, keeps the responses to its fields and checks *)
(* them against the visible fields (parseResponses, validateField).        *)
(***************************************************************************)
Refuse(reason) ==
  /\ verdict' = reason
  /\ pc' = "idle"

\* The nearest node, from which the form is loaded, may lag behind: it may still
\* have the form of the page. (That it has another one which the form has been
\* before comes to the same as that one being saved again just now.)
Receive ==
  /\ pc = "sent"
  /\ \E loaded \in {form, page} :
        /\ answers' = [x \in DOMAIN answers \cap Ids(loaded) |-> answers[x]]
        /\ StartEvaluation(loaded)
        /\ IF Ids(loaded) \subseteq DOMAIN answers
           THEN pc' = "checking" /\ UNCHANGED verdict
           ELSE Refuse("conflict")
  /\ UNCHANGED <<form, page, inputs, shown, saves>>

\* Mutant: answers on hidden fields are not looked for.
HiddenUnchecked == FALSE

AnswerOnHidden == \E x \in DOMAIN answers : x \notin visible /\ answers[x] # ""

AnswerMissing ==
  \E x \in DOMAIN answers : x \in Required /\ x \in visible /\ answers[x] = ""

Decide ==
  /\ PassesOver
  /\ pc = "checking"
  /\ \/ /\ Prevented(used, Truth, visible)
        /\ Refuse("prevented")
     \/ /\ ~Prevented(used, Truth, visible)
        /\ AnswerOnHidden \/ AnswerMissing
        /\ Refuse("invalid")
     \/ /\ ~Prevented(used, Truth, visible)
        /\ ~AnswerOnHidden /\ ~AnswerMissing
        /\ verdict' = "accepted"
        /\ pc' = "done"
  /\ UNCHANGED <<form, page, inputs, shown, answers, evaluation, saves>>

\* Any of the administrator's edits of fields and logic.
SaveForm(f) ==
  /\ saves < MaxSaves
  /\ f # form
  /\ form' = f
  /\ saves' = saves + 1
  /\ UNCHANGED <<page, inputs, shown, answers, verdict, pc, evaluation>>

-----------------------------------------------------------------------------
Respondent ==
  \/ \E in \in Prefills(form) : Open(in)
  \/ \E x \in FieldIds : \E i \in Inputs[x] : Type(x, i)
  \/ Submit

Evaluation == Visit \/ NextPass \/ Rendered \/ Decide

Next == Respondent \/ Evaluation \/ Receive \/ \E f \in Forms : SaveForm(f)

Spec == Init /\ [][Next]_vars

\* The loop runs to its end within one event handler.
FairSpec == Spec /\ WF_vars(Evaluation)

-----------------------------------------------------------------------------
(***************************************************************************)
(* What the loop should compute: the least set of fields that contains     *)
(* every field which is due in view of that set.                           *)
(***************************************************************************)
Closed(f, truth, S) == \A x \in Ids(f) : Due(f, truth, S, x) => x \in S

Least(f, truth) ==
  {x \in Ids(f) : \A S \in SUBSET Ids(f) : Closed(f, truth, S) => x \in S}

\* Browser and server read a complete input alike: true as long as a number
\* has one spelling and no plain option starts with "Others: ".
SameReading ==
  \A c \in Conditions : \A i \in Inputs[c.field] :
    i.others # "blank" => (ClientFulfils(i, c) <=> ServerFulfils(i.text, c))

Verdicts == {"none", "conflict", "prevented", "invalid", "accepted"}

\* Each variable has its type, and an evaluation stays within its form.
TypeOK ==
  /\ form \in Forms /\ page \in Forms /\ used \in Forms
  /\ DOMAIN inputs = FieldIds /\ \A x \in FieldIds : inputs[x] \in Values(x)
  /\ shown \subseteq FieldIds
  /\ DOMAIN answers \subseteq FieldIds
  /\ \A x \in DOMAIN answers : answers[x] \in Texts
  /\ verdict \in Verdicts
  /\ pc \in {"rendering", "idle", "sent", "checking", "done"}
  /\ visible \subseteq Ids(used)
  /\ cursor \in 1 .. Len(used.fields) + 1
  /\ changed \in BOOLEAN
  /\ saves \in 0 .. MaxSaves

\* The page shows, and the server has checked against, exactly the fields
\* that follow from the answers: whatever the order of the form's fields, no
\* field is shown only because of a hidden one, or by a circle of conditions,
\* and none that is due is left out by stopping a pass too early.
VisibleIsLeast ==
  /\ pc = "idle" => shown = Least(page, ClientTruth(inputs))
  /\ verdict \in {"prevented", "invalid", "accepted"} =>
       visible = Least(used, ServerTruth(answers))

\* What the server keeps is consistent with the form it was checked against:
\* no answer to a hidden field, every visible required field answered, no
\* unit that prevents submission satisfied.  The page may have been stale.
StoredConsistent ==
  pc = "done" =>
    LET truth == ServerTruth(answers)
        vis == Least(used, truth)
    IN  /\ DOMAIN answers = Ids(used)
        /\ \A x \in Ids(used) : answers[x] # "" => x \in vis
        /\ \A x \in Required \cap vis : answers[x] # ""
        /\ ~Prevented(used, truth, vis)

\* The two implementations agree: a response the page let the user submit is
\* refused only if the server has loaded another form than the page, because
\* the form was changed in between or one of the nodes asked lagged behind.
RefusedOnlyIfStale ==
  verdict \in {"conflict", "prevented", "invalid"} => used # page

\* When the server has loaded the form of the page, it takes exactly the fields
\* the page showed for visible, so the stored answers are those the user saw.
SameFieldsShown == pc = "done" /\ used = page => visible = shown

\* Every evaluation ends: a pass that adds nothing is the last.
EvaluationEnds ==
  /\ pc = "rendering" ~> pc = "idle"
  /\ pc = "checking" ~> pc # "checking"
=============================================================================
