-------------------------- MODULE FormLogicProofs --------------------------
(***************************************************************************)
(* Proofs about FormLogic, for any set of fields, forms and inputs.        *)
(***************************************************************************)
EXTENDS FormLogic, TLAPS

-----------------------------------------------------------------------------
(***************************************************************************)
(* Facts about the rules.                                                  *)
(***************************************************************************)

\* More visible fields make no fewer fields due.
LEMMA DueMonotone ==
  ASSUME NEW f, NEW truth, NEW S, NEW T, S \subseteq T, NEW x, Due(f, truth, S, x)
  PROVE  Due(f, truth, T, x)
BY DEF Due, Satisfied

\* The least set is closed, and inside every closed set.
LEMMA LeastIsClosed ==
  ASSUME NEW f, NEW truth
  PROVE  /\ Closed(f, truth, Least(f, truth))
         /\ Least(f, truth) \subseteq Ids(f)
         /\ \A S \in SUBSET Ids(f) : Closed(f, truth, S) => Least(f, truth) \subseteq S
<1> DEFINE L == Least(f, truth)
<1>1. L \subseteq Ids(f) /\ \A S \in SUBSET Ids(f) : Closed(f, truth, S) => L \subseteq S
  BY DEF Least
<1>2. ASSUME NEW x \in Ids(f), Due(f, truth, L, x)
      PROVE  x \in L
  <2>1. ASSUME NEW S \in SUBSET Ids(f), Closed(f, truth, S)
        PROVE  x \in S
    <3>1. L \subseteq S
      BY <1>1, <2>1
    <3>2. Due(f, truth, S, x)
      BY <3>1, <1>2, DueMonotone
    <3> QED
      BY <3>2, <2>1 DEF Closed
  <2> QED
    BY <2>1 DEF Least
<1> QED
  BY <1>1, <1>2 DEF Closed

\* A closed set inside every closed set is the least one.
LEMMA LeastIsUnique ==
  ASSUME NEW f, NEW truth, NEW V \in SUBSET Ids(f), Closed(f, truth, V),
         \A S \in SUBSET Ids(f) : Closed(f, truth, S) => V \subseteq S
  PROVE  V = Least(f, truth)
<1>1. Least(f, truth) \subseteq V
  BY LeastIsClosed
<1>2. V \subseteq Least(f, truth)
  BY DEF Least
<1> QED
  BY <1>1, <1>2

LEMMA NothingFacts ==
  Nothing \in Input /\ Nothing.text = ""
BY TextAssumption DEF Nothing, Input

\* What is known of a page that has been submitted.
Complete(in, vis) == \A x \in vis : in[x].others # "blank"

\* A condition on a visible field reads alike on both sides.
LEMMA VisibleReadAlike ==
  ASSUME SameReading,
         NEW f \in Forms, NEW in, NEW vis \in SUBSET Ids(f), Ids(f) \subseteq FieldIds,
         \A x \in FieldIds : in[x] \in Values(x),
         Complete(in, vis),
         NEW c \in Conditions, c.field \in vis
  PROVE  c \in ClientTruth(in) <=> c \in ServerTruth(Responses(f, in, vis))
<1> DEFINE x == c.field
           ans == Responses(f, in, vis)
<1>1. x \in FieldIds /\ x \in Ids(f) /\ in[x].others # "blank"
  BY DEF Complete
<1>2. x \in DOMAIN ans /\ ans[x] = in[x].text
  BY <1>1 DEF Responses
<1>3. ClientFulfils(in[x], c) <=> ServerFulfils(in[x].text, c)
  <2>1. CASE in[x] \in Inputs[x]
    BY <2>1, <1>1 DEF SameReading
  <2>2. CASE in[x] = Nothing
    <3>1. in[x].text = ""
      BY <2>2, NothingFacts
    <3> HIDE DEF x
    <3>2. ~ClientFulfils(in[x], c)
      BY <3>1 DEF ClientFulfils
    <3>3. ~ServerFulfils(in[x].text, c)
      BY <3>1 DEF ServerFulfils
    <3> QED
      BY <3>2, <3>3
  <2> QED
    BY <2>1, <2>2, <1>1 DEF Values
<1> QED
  BY <1>2, <1>3 DEF ClientTruth, ServerTruth

\* The server computes, from the responses of a page, the fields it shows.
LEMMA Agreement ==
  ASSUME SameReading,
         NEW f \in Forms, NEW in, Ids(f) \subseteq FieldIds,
         \A x \in FieldIds : in[x] \in Values(x),
         Complete(in, Least(f, ClientTruth(in)))
  PROVE  Least(f, ServerTruth(Responses(f, in, Least(f, ClientTruth(in)))))
           = Least(f, ClientTruth(in))
<1> DEFINE ct == ClientTruth(in)
           LC == Least(f, ct)
           st == ServerTruth(Responses(f, in, LC))
           LS == Least(f, st)
<1>1. LC \in SUBSET Ids(f) /\ LS \in SUBSET Ids(f)
  BY LeastIsClosed
<1>2. ASSUME NEW c \in Conditions, c.field \in LC
      PROVE  c \in ct <=> c \in st
  BY <1>1, <1>2, VisibleReadAlike
<1>3. \A l \in f.logics : \A c \in l.conditions : c \in Conditions
  BY DEF Conditions
<1>4. ASSUME NEW l \in f.logics, NEW vis \in SUBSET LC
      PROVE  Satisfied(ct, vis, l) <=> Satisfied(st, vis, l)
  BY <1>2, <1>3 DEF Satisfied
<1>5. ASSUME NEW x, NEW vis \in SUBSET LC
      PROVE  Due(f, ct, vis, x) <=> Due(f, st, vis, x)
  BY <1>4 DEF Due, Groups
<1>6. Closed(f, st, LC)
  <2>1. Closed(f, ct, LC)
    BY LeastIsClosed
  <2> QED
    BY <2>1, <1>5 DEF Closed
<1>7. LS \subseteq LC
  BY <1>1, <1>6, LeastIsClosed
<1>8. Closed(f, ct, LS)
  <2>1. Closed(f, st, LS)
    BY LeastIsClosed
  <2> QED
    BY <2>1, <1>5, <1>7 DEF Closed
<1>9. LC \subseteq LS
  BY <1>1, <1>8, LeastIsClosed
<1> QED
  BY <1>7, <1>9

\* ... and then prevents the submission if and only if the page does.
LEMMA PreventAlike ==
  ASSUME SameReading,
         NEW f \in Forms, NEW in, NEW vis \in SUBSET Ids(f), Ids(f) \subseteq FieldIds,
         \A x \in FieldIds : in[x] \in Values(x),
         Complete(in, vis)
  PROVE  Prevented(f, ClientTruth(in), vis)
           <=> Prevented(f, ServerTruth(Responses(f, in, vis)), vis)
<1>1. \A l \in f.logics : \A c \in l.conditions : c \in Conditions
  BY DEF Conditions
<1>2. \A c \in Conditions : c.field \in vis =>
        (c \in ClientTruth(in) <=> c \in ServerTruth(Responses(f, in, vis)))
  BY VisibleReadAlike
<1> QED
  BY <1>1, <1>2 DEF Prevented, Satisfied

-----------------------------------------------------------------------------
LEMMA FormFacts ==
  ASSUME NEW f \in Forms
  PROVE  /\ f.fields \in Seq(FieldIds)
         /\ Len(f.fields) \in Nat
         /\ DOMAIN f.fields = 1 .. Len(f.fields)
         /\ Ids(f) \subseteq FieldIds
         /\ \A k \in 1 .. Len(f.fields) : f.fields[k] \in Ids(f)
         /\ \A x \in Ids(f) : \E k \in 1 .. Len(f.fields) : x = f.fields[k]
<1>1. f.fields \in Seq(FieldIds)
  BY FormAssumption DEF Form
<1> QED
  BY <1>1 DEF Ids

LEMMA ValuesFacts ==
  ASSUME NEW x \in FieldIds, NEW v \in Values(x)
  PROVE  v \in Input /\ v.text \in Texts
<1>1. v \in Input
  BY InputAssumption, NothingFacts DEF Values
<1> QED
  BY <1>1 DEF Input

LEMMA PrefillFacts ==
  ASSUME NEW f, NEW in \in Prefills(f)
  PROVE  DOMAIN in = FieldIds /\ \A x \in FieldIds : in[x] \in Values(x)
<1>1. ASSUME NEW x \in FieldIds
      PROVE  in[x] \in Values(x)
  <2>1. in[x] \in IF x \in Prefilled \cap Ids(f) THEN Values(x) ELSE {Nothing}
    BY DEF Prefills
  <2> QED
    BY <2>1 DEF Values
<1> QED
  BY <1>1 DEF Prefills

-----------------------------------------------------------------------------
(***************************************************************************)
(* The inductive invariant.  LoopSound and LoopDone are the invariants of  *)
(* getVisibleFieldIds: whatever has been found visible is in every closed  *)
(* set, and a pass that has added nothing so far has settled the fields it *)
(* has looked at.  The others carry what a step established to the steps   *)
(* that rely on it: what the page checked before it submitted, and what    *)
(* the server's verdict says.                                              *)
(***************************************************************************)
Submitted == pc \in {"checking", "done"} \/ verdict # "none"

Phase ==
  /\ pc \in {"rendering", "sent", "checking"} => verdict = "none"
  /\ pc = "done" <=> verdict = "accepted"
  /\ pc = "rendering" => used = page

LoopSound ==
  Running => \A S \in SUBSET Ids(used) : Closed(used, Truth, S) => visible \subseteq S

LoopDone ==
  Running /\ ~changed =>
    \A k \in 1 .. cursor - 1 : \/ used.fields[k] \in visible
                               \/ ~Due(used, Truth, visible, used.fields[k])

ShownLeast == pc # "rendering" => shown = Least(page, ClientTruth(inputs))

CheckedLeast ==
  verdict \in {"prevented", "invalid", "accepted"} =>
    visible = Least(used, ServerTruth(answers))

SentComplete ==
  pc = "sent" \/ Submitted =>
    FilledIn /\ ~Prevented(page, ClientTruth(inputs), shown)

SentAnswers ==
  /\ pc = "sent" => answers = Responses(page, inputs, shown)
  /\ Submitted /\ used = page => answers = Responses(page, inputs, shown)

CheckedFields == pc \in {"checking", "done"} => DOMAIN answers = Ids(used)

Reasons ==
  /\ verdict = "conflict" => used # page
  /\ verdict = "prevented" => Prevented(used, ServerTruth(answers), visible)
  /\ verdict = "invalid" => AnswerOnHidden \/ AnswerMissing
  /\ verdict = "accepted" => /\ ~Prevented(used, ServerTruth(answers), visible)
                             /\ ~AnswerOnHidden
                             /\ ~AnswerMissing

IInv == /\ TypeOK
        /\ Phase
        /\ LoopSound
        /\ LoopDone
        /\ ShownLeast
        /\ CheckedLeast
        /\ SentComplete
        /\ SentAnswers
        /\ CheckedFields
        /\ Reasons

\* The loop ends with the least set.
LEMMA LoopResult ==
  ASSUME IInv, PassesOver
  PROVE  visible = Least(used, Truth)
<1>1. used \in Forms /\ visible \in SUBSET Ids(used) /\ cursor = Len(used.fields) + 1
  BY FormFacts DEF IInv, TypeOK, PassesOver
<1>2. \A S \in SUBSET Ids(used) : Closed(used, Truth, S) => visible \subseteq S
  BY DEF IInv, LoopSound, PassesOver
<1>3. Closed(used, Truth, visible)
  <2>1. ASSUME NEW x \in Ids(used), Due(used, Truth, visible, x)
        PROVE  x \in visible
    <3>1. PICK k \in 1 .. Len(used.fields) : x = used.fields[k]
      BY <1>1, FormFacts
    <3>2. k \in 1 .. cursor - 1
      BY <1>1, <3>1, FormFacts
    <3> QED
      BY <3>1, <3>2, <2>1 DEF IInv, LoopDone, PassesOver
  <2> QED
    BY <2>1 DEF Closed
<1> QED
  BY <1>1, <1>2, <1>3, LeastIsUnique

-----------------------------------------------------------------------------
(***************************************************************************)
(* Every step preserves the invariant.                                     *)
(***************************************************************************)
LEMMA RenderStep ==
  ASSUME NEW f \in Forms, NEW in, Render(f, in),
         DOMAIN in = FieldIds, \A x \in FieldIds : in[x] \in Values(x),
         form' \in Forms, saves' \in 0 .. MaxSaves
  PROVE  IInv'
<1> USE DEF Render, StartEvaluation
<1>1. Len(f.fields) \in Nat
  BY FormFacts
<1>2. DOMAIN answers' = {}
  OBVIOUS
<1>3. TypeOK'
  <2>1. cursor' \in 1 .. Len(used'.fields) + 1
    BY <1>1
  <2>2. visible' \subseteq Ids(used') /\ shown' \subseteq FieldIds
    OBVIOUS
  <2>3. DOMAIN answers' \subseteq FieldIds /\ \A x \in DOMAIN answers' : answers'[x] \in Texts
    BY <1>2
  <2> QED
    BY <2>1, <2>2, <2>3 DEF TypeOK, Verdicts
<1>4. Phase' /\ ShownLeast' /\ CheckedLeast' /\ CheckedFields' /\ Reasons'
  BY DEF Phase, ShownLeast, CheckedLeast, CheckedFields, Reasons
<1>5. LoopSound' /\ LoopDone'
  BY DEF LoopSound, LoopDone
<1>6. SentComplete' /\ SentAnswers'
  BY DEF SentComplete, SentAnswers, Submitted
<1> QED
  BY <1>3, <1>4, <1>5, <1>6 DEF IInv

LEMMA OpenStep ==
  ASSUME IInv, NEW in \in Prefills(form), Open(in)
  PROVE  IInv'
<1>1. DOMAIN in = FieldIds /\ \A x \in FieldIds : in[x] \in Values(x)
  BY PrefillFacts
<1> QED
  BY <1>1, RenderStep DEF IInv, TypeOK, Open

LEMMA TypeStep ==
  ASSUME IInv, NEW x \in FieldIds, NEW i \in Inputs[x], Type(x, i)
  PROVE  IInv'
<1> DEFINE in == [inputs EXCEPT ![x] = i]
<1>1. DOMAIN in = FieldIds
  BY DEF IInv, TypeOK
<1>2. ASSUME NEW y \in FieldIds
      PROVE  in[y] \in Values(y)
  BY DEF IInv, TypeOK, Values
<1>3. page \in Forms /\ form' \in Forms /\ saves' \in 0 .. MaxSaves
  BY DEF IInv, TypeOK, Type
<1>4. Render(page, in)
  BY DEF Type
<1> HIDE DEF in
<1> QED
  BY <1>1, <1>2, <1>3, <1>4, RenderStep

LEMMA SubmitStep ==
  ASSUME IInv, Submit
  PROVE  IInv'
<1> USE DEF Submit, evaluation
<1>1. page \in Forms /\ Ids(page) \subseteq FieldIds
  BY FormFacts DEF IInv, TypeOK
<1>2. DOMAIN answers' = Ids(page) /\ \A x \in Ids(page) : answers'[x] \in Texts
  <2>1. DOMAIN answers' = Ids(page)
    BY DEF Responses
  <2>2. ASSUME NEW x \in Ids(page)
        PROVE  answers'[x] \in Texts
    <3>1. x \in FieldIds /\ inputs[x] \in Values(x)
      BY <1>1 DEF IInv, TypeOK
    <3>2. inputs[x].text \in Texts
      BY <3>1, ValuesFacts
    <3> QED
      BY <3>2, TextAssumption DEF Responses
  <2> QED
    BY <2>1, <2>2
<1>3. TypeOK'
  BY <1>1, <1>2 DEF IInv, TypeOK, Verdicts
<1>4. Phase' /\ CheckedLeast' /\ CheckedFields' /\ Reasons'
  BY DEF Phase, CheckedLeast, CheckedFields, Reasons
<1>5. LoopSound' /\ LoopDone'
  BY DEF LoopSound, LoopDone, Running
<1>6. ShownLeast'
  BY DEF IInv, ShownLeast
<1>7. SentComplete'
  BY DEF SentComplete, FilledIn
<1>8. SentAnswers'
  BY DEF SentAnswers, Submitted
<1> QED
  BY <1>3, <1>4, <1>5, <1>6, <1>7, <1>8 DEF IInv

LEMMA VisitStep ==
  ASSUME IInv, Visit
  PROVE  IInv'
<1> DEFINE x == used.fields[cursor]
           adds == x \notin visible /\ Due(used, Truth, visible, x)
<1>1. used \in Forms /\ cursor \in 1 .. Len(used.fields) /\ Len(used.fields) \in Nat
  BY FormFacts DEF IInv, TypeOK, Visit
<1>2. x \in Ids(used)
  BY <1>1, FormFacts
<1>3. /\ visible' = (IF adds THEN visible \cup {x} ELSE visible)
      /\ changed' = (changed \/ adds)
      /\ cursor' = cursor + 1
      /\ UNCHANGED <<form, page, inputs, shown, answers, verdict, pc, used, saves>>
  BY DEF Visit
<1>4. Running /\ Running' /\ Truth' = Truth
  BY <1>3 DEF Visit, Running, Truth
<1> HIDE DEF x, adds
<1>5. TypeOK'
  BY <1>1, <1>2, <1>3 DEF IInv, TypeOK, adds
<1>6. Phase' /\ ShownLeast' /\ CheckedFields'
  BY <1>3 DEF IInv, Phase, ShownLeast, CheckedFields
<1>7. CheckedLeast' /\ Reasons'
  BY <1>3, <1>4 DEF IInv, Phase, CheckedLeast, Reasons, Running
<1>8. SentComplete' /\ SentAnswers'
  BY <1>3 DEF IInv, SentComplete, SentAnswers, Submitted, FilledIn
<1>9. LoopSound'
  <2>1. ASSUME NEW S \in SUBSET Ids(used), Closed(used, Truth, S)
        PROVE  visible' \subseteq S
    <3>1. visible \subseteq S
      BY <2>1, <1>4 DEF IInv, LoopSound
    <3>2. CASE adds
      <4>1. Due(used, Truth, S, x)
        BY <3>1, <3>2, DueMonotone DEF adds
      <4>2. x \in S
        BY <4>1, <2>1, <1>2 DEF Closed
      <4> QED
        BY <3>1, <3>2, <4>2, <1>3
    <3>3. CASE ~adds
      BY <3>1, <3>3, <1>3
    <3> QED
      BY <3>2, <3>3
  <2> QED
    BY <2>1, <1>3, <1>4 DEF LoopSound
<1>10. LoopDone'
  <2>1. CASE changed \/ adds
    BY <2>1, <1>3 DEF LoopDone
  <2>2. CASE ~changed /\ ~adds
    <3>1. visible' = visible
      BY <2>2, <1>3
    <3>2. ASSUME NEW k \in 1 .. cursor
          PROVE  \/ used.fields[k] \in visible
                 \/ ~Due(used, Truth, visible, used.fields[k])
      <4>1. CASE k = cursor
        BY <4>1, <2>2 DEF adds, x
      <4>2. CASE k # cursor
        <5>1. k \in 1 .. cursor - 1
          BY <4>2, <1>1
        <5> QED
          BY <5>1, <2>2, <1>4 DEF IInv, LoopDone
      <4> QED
        BY <4>1, <4>2
    <3>3. cursor' - 1 = cursor
      BY <1>1, <1>3
    <3> QED
      BY <3>1, <3>2, <3>3, <1>3, <1>4 DEF LoopDone
  <2> QED
    BY <2>1, <2>2
<1> QED
  BY <1>5, <1>6, <1>7, <1>8, <1>9, <1>10 DEF IInv

LEMMA NextPassStep ==
  ASSUME IInv, NextPass
  PROVE  IInv'
<1> USE DEF NextPass
<1>1. Len(used.fields) \in Nat
  BY FormFacts DEF IInv, TypeOK
<1>2. Running /\ Running' /\ Truth' = Truth
  BY DEF Running, Truth
<1>3. TypeOK'
  <2>1. cursor' \in 1 .. Len(used.fields) + 1
    BY <1>1
  <2> QED
    BY <2>1 DEF IInv, TypeOK
<1>4. Phase' /\ ShownLeast' /\ CheckedFields' /\ CheckedLeast'
  BY DEF IInv, Phase, ShownLeast, CheckedFields, CheckedLeast
<1>5. Reasons'
  BY DEF IInv, Reasons, AnswerOnHidden, AnswerMissing
<1>6. SentComplete' /\ SentAnswers'
  BY DEF IInv, SentComplete, SentAnswers, Submitted, FilledIn
<1>7. LoopSound'
  BY <1>2 DEF IInv, LoopSound
<1>8. LoopDone'
  BY DEF LoopDone
<1> QED
  BY <1>3, <1>4, <1>5, <1>6, <1>7, <1>8 DEF IInv

LEMMA RenderedStep ==
  ASSUME IInv, Rendered
  PROVE  IInv'
<1> USE DEF Rendered, evaluation
<1>1. visible = Least(used, Truth)
  BY LoopResult
<1>2. used = page /\ Truth = ClientTruth(inputs) /\ verdict = "none"
  BY DEF IInv, Phase, Truth
<1>3. Ids(used) \subseteq FieldIds
  BY FormFacts DEF IInv, TypeOK
<1>4. TypeOK'
  BY <1>3 DEF IInv, TypeOK
<1>5. Phase' /\ CheckedFields' /\ CheckedLeast' /\ Reasons'
  BY <1>2 DEF Phase, CheckedFields, CheckedLeast, Reasons
<1>6. ShownLeast'
  BY <1>1, <1>2 DEF ShownLeast
<1>7. SentComplete' /\ SentAnswers'
  BY <1>2 DEF SentComplete, SentAnswers, Submitted
<1>8. LoopSound' /\ LoopDone'
  BY DEF LoopSound, LoopDone, Running
<1> QED
  BY <1>4, <1>5, <1>6, <1>7, <1>8 DEF IInv

LEMMA ReceiveStep ==
  ASSUME IInv, Receive
  PROVE  IInv'
<1>0. PICK loaded \in {form, page} :
        /\ pc = "sent"
        /\ answers' = [x \in DOMAIN answers \cap Ids(loaded) |-> answers[x]]
        /\ StartEvaluation(loaded)
        /\ IF Ids(loaded) \subseteq DOMAIN answers
           THEN pc' = "checking" /\ UNCHANGED verdict
           ELSE Refuse("conflict")
        /\ UNCHANGED <<form, page, inputs, shown, saves>>
  BY DEF Receive
<1> USE <1>0 DEF StartEvaluation, Refuse
<1>1. /\ loaded \in Forms /\ Len(loaded.fields) \in Nat
      /\ form \in Forms /\ page \in Forms
  BY FormFacts DEF IInv, TypeOK
<1>2. answers = Responses(page, inputs, shown) /\ verdict = "none"
  BY DEF IInv, SentAnswers, Phase
<1>3. DOMAIN answers = Ids(page)
  BY <1>2 DEF Responses
<1>4. /\ DOMAIN answers' = DOMAIN answers \cap Ids(loaded)
      /\ \A x \in DOMAIN answers' : answers'[x] = answers[x]
  OBVIOUS
<1>5. TypeOK'
  <2>1. cursor' \in 1 .. Len(used'.fields) + 1
    BY <1>1
  <2>2. DOMAIN answers' \subseteq FieldIds /\ \A x \in DOMAIN answers' : answers'[x] \in Texts
    BY <1>4 DEF IInv, TypeOK
  <2>3. visible' \subseteq Ids(used')
    OBVIOUS
  <2>4. /\ verdict' \in Verdicts
        /\ pc' \in {"rendering", "idle", "sent", "checking", "done"}
        /\ form' \in Forms /\ page' \in Forms /\ used' \in Forms
        /\ changed' \in BOOLEAN
    BY <1>1, <1>2 DEF IInv, TypeOK, Verdicts
  <2>5. DOMAIN inputs' = FieldIds /\ \A x \in FieldIds : inputs'[x] \in Values(x)
    BY DEF IInv, TypeOK
  <2>6. shown' \subseteq FieldIds /\ saves' \in 0 .. MaxSaves
    BY DEF IInv, TypeOK
  <2> QED
    BY <2>1, <2>2, <2>3, <2>4, <2>5, <2>6 DEF TypeOK
<1>6. Phase' /\ CheckedLeast'
  BY <1>2 DEF Phase, CheckedLeast
<1>7. ShownLeast'
  BY DEF IInv, ShownLeast
<1>8. CheckedFields'
  BY <1>4 DEF CheckedFields
<1>9. Reasons'
  BY <1>2, <1>3 DEF Reasons
<1>10. SentComplete'
  BY DEF IInv, SentComplete, FilledIn
<1>11. SentAnswers'
  <2>1. ASSUME loaded = page
        PROVE  answers' = Responses(page, inputs, shown)
    BY <2>1, <1>2, <1>3 DEF Responses
  <2> QED
    BY <2>1 DEF SentAnswers
<1>12. LoopSound' /\ LoopDone'
  BY DEF LoopSound, LoopDone
<1> QED
  BY <1>5, <1>6, <1>7, <1>8, <1>9, <1>10, <1>11, <1>12 DEF IInv

LEMMA DecideStep ==
  ASSUME IInv, Decide
  PROVE  IInv'
<1>1. visible = Least(used, ServerTruth(answers)) /\ Truth = ServerTruth(answers)
  BY LoopResult DEF Decide, Truth
<1>2. UNCHANGED <<form, page, inputs, shown, answers, used, visible, cursor, changed, saves>>
  BY DEF Decide, evaluation
<1>3. /\ pc = "checking"
      /\ \/ /\ verdict' = "prevented" /\ pc' = "idle"
            /\ Prevented(used, ServerTruth(answers), visible)
         \/ /\ verdict' = "invalid" /\ pc' = "idle"
            /\ AnswerOnHidden \/ AnswerMissing
         \/ /\ verdict' = "accepted" /\ pc' = "done"
            /\ ~Prevented(used, ServerTruth(answers), visible)
            /\ ~AnswerOnHidden /\ ~AnswerMissing
  BY <1>1 DEF Decide, Refuse
<1>4. TypeOK'
  BY <1>2, <1>3 DEF IInv, TypeOK, Verdicts
<1>5. Phase'
  BY <1>3 DEF Phase
<1>6. ShownLeast' /\ CheckedFields'
  BY <1>2, <1>3 DEF IInv, ShownLeast, CheckedFields
<1>7. CheckedLeast'
  BY <1>1, <1>2 DEF CheckedLeast
<1>8. SentComplete' /\ SentAnswers'
  BY <1>2, <1>3 DEF IInv, SentComplete, SentAnswers, Submitted, FilledIn
<1>9. Reasons'
  <2>1. (AnswerOnHidden' <=> AnswerOnHidden) /\ (AnswerMissing' <=> AnswerMissing)
    BY <1>2 DEF AnswerOnHidden, AnswerMissing
  <2> QED
    BY <1>2, <1>3, <2>1 DEF Reasons
<1>10. LoopSound' /\ LoopDone'
  BY <1>3 DEF LoopSound, LoopDone, Running
<1> QED
  BY <1>4, <1>5, <1>6, <1>7, <1>8, <1>9, <1>10 DEF IInv

\* A step that changes neither the page nor an evaluation.
LEMMA OtherStep ==
  ASSUME IInv, form' \in Forms, saves' \in 0 .. MaxSaves,
         UNCHANGED <<page, inputs, shown, answers, verdict, pc, evaluation>>
  PROVE  IInv'
<1> USE DEF evaluation
<1>1. Truth' = Truth
  BY DEF Truth
<1>2. TypeOK'
  BY DEF IInv, TypeOK
<1>3. Phase' /\ ShownLeast' /\ CheckedLeast' /\ CheckedFields'
  BY DEF IInv, Phase, ShownLeast, CheckedLeast, CheckedFields
<1>4. SentComplete' /\ SentAnswers'
  BY DEF IInv, SentComplete, SentAnswers, Submitted, FilledIn
<1>5. Reasons'
  BY DEF IInv, Reasons, AnswerOnHidden, AnswerMissing
<1>6. LoopSound' /\ LoopDone'
  BY <1>1 DEF IInv, LoopSound, LoopDone, Running
<1> QED
  BY <1>2, <1>3, <1>4, <1>5, <1>6 DEF IInv

LEMMA InitIInv == Init => IInv
<1> SUFFICES ASSUME Init PROVE IInv
  OBVIOUS
<1> USE DEF Init
<1>1. Len(form.fields) \in Nat
  BY FormFacts
<1>2. DOMAIN inputs = FieldIds /\ \A x \in FieldIds : inputs[x] \in Values(x)
  BY PrefillFacts
<1>3. cursor \in 1 .. Len(used.fields) + 1 /\ saves \in 0 .. MaxSaves
  BY <1>1, BoundAssumption
<1>4. DOMAIN answers = {}
  OBVIOUS
<1>5. TypeOK
  <2>1. visible \subseteq Ids(used) /\ shown \subseteq FieldIds
    OBVIOUS
  <2> QED
    BY <1>2, <1>3, <1>4, <2>1 DEF TypeOK, Verdicts
<1>6. Phase /\ ShownLeast /\ CheckedLeast /\ CheckedFields /\ Reasons
  BY DEF Phase, ShownLeast, CheckedLeast, CheckedFields, Reasons
<1>7. LoopSound /\ LoopDone
  BY DEF LoopSound, LoopDone
<1>8. SentComplete /\ SentAnswers
  BY DEF SentComplete, SentAnswers, Submitted
<1> QED
  BY <1>5, <1>6, <1>7, <1>8 DEF IInv

LEMMA NextIInv == IInv /\ [Next]_vars => IInv'
<1> SUFFICES ASSUME IInv, [Next]_vars PROVE IInv'
  OBVIOUS
<1>1. CASE Respondent
  <2>1. ASSUME NEW in \in Prefills(form), Open(in) PROVE IInv'
    BY <2>1, OpenStep
  <2>2. ASSUME NEW x \in FieldIds, NEW i \in Inputs[x], Type(x, i) PROVE IInv'
    BY <2>2, TypeStep
  <2> QED
    BY <1>1, <2>1, <2>2, SubmitStep DEF Respondent
<1>2. CASE Evaluation
  BY <1>2, VisitStep, NextPassStep, RenderedStep, DecideStep DEF Evaluation
<1>3. CASE Receive
  BY <1>3, ReceiveStep
<1>4. ASSUME NEW f \in Forms, SaveForm(f) PROVE IInv'
  <2>1. saves' \in 0 .. MaxSaves /\ form' \in Forms
    BY <1>4, BoundAssumption DEF SaveForm, IInv, TypeOK
  <2> QED
    BY <1>4, <2>1, OtherStep DEF SaveForm
<1>5. CASE UNCHANGED vars
  <2>1. saves' \in 0 .. MaxSaves /\ form' \in Forms
    BY <1>5 DEF vars, IInv, TypeOK
  <2> QED
    BY <1>5, <2>1, OtherStep DEF vars
<1> QED
  BY <1>1, <1>2, <1>3, <1>4, <1>5 DEF Next

\* The invariant holds in every reachable state.
THEOREM Invariant == Spec => []IInv
BY InitIInv, NextIInv, PTL DEF Spec

-----------------------------------------------------------------------------
(***************************************************************************)
(* What follows.                                                           *)
(***************************************************************************)

\* Each variable keeps its type, and an evaluation stays within its form.
THEOREM TypeCorrect == Spec => []TypeOK
<1>1. IInv => TypeOK
  BY DEF IInv
<1> QED
  BY <1>1, Invariant, PTL

\* getVisibleFieldIds returns the least closed set on both sides, for every
\* form, every order of its fields and every set of answers.
THEOREM VisibleFieldsCorrect == Spec => []VisibleIsLeast
<1>1. IInv => VisibleIsLeast
  BY DEF IInv, VisibleIsLeast, ShownLeast, CheckedLeast
<1> QED
  BY <1>1, Invariant, PTL

\* Whatever the page had computed, the server only keeps a submission that is
\* consistent with the form it loaded.
THEOREM StoredCorrect == Spec => []StoredConsistent
<1>1. ASSUME IInv, pc = "done"
      PROVE  LET truth == ServerTruth(answers)
                 vis == Least(used, truth)
             IN  /\ DOMAIN answers = Ids(used)
                 /\ \A x \in Ids(used) : answers[x] # "" => x \in vis
                 /\ \A x \in Required \cap vis : answers[x] # ""
                 /\ ~Prevented(used, truth, vis)
  <2>1. verdict = "accepted"
    BY <1>1 DEF IInv, Phase
  <2>2. visible = Least(used, ServerTruth(answers)) /\ DOMAIN answers = Ids(used)
    BY <1>1, <2>1 DEF IInv, CheckedLeast, CheckedFields
  <2>3. /\ ~Prevented(used, ServerTruth(answers), visible)
        /\ ~AnswerOnHidden
        /\ ~AnswerMissing
    BY <1>1, <2>1 DEF IInv, Reasons
  <2>4. visible \subseteq Ids(used)
    BY <2>2, LeastIsClosed
  <2> QED
    BY <2>2, <2>3, <2>4 DEF AnswerOnHidden, AnswerMissing
<1>2. IInv => StoredConsistent
  BY <1>1 DEF StoredConsistent
<1> QED
  BY <1>2, Invariant, PTL

\* Once the server has an answer for the page it was sent from, both sides
\* have computed the same visible fields.
LEMMA SidesAgree ==
  ASSUME SameReading, IInv, used = page,
         verdict \in {"prevented", "invalid", "accepted"}
  PROVE  /\ visible = shown
         /\ answers = Responses(page, inputs, shown)
         /\ page \in Forms /\ Ids(page) \subseteq FieldIds
         /\ shown = Least(page, ClientTruth(inputs))
         /\ \A x \in FieldIds : inputs[x] \in Values(x)
         /\ FilledIn
         /\ ~Prevented(page, ClientTruth(inputs), shown)
<1>1. page \in Forms /\ Ids(page) \subseteq FieldIds
  BY FormFacts DEF IInv, TypeOK
<1>2. \A x \in FieldIds : inputs[x] \in Values(x)
  BY DEF IInv, TypeOK
<1>3. answers = Responses(page, inputs, shown)
  BY DEF IInv, SentAnswers, Submitted
<1>4. FilledIn /\ ~Prevented(page, ClientTruth(inputs), shown)
  BY DEF IInv, SentComplete, Submitted
<1>5. shown = Least(page, ClientTruth(inputs))
  BY DEF IInv, ShownLeast, Phase
<1>6. visible = Least(page, ServerTruth(answers))
  BY DEF IInv, CheckedLeast
<1>7. Complete(inputs, Least(page, ClientTruth(inputs)))
  BY <1>4, <1>5 DEF FilledIn, Complete
<1>8. visible = shown
  BY <1>1, <1>2, <1>3, <1>5, <1>6, <1>7, Agreement
<1> QED
  BY <1>1, <1>2, <1>3, <1>4, <1>5, <1>8

\* As long as both sides read an input alike, the server never refuses the
\* submission of a page when it has loaded the form of the page.
THEOREM PagesAccepted ==
  ASSUME SameReading
  PROVE  Spec => []RefusedOnlyIfStale
<1>1. ASSUME IInv, used = page, verdict \in {"conflict", "prevented", "invalid"}
      PROVE  FALSE
  <2>1. CASE verdict = "conflict"
    BY <1>1, <2>1 DEF IInv, Reasons
  <2>2. CASE verdict = "prevented"
    <3>1. Prevented(page, ServerTruth(answers), visible)
      BY <1>1, <2>2 DEF IInv, Reasons
    <3>2. shown \in SUBSET Ids(page) /\ Complete(inputs, shown)
      BY <1>1, <2>2, SidesAgree, LeastIsClosed DEF FilledIn, Complete
    <3>3. Prevented(page, ClientTruth(inputs), shown)
      BY <1>1, <2>2, <3>1, <3>2, SidesAgree, PreventAlike
    <3> QED
      BY <1>1, <2>2, <3>3, SidesAgree
  <2>3. CASE verdict = "invalid"
    <3>1. answers = Responses(page, inputs, shown) /\ visible = shown /\ FilledIn
      BY <1>1, <2>3, SidesAgree
    <3>2. DOMAIN answers = Ids(page)
      BY <3>1 DEF Responses
    <3>3. ~AnswerOnHidden
      BY <3>1, <3>2 DEF AnswerOnHidden, Responses
    <3>4. ~AnswerMissing
      BY <3>1, <3>2 DEF AnswerMissing, Responses, FilledIn
    <3> QED
      BY <1>1, <2>3, <3>3, <3>4 DEF IInv, Reasons
  <2> QED
    BY <1>1, <2>1, <2>2, <2>3
<1>2. IInv => RefusedOnlyIfStale
  BY <1>1 DEF RefusedOnlyIfStale
<1> QED
  BY <1>2, Invariant, PTL

\* ... and keeps the answers of exactly the fields that the page showed.
THEOREM PagesAgree ==
  ASSUME SameReading
  PROVE  Spec => []SameFieldsShown
<1>1. IInv => SameFieldsShown
  BY SidesAgree DEF IInv, Phase, SameFieldsShown
<1> QED
  BY <1>1, Invariant, PTL
=============================================================================
