---------------------------- MODULE MCFormLogic ----------------------------
(***************************************************************************)
(* A radio field r with "Others", a decimal field n, a text field t, and a *)
(* dropdown d that MyInfo may fill.                                        *)
(***************************************************************************)
EXTENDS FormLogic

MCFieldIds == {"r", "n", "t", "d"}
MCKind == [x \in MCFieldIds |->
             CASE x = "r" -> "radio" [] x = "n" -> "decimal" [] x = "t" -> "textfield"
               [] x = "d" -> "dropdown"]

MCTexts == {"", "A", "Others", "Others: z", "Others: ", "1", "2", "1.0", "x", "M"}
MCNumberOf == [s \in MCTexts |->
                 CASE s \in {"1", "1.0"} -> 1 [] s = "2" -> 2 [] s = "" -> 0 [] OTHER -> NaN]
MCOthersTexts == {"Others: z", "Others: "}

Choice(s) == [text |-> s, others |-> "no"]
Radio == {Choice("A"),
          [text |-> "Others: z", others |-> "typed"],
          [text |-> "Others: ", others |-> "blank"]}

\* One spelling for each number.
MCInputs == [x \in MCFieldIds |->
  CASE x = "r" -> Radio
    [] x = "n" -> {Nothing, Choice("1"), Choice("2")}
    [] x = "t" -> {Nothing, Choice("x")}
    [] x = "d" -> {Choice("A"), Choice("M")}]

\* A decimal field also takes "1.0", which it does not rewrite.
SpellingInputs == [MCInputs EXCEPT !["n"] = @ \cup {Choice("1.0")}]

Is(x, s) == [field |-> x, state |-> "equals", values |-> {s}]
IsEither(x, S) == [field |-> x, state |-> "either", values |-> S]
IsAtLeast(x, s) == [field |-> x, state |-> "gte", values |-> {s}]
IsAtMost(x, s) == [field |-> x, state |-> "lte", values |-> {s}]
ShowIf(S, C) == [type |-> "show", show |-> S, conditions |-> C]
PreventIf(C) == [type |-> "prevent", show |-> {}, conditions |-> C]

\* Conditions that lead against the order of the fields: several passes.
Chain == [fields |-> <<"t", "n", "r">>,
          logics |-> {ShowIf({"n"}, {IsEither("r", {"A", "Others"})}),
                      ShowIf({"t"}, {IsAtLeast("n", "1"), Is("r", "A")})}]
\* The same with r deleted: both units are invalid.
Deleted == [Chain EXCEPT !.fields = <<"t", "n">>]
\* d and r show each other, and t needs both.
Circle == [fields |-> <<"t", "r", "d">>,
           logics |-> {ShowIf({"d"}, {Is("r", "A")}), ShowIf({"r"}, {Is("d", "M")}),
                       ShowIf({"t"}, {Is("r", "A"), Is("d", "M")})}]
\* r is shown by the dropdown, and itself leads to t.
Profile == [fields |-> <<"t", "r", "d">>,
            logics |-> {ShowIf({"r"}, {IsEither("d", {"M"})}), ShowIf({"t"}, {Is("r", "Others")}),
                        PreventIf({Is("r", "A")})}]
\* Two ways to show t, and submission prevented by a field that may be hidden.
Guarded == [fields |-> <<"t", "r", "n">>,
            logics |-> {ShowIf({"n"}, {Is("r", "Others")}), ShowIf({"t"}, {Is("r", "A")}),
                        ShowIf({"t"}, {Is("n", "1")}), PreventIf({IsAtLeast("n", "2")})}]
\* Submission prevented by a visible decimal.
Priced == [fields |-> <<"n", "t">>,
           logics |-> {ShowIf({"t"}, {Is("n", "1")}), PreventIf({IsAtMost("n", "2"), IsAtLeast("n", "2")})}]

MCForms == {Chain, Deleted, Circle, Profile, Guarded, Priced}
=============================================================================
