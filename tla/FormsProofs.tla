---------------------------- MODULE FormsProofs ----------------------------
(***************************************************************************)
(* Proofs about what happens to a form, for every value of the constants:  *)
(* FormEditing, Submissions and Bounces, and, with the theorems of         *)
(* WorkspacesProofs, the four components side by side as in MCForms.       *)
(*                                                                         *)
(* FormEditing. A request works on what it has read. The version of the    *)
(* document, together with the history of the changes that leave the       *)
(* version alone, says how the form now relates to that: as long as the    *)
(* version stays no field has been added, an array whose positions stay    *)
(* has the same ids at the same places, and one whose contents stay as     *)
(* well is the array that was read. Follows is this relation; it is        *)
(* transitive, and every save is a step of it.                             *)
(*                                                                         *)
(* Submissions. Only files that were found clean are stored, and the       *)
(* limit is exceeded by no more than overlaps and counts that lag behind.  *)
(*                                                                         *)
(* Bounces. A form is closed only if of every recipient of the mail the    *)
(* last report that counts is a permanent bounce, and the notices to the   *)
(* editors are bounded. The reason is the version of the document: a       *)
(* handler decides by what it has read and what it is told; whoever writes *)
(* the bounces meanwhile increments the version, so that the save of the   *)
(* handler fails; and as long as the version stays, what has been saved of *)
(* each recipient is what the handler has read. The notices are counted by *)
(* the pairs of a document and a handler that can no longer lead to one; a *)
(* step that adds a notice spends such a pair, and one that gives a pair   *)
(* back loses something.                                                   *)
(***************************************************************************)
EXTENDS MCForms, WorkspacesProofs, SequenceTheorems, FiniteSetTheorems,
        WellFoundedInduction, TLAPS

-----------------------------------------------------------------------------
(* The arrays of a form, and what the operations make of them.              *)

\* The elements of an array, wherever they are.
Entries(s) == {s[i] : i \in DOMAIN s}

\* The ids of an array are those of its elements.
LEMMA IdsOfEntries ==
    ASSUME NEW s
    PROVE  Ids(s) = {e.id : e \in Entries(s)}
BY DEF Ids, Entries

\* What is inserted is added to the elements, and the array is longer.
LEMMA InsertedElements ==
    ASSUME NEW S, NEW s \in Seq(S), NEW i \in 1 .. Len(s) + 1, NEW e \in S
    PROVE  /\ InsertAt(s, i, e) \in Seq(S)
           /\ Len(InsertAt(s, i, e)) = Len(s) + 1
           /\ Entries(InsertAt(s, i, e)) = Entries(s) \cup {e}
<1> DEFINE before == SubSeq(s, 1, i - 1)
           after == SubSeq(s, i, Len(s))
           new == (before \o <<e>>) \o after
<1>1. /\ Len(s) \in Nat /\ DOMAIN s = 1 .. Len(s)
      /\ \A j \in 1 .. Len(s) : s[j] \in S
  BY LenProperties, ElementOfSeq
<1>2. /\ before \in Seq(S) /\ Len(before) = i - 1
      /\ \A j \in 1 .. i - 1 : before[j] = s[j]
  <2>1. \A j \in 1 .. i - 1 : s[j] \in S
    BY <1>1
  <2> QED
    BY <1>1, <2>1, SubSeqProperties
<1>3. /\ after \in Seq(S) /\ Len(after) = Len(s) - i + 1
      /\ \A j \in 1 .. (Len(s) - i + 1) : after[j] = s[i + j - 1]
  <2>1. \A j \in i .. Len(s) : s[j] \in S
    BY <1>1
  <2> QED
    BY <1>1, <2>1, SubSeqProperties
<1> HIDE DEF before, after
<1>4. /\ before \o <<e>> \in Seq(S) /\ Len(before \o <<e>>) = i
      /\ \A j \in 1 .. i : (before \o <<e>>)[j] = IF j < i THEN s[j] ELSE e
  BY <1>1, <1>2
<1>5. PICK t \in Seq(S), u \in Seq(S) : t = before \o <<e>> /\ u = after
  BY <1>3, <1>4
<1>6. /\ t \o u \in Seq(S) /\ Len(t \o u) = Len(t) + Len(u)
      /\ \A j \in 1 .. Len(t) + Len(u) :
            (t \o u)[j] = IF j <= Len(t) THEN t[j] ELSE u[j - Len(t)]
  BY ConcatProperties
<1>7. Len(t) = i /\ Len(u) = Len(s) - i + 1
  BY <1>3, <1>4, <1>5, Zenon
<1>8. PICK w \in Seq(S) : w = t \o u
  BY <1>6
<1>9. /\ Len(w) = Len(s) + 1 /\ DOMAIN w = 1 .. Len(s) + 1
      /\ \A j \in 1 .. Len(s) + 1 : w[j] = IF j <= i THEN t[j] ELSE u[j - i]
  <2>1. Len(t) + Len(u) = Len(s) + 1
    BY <1>1, <1>7
  <2>2. Len(w) = Len(s) + 1
    BY <1>6, <1>8, <2>1
  <2> QED
    BY <1>6, <1>7, <1>8, <2>1, <2>2, LenProperties
<1>10. InsertAt(s, i, e) = w
  BY <1>5, <1>8 DEF InsertAt, before, after
<1>11. \A j \in 1 .. i : t[j] = IF j < i THEN s[j] ELSE e
  BY <1>4, <1>5
<1>12. \A j \in 1 .. (Len(s) - i + 1) : u[j] = s[i + j - 1]
  BY <1>3, <1>5
<1>13. ASSUME NEW j \in 1 .. Len(s) + 1
       PROVE  w[j] = IF j < i THEN s[j] ELSE IF j = i THEN e ELSE s[j - 1]
  <2>1. CASE j <= i
    <3>1. j \in 1 .. i
      BY <2>1
    <3> QED
      BY <1>9, <1>11, <2>1, <3>1
  <2>2. CASE j > i
    <3>1. j - i \in 1 .. (Len(s) - i + 1) /\ i + (j - i) - 1 = j - 1
      BY <1>1, <2>2
    <3>2. u[j - i] = s[j - 1]
      BY <1>12, <3>1
    <3> QED
      BY <1>9, <2>2, <3>2
  <2> QED
    BY <2>1, <2>2
<1>14. \A j \in DOMAIN s : s[j] \in Entries(w)
  <2> SUFFICES ASSUME NEW j \in 1 .. Len(s)
               PROVE  \E k \in 1 .. Len(s) + 1 : w[k] = s[j]
    BY <1>1, <1>9 DEF Entries
  <2>1. CASE j < i
    BY <1>1, <1>13, <2>1
  <2>2. CASE j >= i
    <3>1. j + 1 \in 1 .. Len(s) + 1 /\ (j + 1) - 1 = j
      BY <1>1
    <3>2. w[j + 1] = s[j]
      BY <1>13, <2>2, <3>1
    <3> QED
      BY <3>1, <3>2
  <2> QED
    BY <2>1, <2>2
<1>15. e \in Entries(w)
  <2>1. i \in DOMAIN w /\ w[i] = e
    BY <1>9, <1>13
  <2> QED
    BY <2>1 DEF Entries
<1>16. \A j \in DOMAIN w : w[j] \in Entries(s) \cup {e}
  <2> SUFFICES ASSUME NEW j \in 1 .. Len(s) + 1
               PROVE  w[j] = e \/ \E k \in 1 .. Len(s) : w[j] = s[k]
    BY <1>1, <1>9 DEF Entries
  <2>1. CASE j < i
    <3>1. j \in 1 .. Len(s)
      BY <1>1, <2>1
    <3> QED
      BY <1>13, <2>1, <3>1
  <2>2. CASE j > i
    <3>1. j - 1 \in 1 .. Len(s)
      BY <1>1, <2>2
    <3> QED
      BY <1>13, <2>2, <3>1
  <2>3. CASE j = i
    BY <1>13, <2>3
  <2> QED
    BY <2>1, <2>2, <2>3
<1>17. Entries(w) = Entries(s) \cup {e}
  <2>1. Entries(s) \subseteq Entries(w)
    BY <1>14 DEF Entries
  <2>2. Entries(w) \subseteq Entries(s) \cup {e}
    <3> SUFFICES ASSUME NEW x \in Entries(w) PROVE x \in Entries(s) \cup {e}
      OBVIOUS
    <3>1. PICK j \in DOMAIN w : x = w[j]
      BY DEF Entries
    <3> QED
      BY <1>16, <3>1
  <2> QED
    BY <1>15, <2>1, <2>2
<1> QED
  BY <1>8, <1>9, <1>10, <1>17

\* Without the element at a position, the others are there.
LEMMA RemovedElements ==
    ASSUME NEW S, NEW s \in Seq(S), NEW i \in 1 .. Len(s)
    PROVE  /\ RemoveAt(s, i) \in Seq(S)
           /\ Len(RemoveAt(s, i)) = Len(s) - 1
           /\ Entries(RemoveAt(s, i)) \cup {s[i]} = Entries(s)
<1> DEFINE before == SubSeq(s, 1, i - 1)
           after == SubSeq(s, i + 1, Len(s))
<1>1. /\ Len(s) \in Nat /\ DOMAIN s = 1 .. Len(s)
      /\ \A j \in 1 .. Len(s) : s[j] \in S
  BY LenProperties, ElementOfSeq
<1>2. /\ before \in Seq(S) /\ Len(before) = i - 1
      /\ \A j \in 1 .. i - 1 : before[j] = s[j]
  <2>1. \A j \in 1 .. i - 1 : s[j] \in S
    BY <1>1
  <2> QED
    BY <1>1, <2>1, SubSeqProperties
<1>3. /\ after \in Seq(S) /\ Len(after) = Len(s) - i
      /\ \A j \in 1 .. (Len(s) - i) : after[j] = s[i + j]
  <2>1. \A j \in i + 1 .. Len(s) : s[j] \in S
    BY <1>1
  <2>2. i + 1 \in Int /\ Len(s) \in Int
    BY <1>1
  <2>3. /\ after \in Seq(S)
        /\ Len(after) = IF i + 1 <= Len(s) THEN Len(s) - (i + 1) + 1 ELSE 0
        /\ \A j \in 1 .. Len(s) - (i + 1) + 1 : after[j] = s[i + 1 + j - 1]
    BY <2>1, <2>2, SubSeqProperties
  <2>4. /\ Len(s) - (i + 1) + 1 = Len(s) - i
        /\ i + 1 <= Len(s) \/ Len(s) - i = 0
    <3>1. i \in Int /\ i <= Len(s) /\ Len(s) \in Int
      BY <1>1
    <3> HIDE DEF after
    <3> QED
      BY <3>1
  <2>5. \A j \in 1 .. (Len(s) - i) : i + 1 + j - 1 = i + j
    BY <1>1
  <2> HIDE DEF after
  <2> QED
    BY <2>3, <2>4, <2>5
<1> HIDE DEF before, after
<1>5. PICK t \in Seq(S), u \in Seq(S) : t = before /\ u = after
  BY <1>2, <1>3
<1>6. /\ t \o u \in Seq(S) /\ Len(t \o u) = Len(t) + Len(u)
      /\ \A j \in 1 .. Len(t) + Len(u) :
            (t \o u)[j] = IF j <= Len(t) THEN t[j] ELSE u[j - Len(t)]
  BY ConcatProperties
<1>7. Len(t) = i - 1 /\ Len(u) = Len(s) - i
  BY <1>2, <1>3, <1>5, Zenon
<1>8. PICK w \in Seq(S) : w = t \o u
  BY <1>6
<1>9. /\ Len(w) = Len(s) - 1 /\ DOMAIN w = 1 .. Len(s) - 1
      /\ \A j \in 1 .. Len(s) - 1 :
            w[j] = IF j < i THEN t[j] ELSE u[j - (i - 1)]
  <2>1. Len(t) + Len(u) = Len(s) - 1
    BY <1>1, <1>7
  <2>2. Len(w) = Len(s) - 1
    BY <1>6, <1>8, <2>1
  <2>3. \A j \in 1 .. Len(s) - 1 : j <= i - 1 <=> j < i
    BY <1>1
  <2> QED
    BY <1>6, <1>7, <1>8, <2>1, <2>2, <2>3, LenProperties
<1>10. RemoveAt(s, i) = w
  BY <1>5, <1>8 DEF RemoveAt, before, after
<1>11. \A j \in 1 .. i - 1 : t[j] = s[j]
  BY <1>2, <1>5
<1>12. \A j \in 1 .. (Len(s) - i) : u[j] = s[i + j]
  BY <1>3, <1>5
<1>13. ASSUME NEW j \in 1 .. Len(s) - 1
       PROVE  w[j] = IF j < i THEN s[j] ELSE s[j + 1]
  <2>1. CASE j < i
    <3>1. j \in 1 .. i - 1
      BY <2>1
    <3> QED
      BY <1>9, <1>11, <2>1, <3>1
  <2>2. CASE j >= i
    <3>1. j - (i - 1) \in 1 .. (Len(s) - i) /\ i + (j - (i - 1)) = j + 1
      BY <1>1, <2>2
    <3>2. u[j - (i - 1)] = s[j + 1]
      BY <1>12, <3>1
    <3> QED
      BY <1>9, <2>2, <3>2
  <2> QED
    BY <2>1, <2>2
<1>14. \A j \in 1 .. Len(s) : s[j] \in Entries(w) \cup {s[i]}
  <2> SUFFICES ASSUME NEW j \in 1 .. Len(s), j # i
               PROVE  \E k \in 1 .. Len(s) - 1 : w[k] = s[j]
    BY <1>1, <1>9 DEF Entries
  <2>1. CASE j < i
    <3>1. j \in 1 .. Len(s) - 1
      BY <1>1, <2>1
    <3> QED
      BY <1>13, <2>1, <3>1
  <2>2. CASE j > i
    <3>1. j - 1 \in 1 .. Len(s) - 1 /\ ~(j - 1 < i) /\ (j - 1) + 1 = j
      BY <1>1, <2>2
    <3>2. w[j - 1] = s[j]
      BY <1>13, <3>1
    <3> QED
      BY <3>1, <3>2
  <2> QED
    BY <2>1, <2>2
<1>15. \A j \in DOMAIN w : w[j] \in Entries(s)
  <2> SUFFICES ASSUME NEW j \in 1 .. Len(s) - 1
               PROVE  \E k \in 1 .. Len(s) : w[j] = s[k]
    BY <1>1, <1>9 DEF Entries
  <2>1. j \in 1 .. Len(s) /\ j + 1 \in 1 .. Len(s)
    BY <1>1
  <2> QED
    BY <1>13, <2>1
<1>16. Entries(s) \subseteq Entries(w) \cup {s[i]}
  <2> SUFFICES ASSUME NEW x \in Entries(s) PROVE x \in Entries(w) \cup {s[i]}
    OBVIOUS
  <2>1. PICK j \in 1 .. Len(s) : x = s[j]
    BY <1>1 DEF Entries
  <2> QED
    BY <1>14, <2>1
<1>17. Entries(w) \subseteq Entries(s)
  <2> SUFFICES ASSUME NEW x \in Entries(w) PROVE x \in Entries(s)
    OBVIOUS
  <2>1. PICK j \in DOMAIN w : x = w[j]
    BY DEF Entries
  <2> QED
    BY <1>15, <2>1
<1>18. s[i] \in Entries(s)
  BY <1>1 DEF Entries
<1>19. Entries(w) \cup {s[i]} = Entries(s)
  BY <1>16, <1>17, <1>18
<1> QED
  BY <1>8, <1>9, <1>10, <1>19

-----------------------------------------------------------------------------
(* What $pull leaves of an array.                                           *)

NumberLess == OpToRel(<, Nat)

\* A set that holds zero and the successors of what it holds holds every
\* natural number.
LEMMA NumbersInduction ==
    ASSUME NEW S, 0 \in S, \A n \in Nat : n \in S => n + 1 \in S
    PROVE  Nat \subseteq S
<1> SUFFICES ASSUME Nat \ S # {} PROVE FALSE
  OBVIOUS
<1>1. \A x, y \in Nat : <<x, y>> \in NumberLess <=> x < y
  BY DEF NumberLess, OpToRel
<1>2. IsWellFoundedOn(NumberLess, Nat)
  BY NatLessThanWellFounded DEF NumberLess
<1>3. PICK x \in Nat \ S : \A y \in Nat \ S : ~ (<<y, x>> \in NumberLess)
  BY <1>2, WFMin
<1>4. x - 1 \in Nat /\ x - 1 < x
  BY <1>3
<1>5. x - 1 \in S
  BY <1>1, <1>3, <1>4
<1> QED
  BY <1>3, <1>4, <1>5

\* How Without goes through the elements: the recursive function it is defined
\* with exists.
LEMMA WithoutSteps ==
    ASSUME NEW S, NEW s \in Seq(S), NEW id
    PROVE  \E g : /\ g[0] = <<>>
                  /\ \A n \in 1 .. Len(s) :
                        g[n] = IF s[n].id = id THEN g[n - 1]
                               ELSE Append(g[n - 1], s[n])
                  /\ Without(s, id) = g[Len(s)]
<1> DEFINE N == Len(s)
           keep(kept, e) == IF e.id = id THEN kept ELSE Append(kept, e)
           StepsTo(m, g) == \A n \in 0 .. m :
                             g[n] = IF n = 0 THEN <<>>
                                    ELSE keep(g[n - 1], s[n])
           Eqn(g) == g = [n \in 0 .. N |->
                            IF n = 0 THEN <<>> ELSE keep(g[n - 1], s[n])]
           Defined(m) == \E g : g = [n \in 0 .. m |-> g[n]] /\ StepsTo(m, g)
           P == {m \in Nat : Defined(m)}
<1>1. N \in Nat
  BY LenProperties
<1>2. 0 \in P
  <2> DEFINE g0 == [n \in 0 .. 0 |-> <<>>]
  <2>1. StepsTo(0, g0)
    OBVIOUS
  <2>2. g0 = [n \in 0 .. 0 |-> g0[n]]
    OBVIOUS
  <2> HIDE DEF StepsTo, g0
  <2> QED
    BY <2>1, <2>2
<1>3. ASSUME NEW m \in Nat, m \in P PROVE m + 1 \in P
  <2>1. PICK f : f = [n \in 0 .. m |-> f[n]] /\ StepsTo(m, f)
    <3> HIDE DEF StepsTo
    <3> QED
      BY <1>3
  <2> DEFINE g == [n \in 0 .. m + 1 |->
                     IF n = m + 1 THEN keep(f[m], s[m + 1]) ELSE f[n]]
  <2>2. /\ \A n \in 0 .. m : g[n] = f[n]
        /\ g[m + 1] = keep(f[m], s[m + 1])
    <3> HIDE DEF keep
    <3> QED
      OBVIOUS
  <2>3. g = [n \in 0 .. m + 1 |-> g[n]]
    <3> HIDE DEF keep
    <3> QED
      OBVIOUS
  <2> HIDE DEF g
  <2>4. \A n \in 0 .. m + 1 :
           g[n] = IF n = 0 THEN <<>> ELSE keep(g[n - 1], s[n])
    <3> TAKE n \in 0 .. m + 1
    <3> HIDE DEF keep
    <3>1. CASE n = m + 1
      <4>1. m \in 0 .. m /\ n - 1 = m /\ n # 0
        BY <3>1
      <4>2. g[n - 1] = f[m]
        BY <2>2, <4>1
      <4> QED
        BY <2>2, <3>1, <4>1, <4>2
    <3>2. CASE n # m + 1
      <4>1. n \in 0 .. m /\ (n # 0 => n - 1 \in 0 .. m)
        BY <3>2
      <4>2. f[n] = IF n = 0 THEN <<>> ELSE keep(f[n - 1], s[n])
        BY <2>1, <4>1
      <4> QED
        BY <2>2, <4>1, <4>2
    <3> QED
      BY <3>1, <3>2
  <2>5. StepsTo(m + 1, g)
    <3> HIDE DEF keep
    <3> QED
      BY <2>4
  <2> HIDE DEF StepsTo
  <2> QED
    BY <2>3, <2>5
<1>4. Defined(N)
  <2>1. N \in P
    <3> HIDE DEF P, N
    <3> QED
      BY <1>1, <1>2, <1>3, NumbersInduction
  <2> HIDE DEF Defined
  <2> QED
    BY <2>1
<1>5. \E g : Eqn(g)
  <2>1. PICK g : g = [n \in 0 .. N |-> g[n]] /\ StepsTo(N, g)
    <3> HIDE DEF StepsTo
    <3> QED
      BY <1>4
  <2> HIDE DEF keep, N
  <2>2. Eqn(g)
    <3>1. [n \in 0 .. N |-> g[n]]
            = [n \in 0 .. N |-> IF n = 0 THEN <<>> ELSE keep(g[n - 1], s[n])]
      BY <2>1
    <3> QED
      BY <2>1, <3>1, Zenon
  <2> HIDE DEF Eqn
  <2> QED
    BY <2>2
<1> DEFINE g == CHOOSE g : Eqn(g)
<1>6. Eqn(g)
  <2> HIDE DEF Eqn
  <2> QED
    BY <1>5
<1>7. Without(s, id) = g[N]
  BY DEF Without
<1> HIDE DEF g, N
<1>8. \A n \in 0 .. N : g[n] = IF n = 0 THEN <<>> ELSE keep(g[n - 1], s[n])
  <2> HIDE DEF keep
  <2> QED
    BY <1>6
<1>9. g[0] = <<>> /\ \A n \in 1 .. N : g[n] = keep(g[n - 1], s[n])
  <2>1. 0 \in 0 .. N /\ \A n \in 1 .. N : n \in 0 .. N /\ n # 0
    BY <1>1
  <2> HIDE DEF keep
  <2> QED
    BY <1>8, <2>1
<1> QED
  BY <1>7, <1>9 DEF N

\* $pull removes the elements with the id, and no other.
LEMMA WithoutElements ==
    ASSUME NEW S, NEW s \in Seq(S), NEW id
    PROVE  /\ Without(s, id) \in Seq(S)
           /\ Entries(Without(s, id)) = {e \in Entries(s) : e.id # id}
<1>1. PICK g : /\ g[0] = <<>>
               /\ \A n \in 1 .. Len(s) :
                     g[n] = IF s[n].id = id THEN g[n - 1]
                            ELSE Append(g[n - 1], s[n])
               /\ Without(s, id) = g[Len(s)]
  BY WithoutSteps
<1>2. /\ Len(s) \in Nat /\ DOMAIN s = 1 .. Len(s)
      /\ \A i \in 1 .. Len(s) : s[i] \in S
  BY LenProperties, ElementOfSeq
<1> DEFINE First(n) == {s[i] : i \in 1 .. n}
           Filtered(n) == /\ g[n] \in Seq(S)
                          /\ Entries(g[n]) = {e \in First(n) : e.id # id}
           P == {n \in Nat : n <= Len(s) => Filtered(n)}
<1>3. 0 \in P
  <2>1. <<>> \in Seq(S) /\ Entries(<<>>) = {}
    BY DEF Entries
  <2>2. First(0) = {}
    OBVIOUS
  <2> HIDE DEF First
  <2> QED
    BY <1>1, <2>1, <2>2
<1>4. ASSUME NEW n \in Nat, n \in P PROVE n + 1 \in P
  <2> SUFFICES ASSUME n + 1 <= Len(s) PROVE Filtered(n + 1)
    <3> HIDE DEF Filtered
    <3> QED
      OBVIOUS
  <2>1. n + 1 \in 1 .. Len(s) /\ (n + 1) - 1 = n /\ n <= Len(s)
    BY <1>2
  <2>2. Filtered(n)
    <3> HIDE DEF Filtered
    <3> QED
      BY <1>4, <2>1
  <2>3. PICK e \in S : e = s[n + 1]
    BY <1>2, <2>1
  <2>4. PICK t \in Seq(S) : t = g[n]
    BY <2>2
  <2>5. Entries(t) = {x \in First(n) : x.id # id}
    BY <2>2, <2>4
  <2>6. First(n + 1) = First(n) \cup {e}
    <3>1. 1 .. n + 1 = (1 .. n) \cup {n + 1}
      OBVIOUS
    <3> QED
      BY <2>3, <3>1
  <2>7. g[n + 1] = IF e.id = id THEN t ELSE Append(t, e)
    BY <1>1, <2>1, <2>3, <2>4
  <2> HIDE DEF First
  <2>8. CASE e.id = id
    <3>1. Entries(t) = {x \in First(n + 1) : x.id # id}
      BY <2>5, <2>6, <2>8
    <3> QED
      BY <2>7, <2>8, <3>1
  <2>9. CASE e.id # id
    <3>1. PICK u \in Seq(S) : u = Append(t, e)
      BY AppendProperties
    <3>2. Entries(u) = Entries(t) \cup {e}
      <4>1. /\ Len(t) \in Nat /\ DOMAIN t = 1 .. Len(t)
            /\ DOMAIN u = 1 .. Len(t) + 1
            /\ u[Len(t) + 1] = e
            /\ \A i \in 1 .. Len(t) : u[i] = t[i]
        BY <3>1, LenProperties, AppendProperties
      <4>2. 1 .. Len(t) + 1 = (1 .. Len(t)) \cup {Len(t) + 1}
        BY <4>1
      <4> QED
        BY <4>1, <4>2 DEF Entries
    <3>3. Entries(u) = {x \in First(n + 1) : x.id # id}
      BY <2>5, <2>6, <2>9, <3>2
    <3>4. g[n + 1] = u
      BY <2>7, <2>9, <3>1, Zenon
    <3> QED
      BY <3>3, <3>4
  <2> QED
    BY <2>8, <2>9
<1>5. Filtered(Len(s))
  <2>1. Len(s) \in P
    <3> HIDE DEF P
    <3> QED
      BY <1>2, <1>3, <1>4, NumbersInduction
  <2> HIDE DEF Filtered
  <2> QED
    BY <1>2, <2>1
<1>6. First(Len(s)) = Entries(s)
  BY <1>2 DEF Entries
<1> HIDE DEF First
<1> QED
  BY <1>1, <1>5, <1>6

-----------------------------------------------------------------------------
(* What the requests do, as functions of the array they have read.          *)

\* The element that is looked up has the id, if there is one.
LEMMA IndexFound ==
    ASSUME NEW S, NEW s \in Seq(S), NEW id
    PROVE  /\ IndexOf(s, id) \in 0 .. Len(s)
           /\ id \in Ids(s) => /\ IndexOf(s, id) \in 1 .. Len(s)
                               /\ s[IndexOf(s, id)].id = id
<1> DEFINE First(i) == /\ s[i].id = id
                       /\ \A j \in 1 .. i - 1 : s[j].id # id
           P == {n \in Nat : \A m \in DOMAIN s : m <= n /\ s[m].id = id
                                => \E i \in DOMAIN s : First(i)}
<1>1. Len(s) \in Nat /\ DOMAIN s = 1 .. Len(s)
  BY LenProperties
<1>2. 0 \in P
  BY <1>1
<1>3. ASSUME NEW n \in Nat, n \in P PROVE n + 1 \in P
  <2> SUFFICES ASSUME NEW m \in DOMAIN s, m <= n + 1, s[m].id = id
               PROVE  \E i \in DOMAIN s : First(i)
    <3> HIDE DEF First
    <3> QED
      OBVIOUS
  <2>1. CASE \E j \in 1 .. m - 1 : s[j].id = id
    <3>1. PICK j \in 1 .. m - 1 : s[j].id = id
      BY <2>1
    <3>2. j \in DOMAIN s /\ j <= n
      BY <1>1
    <3> HIDE DEF First
    <3> QED
      BY <1>3, <3>1, <3>2
  <2>2. CASE ~ \E j \in 1 .. m - 1 : s[j].id = id
    BY <2>2
  <2> QED
    BY <2>1, <2>2
<1>4. Nat \subseteq P
  <2> HIDE DEF P
  <2> QED
    BY <1>2, <1>3, NumbersInduction
<1>5. ASSUME id \in Ids(s)
      PROVE  IndexOf(s, id) \in 1 .. Len(s) /\ s[IndexOf(s, id)].id = id
  <2>1. PICK m \in DOMAIN s : s[m].id = id
    BY <1>5 DEF Ids
  <2>2. m \in Nat /\ m <= m /\ m \in P
    BY <1>1, <1>4
  <2>3. \E i \in DOMAIN s : First(i)
    <3> HIDE DEF First
    <3> QED
      BY <2>1, <2>2
  <2>4. IndexOf(s, id) = CHOOSE i \in DOMAIN s : First(i)
    BY <1>5 DEF IndexOf
  <2>5. IndexOf(s, id) \in DOMAIN s /\ First(IndexOf(s, id))
    <3> HIDE DEF First
    <3> QED
      BY <2>3, <2>4, Zenon
  <2> QED
    BY <1>1, <2>5
<1>6. id \notin Ids(s) => IndexOf(s, id) = 0
  BY DEF IndexOf
<1> QED
  BY <1>1, <1>5, <1>6

\* Reordering moves an element, and adds or removes none.
LEMMA ReorderedElements ==
    ASSUME NEW S, NEW s \in Seq(S), NEW from \in 1 .. Len(s), NEW to \in Nat
    PROVE  /\ reorder(s, from, to) \in Seq(S)
           /\ Entries(reorder(s, from, to)) = Entries(s)
<1>1. Len(s) \in Nat /\ s[from] \in S
  BY LenProperties, ElementOfSeq
<1>2. PICK t \in Seq(S) : t = RemoveAt(s, from)
  BY RemovedElements
<1>3. Len(t) = Len(s) - 1 /\ Entries(t) \cup {s[from]} = Entries(s)
  <2>1. /\ Len(RemoveAt(s, from)) = Len(s) - 1
        /\ Entries(RemoveAt(s, from)) \cup {s[from]} = Entries(s)
    BY RemovedElements
  <2> QED
    BY <1>2, <2>1
<1>4. PICK i \in 1 .. Len(t) + 1 : i = 1 + Lesser(to, Len(s) - 1)
  BY <1>1, <1>3 DEF Lesser
<1>5. PICK e \in S : e = s[from]
  BY <1>1
<1>6. InsertAt(t, i, e) \in Seq(S) /\ Entries(InsertAt(t, i, e)) = Entries(t) \cup {e}
  BY InsertedElements
<1>7. reorder(s, from, to) = InsertAt(t, i, e)
  BY <1>2, <1>4, <1>5 DEF reorder
<1> QED
  BY <1>3, <1>5, <1>6, <1>7

\* A pushed element is added to the elements.
LEMMA PushedElements ==
    ASSUME NEW S, NEW s \in Seq(S), NEW e \in S
    PROVE  /\ Append(s, e) \in Seq(S)
           /\ Entries(Append(s, e)) = Entries(s) \cup {e}
<1>1. PICK u \in Seq(S) : u = Append(s, e)
  BY AppendProperties
<1>2. /\ Len(s) \in Nat /\ DOMAIN s = 1 .. Len(s)
      /\ DOMAIN u = 1 .. Len(s) + 1
      /\ u[Len(s) + 1] = e
      /\ \A i \in 1 .. Len(s) : u[i] = s[i]
  BY <1>1, LenProperties, AppendProperties
<1>3. 1 .. Len(s) + 1 = (1 .. Len(s)) \cup {Len(s) + 1}
  BY <1>2
<1>4. Entries(u) = Entries(s) \cup {e}
  BY <1>2, <1>3 DEF Entries
<1> QED
  BY <1>1, <1>4

\* The array after an element has been written at position i.
WrittenAt(s, i, e) ==
    [j \in 1 .. (IF i > Len(s) THEN i ELSE Len(s)) |->
       IF j = i THEN e ELSE IF j \in DOMAIN s THEN s[j] ELSE Nothing]

\* The array t is s with e at position i.
Overwritten(s, i, e, t) ==
    /\ DOMAIN s \subseteq DOMAIN t
    /\ \A j \in DOMAIN s : j # i => t[j] = s[j]
    /\ i \in DOMAIN s => DOMAIN t = DOMAIN s /\ t[i] = e
    /\ Ids(t) \subseteq Ids(s) \cup {e.id, NoId}

\* Writing an element at a position leaves every other where it is; beyond the
\* end of the array it is filled up.
LEMMA WrittenElements ==
    ASSUME NEW S, NEW s \in Seq(S), NEW i \in Nat, NEW e \in S, Nothing \in S
    PROVE  /\ WrittenAt(s, i, e) \in Seq(S)
           /\ Overwritten(s, i, e, WrittenAt(s, i, e))
<1> DEFINE n == IF i > Len(s) THEN i ELSE Len(s)
           at(j) == IF j = i THEN e ELSE IF j \in DOMAIN s THEN s[j] ELSE Nothing
           new == WrittenAt(s, i, e)
<1>1. /\ Len(s) \in Nat /\ DOMAIN s = 1 .. Len(s)
      /\ \A j \in 1 .. Len(s) : s[j] \in S
  BY LenProperties, ElementOfSeq
<1>2. Len(s) \in Nat
  BY <1>1
<1>10. n \in Nat /\ Len(s) <= n /\ (i \in 1 .. Len(s) => n = Len(s))
  BY <1>2
<1>3. new = [j \in 1 .. n |-> at(j)]
  BY DEF WrittenAt
<1> HIDE DEF n, new
<1>4. \A j \in 1 .. n : at(j) \in S
  BY <1>1
<1>5. DOMAIN new = 1 .. n /\ \A j \in 1 .. n : new[j] = at(j)
  <2> HIDE DEF at
  <2> QED
    BY <1>3
<1>6. new \in Seq(S)
  <2>1. [j \in 1 .. n |-> at(j)] \in [1 .. n -> S]
    <3> HIDE DEF at
    <3> QED
      BY <1>4
  <2>2. new \in [1 .. n -> S]
    BY <1>3, <2>1, Zenon
  <2> QED
    BY <1>10, <2>2, SeqDef
<1>7. DOMAIN s \subseteq DOMAIN new /\ \A j \in DOMAIN s : j # i => new[j] = s[j]
  <2>1. \A j \in 1 .. Len(s) : j \in 1 .. n
    BY <1>2, <1>10
  <2> HIDE DEF at
  <2>2. \A j \in DOMAIN s : j \in 1 .. n
    BY <1>1, <2>1
  <2>3. \A j \in DOMAIN s : j # i => at(j) = s[j]
    BY DEF at
  <2> QED
    BY <1>5, <2>2, <2>3
<1>8. ASSUME i \in DOMAIN s
      PROVE  DOMAIN new = DOMAIN s /\ new[i] = e
  <2>1. i \in 1 .. Len(s)
    BY <1>1, <1>8
  <2>2. n = Len(s)
    BY <1>10, <2>1
  <2>3. DOMAIN new = 1 .. Len(s) /\ new[i] = e
    BY <1>5, <2>1, <2>2
  <2> QED
    BY <1>1, <2>3, Zenon
<1>9. Ids(new) \subseteq Ids(s) \cup {e.id, NoId}
  <2> SUFFICES ASSUME NEW j \in 1 .. n
               PROVE  new[j].id \in Ids(s) \cup {e.id, NoId}
    BY <1>5 DEF Ids
  <2>1. new[j] = at(j)
    BY <1>5
  <2> QED
    BY <2>1 DEF Nothing, Ids
<1> QED
  BY <1>6, <1>7, <1>8, <1>9 DEF new, Overwritten

-----------------------------------------------------------------------------
(* What the steps do to the form.                                           *)

Outcome == {"readAgain", "save", "ok", "refused", "notFound"}

Edit == [op : FieldOp \cup LogicOp \cup StatusOp, target : ElementId,
         place : Nat \cup {AtEnd}, read : Document, seen : Changes,
         pc : Outcome]

Targeting == {"updateFormField", "duplicateFormField", "reorderFormField",
              "deleteFormField", "updateFormLogic", "deleteFormLogic"}

\* A request that has a target has found it in what it has read.
Aimed(q) ==
    /\ q.op = "reorderFormField" => q.place \in Nat
    /\ q.op \in Targeting => q.target # NoId
    /\ q.op \in Targeting /\ q.pc = "save"
         => q.target \in Ids(q.read[ArrayOf(q.op)])
    /\ q.pc = "readAgain" => q.op = "updateFormLogic"

Granted == {r \in DOMAIN request : request[r].pc = "ok"}

\* What a node returns is a document; the latest is among what it may return.
CopiesTyped == copies \subseteq [read : Document, seen : Changes] /\ Copy \in copies

CopiesGrow == copies' = copies \cup {Copy'}

\* The types, with what makes them inductive: the version counts at most the
\* requests that have been answered with success.
EditingTypes ==
    /\ form \in Document
    /\ unseen \in Changes
    /\ CopiesTyped
    /\ request \in Seq(Edit)
    /\ Len(request) <= MaxRequests
    /\ form.version <= Cardinality(Granted)
    /\ \A r \in DOMAIN request : Aimed(request[r])

\* The document g has the array s where f has another, and the version v.
Replaced(f, g, a, s, v) ==
    /\ g \in Document
    /\ g[a] = s
    /\ g.version = v
    /\ g.status = f.status
    /\ \A b \in Array \ {a} : g[b] = f[b]

\* An array of a document is replaced, and the version set ...
LEMMA ArrayAndVersion ==
    ASSUME NEW f \in Document, NEW a \in Array, NEW s \in Seq(Element),
           NEW v \in Nat, NEW g, g = [f EXCEPT ![a] = s, !.version = v]
    PROVE  Replaced(f, g, a, s, v)
<1>1. CASE a = "form_fields"
  BY <1>1 DEF Document, Array, Replaced
<1>2. CASE a = "form_logics"
  BY <1>2 DEF Document, Array, Replaced
<1> QED
  BY <1>1, <1>2 DEF Array

\* ... or left.
LEMMA ArrayOnly ==
    ASSUME NEW f \in Document, NEW a \in Array, NEW s \in Seq(Element),
           NEW g, g = [f EXCEPT ![a] = s]
    PROVE  Replaced(f, g, a, s, f.version)
<1>1. CASE a = "form_fields"
  BY <1>1 DEF Document, Array, Replaced
<1>2. CASE a = "form_logics"
  BY <1>2 DEF Document, Array, Replaced
<1> QED
  BY <1>1, <1>2 DEF Array

\* An answer changes where its request is, and nothing else of the requests.
LEMMA Answered ==
    ASSUME request \in Seq(Edit), NEW r \in DOMAIN request, NEW c \in Outcome,
           Answer(r, c)
    PROVE  /\ request' \in Seq(Edit)
           /\ Len(request') = Len(request)
           /\ DOMAIN request' = DOMAIN request
           /\ request'[r] = [request[r] EXCEPT !.pc = c]
           /\ request[r] \in Edit
           /\ \A q \in DOMAIN request : q # r => request'[q] = request[q]
<1>1. request' = [request EXCEPT ![r] = [request[r] EXCEPT !.pc = c]]
  BY DEF Answer
<1>2. request[r] \in Edit
  BY ElementOfSeq, LenProperties
<1>3. PICK e \in Edit : e = [request[r] EXCEPT !.pc = c]
  BY <1>2 DEF Edit
<1>4. request' = [request EXCEPT ![r] = e]
  BY <1>1, <1>3
<1>5. /\ request' \in Seq(Edit) /\ Len(request') = Len(request)
      /\ DOMAIN request' = DOMAIN request
  BY <1>4, ExceptSeq, LenProperties
<1>6. request'[r] = e /\ \A q \in DOMAIN request : q # r => request'[q] = request[q]
  BY <1>4
<1> QED
  BY <1>2, <1>3, <1>5, <1>6

\* The element a request writes is an element.
LEMMA NewElements ==
    ASSUME EditingTypes, NEW r \in DOMAIN request
    PROVE  /\ r \in 1 .. MaxRequests /\ r \in ElementId
           /\ NewElement(r) \in Element
           /\ Nothing \in Element
           /\ \A id \in ElementId : [id |-> id, edit |-> r] \in Element
<1>1. r \in 1 .. MaxRequests
  BY LenProperties, EditingAssumption DEF EditingTypes
<1>2. MaxRequests \in Nat /\ Fields \in Nat /\ Logics \in Nat
  BY EditingAssumption DEF EditingAssumption
<1>3. r \in ElementId
  BY <1>1, <1>2 DEF ElementId
<1> QED
  BY <1>1, <1>2, <1>3 DEF NewElement, Nothing, Element, ElementId, NoId

\* A request whose save is refused, or has nothing to write.
LeavesForm(r) ==
    /\ \E c \in {"ok", "refused"} :
          /\ Answer(r, c)
          /\ c = "ok" => request[r].op = "reorderFormField"
    /\ UNCHANGED <<form, unseen>>

\* A request that writes back the whole array of the fields.
ReplacesFields(r) ==
    /\ request[r].op \in {"insertFormField", "duplicateFormField",
                          "reorderFormField"}
    /\ request[r].op = "insertFormField" => request[r].place # AtEnd
    /\ SameVersion(r)
    /\ \E s \in Seq(Element) :
          /\ form' = [form EXCEPT !["form_fields"] = s,
                                  !.version = form.version + 1]
          /\ Entries(s) = Entries(request[r].read.form_fields) \cup
                             (IF request[r].op = "reorderFormField" THEN {}
                              ELSE {NewElement(r)})
    /\ Answer(r, "ok")
    /\ UNCHANGED unseen

\* A request that pushes a new element.
Pushes(r) ==
    /\ request[r].op \in {"insertFormField", "createFormLogic"}
    /\ LET a == ArrayOf(request[r].op)
       IN  form' = [form EXCEPT ![a] = Append(form[a], NewElement(r)),
                                !.version = form.version + 1]
    /\ Answer(r, "ok")
    /\ UNCHANGED unseen

\* A request that writes an element e at the position i of its target, and
\* counts the version up or has the history count what is written.
WritesElement(r) ==
    /\ request[r].op \in {"updateFormField", "updateFormLogic"}
    /\ SameVersion(r)
    /\ LET a == ArrayOf(request[r].op)
           i == IndexOf(request[r].read[a], request[r].target)
       IN  \E e \in Element, n \in {0, 1} :
             /\ form' = [form EXCEPT ![a] = WrittenAt(form[a], i, e),
                                     !.version = form.version + n]
             /\ request[r].op = "updateFormField"
                  => e.id = IF i \in DOMAIN form[a] THEN form[a][i].id
                            ELSE NoId
             /\ request[r].op = "updateFormLogic" => e.id = request[r].target
             /\ unseen' = IF n = 1 THEN unseen ELSE [unseen EXCEPT
                   ![a].content = @ + 1,
                   ![a].position = IF Holds(a, i, e.id) THEN @ ELSE @ + 1]
    /\ Answer(r, "ok")

\* A request that pulls its target.
Pulls(r) ==
    /\ request[r].op \in {"deleteFormField", "deleteFormLogic"}
    /\ LET a == ArrayOf(request[r].op)
       IN  /\ form' = [form EXCEPT ![a] = Without(form[a], request[r].target)]
           /\ unseen' = [unseen EXCEPT ![a].position = @ + 1]
    /\ Answer(r, "ok")

\* A request that sets the status.
SetsStatus(r) ==
    /\ request[r].op \in StatusOp
    /\ \E newStatus \in Status : form' = [form EXCEPT !.status = newStatus]
    /\ Answer(r, "ok")
    /\ UNCHANGED unseen

Effect(r) ==
    \/ LeavesForm(r)
    \/ ReplacesFields(r)
    \/ Pushes(r)
    \/ WritesElement(r)
    \/ Pulls(r)
    \/ SetsStatus(r)

\* Every operation has one of these effects.
LEMMA SaveEffects ==
    ASSUME EditingTypes, NEW r \in DOMAIN request, Save(r)
    PROVE  request[r].pc = "save" /\ Effect(r)
<1> DEFINE q == request[r]
           fields == q.read.form_fields
<1>1. q \in Edit /\ Aimed(q)
  BY ElementOfSeq, LenProperties DEF EditingTypes
<1>2. /\ NewElement(r) \in Element /\ r \in ElementId
      /\ \A id \in ElementId : [id |-> id, edit |-> r] \in Element
  BY NewElements
<1>3. /\ q.read \in Document /\ fields \in Seq(Element)
      /\ q.read["form_fields"] = fields
      /\ form \in Document /\ form.form_fields \in Seq(Element)
      /\ form.version \in Nat
  BY <1>1 DEF Edit, Document, EditingTypes
<1>4. Len(fields) \in Nat
  BY <1>3, LenProperties
<1>5. ASSUME NEW s \in Seq(Element), SetArray(r, "form_fields", s),
             q.op \in {"insertFormField", "duplicateFormField",
                       "reorderFormField"},
             q.op = "insertFormField" => q.place # AtEnd,
             s = fields => q.op = "reorderFormField",
             Entries(s) = Entries(fields) \cup
                             (IF q.op = "reorderFormField" THEN {}
                              ELSE {NewElement(r)})
      PROVE  Effect(r)
  <2>1. CASE s = q.read["form_fields"] /\ Answer(r, "ok") /\ UNCHANGED <<form, unseen>>
    <3>1. q.op = "reorderFormField"
      BY <1>3, <1>5, <2>1
    <3> QED
      BY <2>1, <3>1 DEF Effect, LeavesForm
  <2>2. CASE Conflict(r)
    BY <2>2 DEF Conflict, Effect, LeavesForm
  <2>3. CASE /\ SameVersion(r)
             /\ form' = [form EXCEPT !["form_fields"] = s, !.version = @ + 1]
             /\ Answer(r, "ok")
             /\ UNCHANGED unseen
    <3>1. form' = [form EXCEPT !["form_fields"] = s,
                               !.version = form.version + 1]
      BY <1>3, <2>3 DEF Document
    <3>2. ReplacesFields(r)
      BY <1>5, <2>3, <3>1 DEF ReplacesFields
    <3> QED
      BY <3>2 DEF Effect
  <2> QED
    BY <1>5, <2>1, <2>2, <2>3 DEF SetArray
<1>6. ASSUME NEW a \in Array, PushElement(r, a, NewElement(r)),
             q.op \in {"insertFormField", "createFormLogic"}, a = ArrayOf(q.op)
      PROVE  Effect(r)
  <2>1. form' = [form EXCEPT ![a] = Append(form[a], NewElement(r)),
                             !.version = form.version + 1]
    <3>1. form' = [form EXCEPT ![a] = Append(@, NewElement(r)),
                               !.version = @ + 1]
      BY <1>6 DEF PushElement, PushedVersion
    <3>2. CASE a = "form_fields"
      BY <1>3, <3>1, <3>2 DEF Document
    <3>3. CASE a = "form_logics"
      BY <1>3, <3>1, <3>3 DEF Document
    <3> QED
      BY <3>2, <3>3 DEF Array
  <2>2. Pushes(r)
    BY <1>6, <2>1 DEF Pushes, PushElement
  <2> QED
    BY <2>2 DEF Effect
<1>7. CASE updateFormFieldById(r)
  <2> DEFINE i == IndexOf(fields, q.target)
             id == IF i \in DOMAIN form.form_fields
                   THEN form.form_fields[i].id ELSE NoId
             e == [id |-> id, edit |-> r]
  <2>1. q.pc = "save" /\ q.op = "updateFormField"
    BY <1>7 DEF updateFormFieldById, Saving
  <2>2. id \in ElementId
    <3>1. NoId \in ElementId
      BY EditingAssumption DEF EditingAssumption, ElementId, NoId
    <3>2. ASSUME NEW j \in DOMAIN form.form_fields
          PROVE  form.form_fields[j].id \in ElementId
      <4>1. form.form_fields[j] \in Element
        BY <1>3, ElementOfSeq, LenProperties
      <4> QED
        BY <4>1 DEF Element
    <3> HIDE DEF i
    <3> QED
      BY <3>1, <3>2
  <2> HIDE DEF id, i
  <2>3. e \in Element /\ e.id = id
    BY <1>2, <2>2
  <2>4. CASE Answer(r, "refused") /\ UNCHANGED <<form, unseen>>
    BY <2>1, <2>4 DEF Effect, LeavesForm
  <2>5. ASSUME NEW n \in {0, 1}, SetElement(r, "form_fields", i, e, n),
               ~ Conflict(r)
        PROVE  Effect(r)
    <3> HIDE DEF e
    <3>1. /\ SameVersion(r)
          /\ form' = [form EXCEPT !["form_fields"] =
                         WrittenAt(form["form_fields"], i, e),
                                  !.version = form.version + n]
          /\ unseen' = IF n = 1 THEN unseen ELSE [unseen EXCEPT
                !["form_fields"].content = @ + 1,
                !["form_fields"].position =
                   IF Holds("form_fields", i, e.id) THEN @ ELSE @ + 1]
          /\ Answer(r, "ok")
      <4>1. /\ SameVersion(r)
            /\ form' = [form EXCEPT !["form_fields"] =
                           [j \in 1 .. (IF i > Len(@) THEN i ELSE Len(@)) |->
                              IF j = i THEN e
                              ELSE IF j \in DOMAIN @ THEN form["form_fields"][j]
                              ELSE Nothing],
                                    !.version = @ + n]
            /\ unseen' = IF n = 1 THEN unseen ELSE [unseen EXCEPT
                  !["form_fields"].content = @ + 1,
                  !["form_fields"].position =
                     IF Holds("form_fields", i, e.id) THEN @ ELSE @ + 1]
            /\ Answer(r, "ok")
        BY <2>5 DEF SetElement
      <4>2. form' = [form EXCEPT !["form_fields"] =
                        WrittenAt(form["form_fields"], i, e),
                                 !.version = form.version + n]
        BY <1>3, <4>1 DEF WrittenAt, Document
      <4> QED
        BY <4>1, <4>2
    <3>2. ArrayOf(q.op) = "form_fields" /\ i = IndexOf(q.read["form_fields"], q.target)
      BY <1>3, <2>1 DEF ArrayOf, LogicOp, i
    <3>3. e.id = IF i \in DOMAIN form["form_fields"]
                 THEN form["form_fields"][i].id ELSE NoId
      BY <1>3, <2>3 DEF id, Document
    <3>4. WritesElement(r)
      BY <2>1, <2>3, <3>1, <3>2, <3>3 DEF WritesElement
    <3> QED
      BY <2>1, <3>4 DEF Effect
  <2>6. CASE Conflict(r)
    BY <2>1, <2>6 DEF Conflict, Effect, LeavesForm
  <2>7. \/ Answer(r, "refused") /\ UNCHANGED <<form, unseen>>
        \/ \E n \in {0, 1} : SetElement(r, "form_fields", i, e, n)
    BY <1>7 DEF updateFormFieldById, ReadFields, i, id
  <2> HIDE DEF e
  <2> QED
    BY <2>1, <2>4, <2>5, <2>6, <2>7
<1>8. CASE insertFormField(r)
  <2>1. q.pc = "save" /\ q.op = "insertFormField"
    BY <1>8 DEF insertFormField, Saving
  <2>2. CASE q.place = AtEnd
    <3>1. PushElement(r, "form_fields", NewElement(r))
      BY <1>8, <2>2 DEF insertFormField
    <3>2. "form_fields" = ArrayOf(q.op) /\ "form_fields" \in Array
      BY <2>1 DEF ArrayOf, LogicOp, Array
    <3> QED
      BY <1>6, <2>1, <3>1, <3>2
  <2>3. CASE q.place # AtEnd
    <3>1. PICK i \in 1 .. Len(fields) + 1 : i = 1 + Lesser(q.place, Len(fields))
      <4>1. q.place \in Nat
        BY <1>1, <2>3 DEF Edit, AtEnd
      <4> QED
        BY <1>4, <4>1 DEF Lesser
    <3>2. PICK s : s = InsertAt(fields, i, NewElement(r))
      OBVIOUS
    <3>3. SetArray(r, "form_fields", s)
      BY <1>8, <2>3, <3>1, <3>2 DEF insertFormField, ReadFields
    <3>4. /\ s \in Seq(Element) /\ Len(s) = Len(fields) + 1
          /\ Entries(s) = Entries(fields) \cup {NewElement(r)}
      BY <1>2, <1>3, <3>2, InsertedElements
    <3>5. s # fields
      BY <1>4, <3>4
    <3> QED
      BY <1>5, <2>1, <2>3, <3>3, <3>4, <3>5
  <2> QED
    BY <2>2, <2>3
<1>9. CASE duplicateFormFieldByIdAndIndex(r)
  <2>1. q.pc = "save" /\ q.op = "duplicateFormField"
    BY <1>9 DEF duplicateFormFieldByIdAndIndex, Saving
  <2>2. PICK i \in 1 .. Len(fields) + 1 : i = IndexOf(fields, q.target) + 1
    BY <1>3, <1>4, IndexFound
  <2>3. PICK s : s = InsertAt(fields, i, NewElement(r))
    OBVIOUS
  <2>4. SetArray(r, "form_fields", s)
    BY <1>9, <2>2, <2>3 DEF duplicateFormFieldByIdAndIndex, ReadFields
  <2>5. /\ s \in Seq(Element) /\ Len(s) = Len(fields) + 1
        /\ Entries(s) = Entries(fields) \cup {NewElement(r)}
    BY <1>2, <1>3, <2>3, InsertedElements
  <2>6. s # fields
    BY <1>4, <2>5
  <2> QED
    BY <1>5, <2>1, <2>4, <2>5, <2>6
<1>10. CASE reorderFormFieldById(r)
  <2>1. q.pc = "save" /\ q.op = "reorderFormField"
    BY <1>10 DEF reorderFormFieldById, Saving
  <2>2. q.target \in Ids(fields) /\ q.place \in Nat
    BY <1>1, <1>3, <2>1 DEF Aimed, Targeting, ArrayOf, LogicOp
  <2>3. PICK i \in 1 .. Len(fields) : i = IndexOf(fields, q.target)
    BY <1>3, <2>2, IndexFound
  <2>4. PICK s : s = reorder(fields, i, q.place)
    OBVIOUS
  <2>5. SetArray(r, "form_fields", s)
    BY <1>10, <2>3, <2>4 DEF reorderFormFieldById, ReadFields
  <2>6. s \in Seq(Element) /\ Entries(s) = Entries(fields)
    BY <1>3, <2>2, <2>4, ReorderedElements
  <2> QED
    BY <1>5, <2>1, <2>5, <2>6
<1>11. CASE deleteFormFieldById(r)
  BY <1>11 DEF deleteFormFieldById, Saving, PullElement, Effect, Pulls, ArrayOf,
               LogicOp
<1>12. CASE createFormLogic(r)
  <2>1. q.pc = "save" /\ q.op = "createFormLogic"
    BY <1>12 DEF createFormLogic, Saving
  <2>2. PushElement(r, "form_logics", NewElement(r))
    BY <1>12 DEF createFormLogic
  <2>3. "form_logics" = ArrayOf(q.op) /\ "form_logics" \in Array
    BY <2>1 DEF ArrayOf, LogicOp, Array
  <2> QED
    BY <1>6, <2>1, <2>2, <2>3
<1>13. CASE updateFormLogic(r)
  <2> DEFINE i == IndexOf(q.read.form_logics, q.target)
             e == [id |-> q.target, edit |-> r]
  <2>1. /\ q.pc = "save" /\ q.op = "updateFormLogic"
        /\ SetElement(r, "form_logics", i, e, 0)
    BY <1>13 DEF updateFormLogic, Saving
  <2>2. e \in Element /\ e.id = q.target
    BY <1>1, <1>2 DEF Edit
  <2> HIDE DEF i, e
  <2>4. CASE Conflict(r)
    BY <2>1, <2>4 DEF Conflict, Effect, LeavesForm
  <2>5. ASSUME NEW n \in {0, 1}, SetElement(r, "form_logics", i, e, n),
               ~ Conflict(r)
        PROVE  Effect(r)
    <3>1. /\ SameVersion(r)
          /\ form' = [form EXCEPT !["form_logics"] =
                         WrittenAt(form["form_logics"], i, e),
                                  !.version = form.version + n]
          /\ unseen' = IF n = 1 THEN unseen ELSE [unseen EXCEPT
                !["form_logics"].content = @ + 1,
                !["form_logics"].position =
                   IF Holds("form_logics", i, e.id) THEN @ ELSE @ + 1]
          /\ Answer(r, "ok")
      <4>1. /\ SameVersion(r)
            /\ form' = [form EXCEPT !["form_logics"] =
                           [j \in 1 .. (IF i > Len(@) THEN i ELSE Len(@)) |->
                              IF j = i THEN e
                              ELSE IF j \in DOMAIN @ THEN form["form_logics"][j]
                              ELSE Nothing],
                                    !.version = @ + n]
            /\ unseen' = IF n = 1 THEN unseen ELSE [unseen EXCEPT
                  !["form_logics"].content = @ + 1,
                  !["form_logics"].position =
                     IF Holds("form_logics", i, e.id) THEN @ ELSE @ + 1]
            /\ Answer(r, "ok")
        BY <2>5 DEF SetElement
      <4>2. form' = [form EXCEPT !["form_logics"] =
                        WrittenAt(form["form_logics"], i, e),
                                 !.version = form.version + n]
        BY <1>3, <4>1 DEF WrittenAt, Document
      <4> QED
        BY <4>1, <4>2
    <3>2. ArrayOf(q.op) = "form_logics" /\ i = IndexOf(q.read["form_logics"], q.target)
      BY <1>3, <2>1 DEF ArrayOf, LogicOp, i, Document
    <3>3. WritesElement(r)
      BY <2>1, <2>2, <3>1, <3>2 DEF WritesElement
    <3> QED
      BY <2>1, <3>3 DEF Effect
  <2> QED
    BY <2>1, <2>4, <2>5
<1>14. CASE deleteFormLogic(r)
  BY <1>14 DEF deleteFormLogic, Saving, PullElement, Effect, Pulls, ArrayOf,
               LogicOp
<1>15. CASE archive(r)
  BY <1>15 DEF archive, Saving, SetStatus, Effect, SetsStatus, StatusOp, Status
<1>16. CASE updateFormSettings(r)
  BY <1>16 DEF updateFormSettings, Saving, SetStatus, Effect, SetsStatus,
               StatusOp, Status
<1>17. CASE deactivateById(r)
  <2>1. form.status \in Status
    BY <1>3 DEF Document
  <2>2. (IF q.read.status = "PUBLIC" THEN "PRIVATE" ELSE form.status) \in Status
    BY <2>1 DEF Status
  <2> QED
    BY <1>17, <2>2 DEF deactivateById, Saving, SetStatus, Effect, SetsStatus,
                       StatusOp
<1> QED
  BY <1>7, <1>8, <1>9, <1>10, <1>11, <1>12, <1>13, <1>14, <1>15, <1>16, <1>17
     DEF Save

\* What a request has just read is the form, as some node has it.
FreshlyRead(q) ==
    /\ q \in Edit /\ Aimed(q)
    /\ \E copy \in copies : q.read = copy.read /\ q.seen = copy.seen
    /\ q.pc \in {"readAgain", "save", "notFound"}

\* A request that is received reads the form.
LEMMA ReceiveEffects ==
    ASSUME EditingTypes, Receive
    PROVE  /\ Len(request) < MaxRequests
           /\ \E q : FreshlyRead(q) /\ request' = Append(request, q)
           /\ UNCHANGED <<form, unseen>>
<1>1. ASSUME NEW array \in Array
      PROVE  Named(array) \subseteq ElementId \ {NoId}
  <2>1. form[array] \in Seq(Element)
    BY <1>1 DEF EditingTypes, Document, Array
  <2>2. Ids(form[array]) \subseteq ElementId
    <3>1. \A i \in DOMAIN form[array] : form[array][i] \in Element
      BY <2>1, ElementOfSeq, LenProperties
    <3> QED
      BY <3>1 DEF Ids, Element
  <2>3. \A r \in DOMAIN request : request[r].target \in ElementId
    <3>1. \A r \in DOMAIN request : request[r] \in Edit
      BY ElementOfSeq, LenProperties DEF EditingTypes
    <3> QED
      BY <3>1 DEF Edit
  <2> QED
    BY <2>2, <2>3 DEF Named
<1>2. NoId \in ElementId
  BY EditingAssumption DEF EditingAssumption, ElementId, NoId
<1>3. Position \subseteq Nat
  BY DEF Position
<1>4. ASSUME NEW op \in FieldOp \cup LogicOp \cup StatusOp,
             NEW target \in ElementId, NEW place \in Nat \cup {AtEnd},
             Read(op, target, place),
             op = "reorderFormField" => place \in Nat,
             op \in Targeting => target # NoId
      PROVE  /\ Len(request) < MaxRequests
             /\ \E q : FreshlyRead(q) /\ request' = Append(request, q)
             /\ UNCHANGED <<form, unseen>>
  <2>0. PICK copy \in copies :
           request' = Append(request,
              [op |-> op, target |-> target, place |-> place,
               read |-> copy.read, seen |-> copy.seen,
               pc |-> IF /\ target # NoId
                         /\ target \notin Ids(copy.read[ArrayOf(op)])
                      THEN "notFound"
                      ELSE IF op = "updateFormLogic" THEN "readAgain"
                      ELSE "save"])
    BY <1>4 DEF Read
  <2> DEFINE pc == IF target # NoId /\ target \notin Ids(copy.read[ArrayOf(op)])
                   THEN "notFound"
                   ELSE IF op = "updateFormLogic" THEN "readAgain" ELSE "save"
             q == [op |-> op, target |-> target, place |-> place,
                   read |-> copy.read, seen |-> copy.seen, pc |-> pc]
  <2>1. /\ Len(request) < MaxRequests
        /\ request' = Append(request, q)
        /\ UNCHANGED <<form, unseen>>
    BY <1>4, <2>0 DEF Read
  <2>2. /\ pc \in {"readAgain", "save", "notFound"}
        /\ op \in Targeting /\ pc = "save" => target \in Ids(copy.read[ArrayOf(op)])
        /\ pc = "readAgain" => op = "updateFormLogic"
    BY <1>4
  <2>6. copy.read \in Document /\ copy.seen \in Changes
    BY DEF EditingTypes, CopiesTyped
  <2> HIDE DEF pc
  <2>3. q \in Edit
    BY <2>2, <2>6 DEF Edit, Outcome
  <2>4. Aimed(q)
    BY <1>4, <2>2 DEF Aimed
  <2>7. q.read = copy.read /\ q.seen = copy.seen /\ q.pc = pc
    OBVIOUS
  <2>5. FreshlyRead(q)
    <3> HIDE DEF q
    <3> QED
      BY <2>2, <2>3, <2>4, <2>7 DEF FreshlyRead
  <2> HIDE DEF q
  <2> QED
    BY <2>1, <2>5
<1>5. CASE \E op \in FieldOp, f \in Named("form_fields"), to \in Position :
              CASE op = "insertFormField" -> Read(op, NoId, to)
                [] op = "reorderFormField" -> Read(op, f, to)
                [] OTHER -> Read(op, f, AtEnd)
  <2>1. PICK op \in FieldOp, f \in Named("form_fields"), to \in Position :
              CASE op = "insertFormField" -> Read(op, NoId, to)
                [] op = "reorderFormField" -> Read(op, f, to)
                [] OTHER -> Read(op, f, AtEnd)
    BY <1>5
  <2>2. f \in ElementId /\ f # NoId /\ to \in Nat
    BY <1>1, <1>3 DEF Array
  <2>3. CASE op = "insertFormField"
    <3>1. Read(op, NoId, to)
      BY <2>1, <2>3
    <3> QED
      BY <1>2, <1>4, <2>2, <2>3, <3>1 DEF Targeting
  <2>4. CASE op = "reorderFormField"
    <3>1. Read(op, f, to)
      BY <2>1, <2>4
    <3> QED
      BY <1>4, <2>2, <2>4, <3>1
  <2>5. CASE op # "insertFormField" /\ op # "reorderFormField"
    <3>1. Read(op, f, AtEnd)
      BY <2>1, <2>5
    <3> QED
      BY <1>4, <2>2, <2>5, <3>1
  <2> QED
    BY <2>3, <2>4, <2>5
<1>6. CASE Read("insertFormField", NoId, AtEnd)
  BY <1>2, <1>4, <1>6 DEF FieldOp, Targeting
<1>7. CASE Read("createFormLogic", NoId, AtEnd)
  BY <1>2, <1>4, <1>7 DEF LogicOp, Targeting
<1>8. CASE \E op \in LogicOp \ {"createFormLogic"}, l \in Named("form_logics") :
              Read(op, l, AtEnd)
  <2>1. PICK op \in LogicOp \ {"createFormLogic"}, l \in Named("form_logics") :
              Read(op, l, AtEnd)
    BY <1>8
  <2>2. l \in ElementId /\ l # NoId /\ op # "reorderFormField"
    BY <1>1 DEF Array, LogicOp
  <2> QED
    BY <1>4, <2>1, <2>2
<1>9. CASE \E op \in StatusOp : Read(op, NoId, AtEnd)
  <2>1. PICK op \in StatusOp : Read(op, NoId, AtEnd)
    BY <1>9
  <2>2. op # "reorderFormField" /\ op \notin Targeting
    BY DEF StatusOp, Targeting
  <2> QED
    BY <1>2, <1>4, <2>1, <2>2
<1> QED
  BY <1>5, <1>6, <1>7, <1>8, <1>9 DEF Receive

\* A request that reads once more has read the form.
LEMMA ReadAgainEffects ==
    ASSUME EditingTypes, NEW r \in DOMAIN request, ReadAgain(r)
    PROVE  /\ request[r].pc = "readAgain"
           /\ \E q : /\ FreshlyRead(q) /\ q.op = request[r].op
                     /\ q.target = request[r].target
                     /\ request' = [request EXCEPT ![r] = q]
           /\ UNCHANGED <<form, unseen>>
<1>0. PICK copy \in copies :
         request' = [request EXCEPT
            ![r].read = copy.read, ![r].seen = copy.seen,
            ![r].pc = IF request[r].target \in Ids(copy.read.form_logics)
                      THEN "save" ELSE "notFound"]
  BY DEF ReadAgain
<1> DEFINE pc == IF request[r].target \in Ids(copy.read.form_logics)
                 THEN "save" ELSE "notFound"
<1>1. request[r] \in Edit /\ Aimed(request[r])
  BY ElementOfSeq, LenProperties DEF EditingTypes
<1>2. /\ request[r].pc = "readAgain"
      /\ request' = [request EXCEPT ![r] = [request[r] EXCEPT
                        !.read = copy.read, !.seen = copy.seen, !.pc = pc]]
      /\ UNCHANGED <<form, unseen>>
  BY <1>0 DEF ReadAgain
<1>4. request[r].op = "updateFormLogic"
  BY <1>1, <1>2 DEF Aimed
<1>3. \E q : /\ FreshlyRead(q) /\ q.op = request[r].op
             /\ q.target = request[r].target
             /\ request' = [request EXCEPT ![r] = q]
  <2>1. PICK q : q = [request[r] EXCEPT !.read = copy.read, !.seen = copy.seen,
                                        !.pc = pc]
    OBVIOUS
  <2>2. copy.read \in Document /\ copy.seen \in Changes
    BY DEF EditingTypes, CopiesTyped
  <2>3. pc \in {"save", "notFound"}
    OBVIOUS
  <2>4. pc = "save" => request[r].target \in Ids(copy.read.form_logics)
    OBVIOUS
  <2> HIDE DEF pc
  <2>5. /\ q.read = copy.read /\ q.seen = copy.seen /\ q.pc = pc
        /\ q.op = request[r].op /\ q.target = request[r].target
        /\ q.place = request[r].place
    BY <1>1, <2>1 DEF Edit
  <2>6. q \in Edit
    BY <1>1, <2>1, <2>2, <2>3 DEF Edit, Outcome
  <2>7. /\ ArrayOf(q.op) = "form_logics"
        /\ copy.read["form_logics"] = copy.read.form_logics
    BY <1>4, <2>2, <2>5 DEF ArrayOf, LogicOp, Document
  <2>8. Aimed(q)
    <3>1. request[r].target \in ElementId
      BY <1>1 DEF Edit
    <3> QED
      BY <1>1, <1>4, <2>4, <2>5, <2>7, <3>1 DEF Aimed
  <2>9. FreshlyRead(q)
    BY <1>4, <2>3, <2>5, <2>6, <2>8 DEF FreshlyRead
  <2> QED
    BY <1>2, <2>1, <2>5, <2>9
<1> QED
  BY <1>2, <1>3

-----------------------------------------------------------------------------
(* The types.                                                               *)

\* The histories of an array that are counted on.
LEMMA ChangesCounted ==
    ASSUME NEW u \in Changes, NEW a \in Array, NEW m \in Nat, NEW n \in Nat
    PROVE  LET v == [u EXCEPT ![a].content = m, ![a].position = n]
               w == [u EXCEPT ![a].position = n]
           IN  /\ v \in Changes /\ v[a].content = m /\ v[a].position = n
               /\ w \in Changes /\ w[a].content = u[a].content
               /\ w[a].position = n
               /\ \A b \in Array \ {a} : v[b] = u[b] /\ w[b] = u[b]
               /\ u[a].content \in Nat /\ u[a].position \in Nat
BY DEF Changes

\* What a save makes of the form and the history has their types, and counts
\* the version up for a success only.
LEMMA EffectTypes ==
    ASSUME EditingTypes, NEW r \in DOMAIN request, Effect(r)
    PROVE  /\ form' \in Document /\ unseen' \in Changes
           /\ \E c \in {"ok", "refused"} :
                 /\ Answer(r, c)
                 /\ \/ form'.version = form.version
                    \/ c = "ok" /\ form'.version = form.version + 1
<1> DEFINE q == request[r]
           a == ArrayOf(q.op)
<1>1. q \in Edit /\ form \in Document /\ unseen \in Changes
  BY ElementOfSeq, LenProperties DEF EditingTypes
<1>2. /\ a \in Array /\ form[a] \in Seq(Element)
      /\ q.read[a] \in Seq(Element) /\ form.version \in Nat
      /\ form.version + 1 \in Nat
  BY <1>1 DEF ArrayOf, Array, Edit, Document
<1>3. /\ NewElement(r) \in Element /\ Nothing \in Element
  BY NewElements
<1>4. CASE LeavesForm(r)
  BY <1>1, <1>4 DEF LeavesForm
<1>5. CASE ReplacesFields(r)
  <2>1. PICK s \in Seq(Element) :
           form' = [form EXCEPT !["form_fields"] = s,
                                !.version = form.version + 1]
    BY <1>5 DEF ReplacesFields
  <2>2. "form_fields" \in Array
    BY DEF Array
  <2>4. Replaced(form, form', "form_fields", s, form.version + 1)
    BY <1>1, <1>2, <2>1, <2>2, ArrayAndVersion, Zenon
  <2>3. form' \in Document /\ form'.version = form.version + 1
    BY <2>4 DEF Replaced
  <2> QED
    BY <1>1, <1>5, <2>3 DEF ReplacesFields
<1>6. CASE Pushes(r)
  <2>1. PICK s \in Seq(Element) : s = Append(form[a], NewElement(r))
    BY <1>2, <1>3, PushedElements
  <2>2. form' = [form EXCEPT ![a] = s, !.version = form.version + 1]
    BY <1>6, <2>1 DEF Pushes
  <2> HIDE DEF a
  <2>4. Replaced(form, form', a, s, form.version + 1)
    BY <1>1, <1>2, <2>2, ArrayAndVersion, Zenon
  <2>3. form' \in Document /\ form'.version = form.version + 1
    BY <2>4 DEF Replaced
  <2> QED
    BY <1>1, <1>6, <2>3 DEF Pushes
<1>7. CASE WritesElement(r)
  <2>1. PICK i \in Nat : i = IndexOf(q.read[a], q.target)
    <3>1. IndexOf(q.read[a], q.target) \in 0 .. Len(q.read[a])
      BY <1>2, IndexFound
    <3> QED
      BY <3>1
  <2>2. PICK e \in Element, up \in {0, 1} :
           /\ form' = [form EXCEPT ![a] = WrittenAt(form[a], i, e),
                                   !.version = form.version + up]
           /\ unseen' = IF up = 1 THEN unseen ELSE [unseen EXCEPT
                 ![a].content = @ + 1,
                 ![a].position = IF Holds(a, i, e.id) THEN @ ELSE @ + 1]
    BY <1>7, <2>1 DEF WritesElement
  <2> HIDE DEF a
  <2>3. PICK s \in Seq(Element) : s = WrittenAt(form[a], i, e)
    BY <1>2, <1>3, WrittenElements
  <2>8. PICK v \in Nat : v = form.version + up
    BY <1>2
  <2>9. form' = [form EXCEPT ![a] = s, !.version = v]
    BY <2>2, <2>3, <2>8
  <2>7. Replaced(form, form', a, s, v)
    BY <1>1, <1>2, <2>9, ArrayAndVersion, Zenon
  <2>4. /\ form' \in Document
        /\ form'.version = form.version \/ form'.version = form.version + 1
    BY <1>2, <2>7, <2>8 DEF Replaced
  <2>5. ASSUME up # 1
        PROVE  \E m \in Nat, n \in Nat :
                  unseen' = [unseen EXCEPT ![a].content = m, ![a].position = n]
    <3>1. unseen[a].content \in Nat /\ unseen[a].position \in Nat
      BY <1>1, <1>2 DEF Changes
    <3>2. unseen' = [unseen EXCEPT
             ![a].content = unseen[a].content + 1,
             ![a].position = IF Holds(a, i, e.id) THEN unseen[a].position
                             ELSE unseen[a].position + 1]
      BY <1>1, <1>2, <2>2, <2>5 DEF Changes
    <3>3. PICK n \in Nat : n = IF Holds(a, i, e.id) THEN unseen[a].position
                               ELSE unseen[a].position + 1
      BY <3>1
    <3>4. PICK m \in Nat : m = unseen[a].content + 1
      BY <3>1
    <3> QED
      BY <3>2, <3>3, <3>4, Zenon
  <2>6. unseen' \in Changes
    <3>1. CASE up = 1
      BY <1>1, <2>2, <3>1
    <3>2. CASE up # 1
      <4>1. PICK m \in Nat, n \in Nat :
               unseen' = [unseen EXCEPT ![a].content = m, ![a].position = n]
        BY <2>5, <3>2
      <4> QED
        BY <1>1, <1>2, <4>1, ChangesCounted
    <3> QED
      BY <3>1, <3>2
  <2> QED
    BY <1>7, <2>4, <2>6 DEF WritesElement
<1>8. CASE Pulls(r)
  <2>1. PICK s \in Seq(Element) : s = Without(form[a], q.target)
    BY <1>2, WithoutElements
  <2>2. /\ form' = [form EXCEPT ![a] = s]
        /\ unseen' = [unseen EXCEPT ![a].position = @ + 1]
    BY <1>8, <2>1 DEF Pulls
  <2> HIDE DEF a
  <2>7. Replaced(form, form', a, s, form.version)
    BY <1>1, <1>2, <2>2, ArrayOnly, Zenon
  <2>3. form' \in Document /\ form'.version = form.version
    BY <2>7 DEF Replaced
  <2>4. PICK n \in Nat : unseen' = [unseen EXCEPT ![a].position = n]
    <3>1. unseen[a].position \in Nat
      BY <1>1, <1>2 DEF Changes
    <3>2. unseen' = [unseen EXCEPT ![a].position = unseen[a].position + 1]
      BY <1>1, <1>2, <2>2 DEF Changes
    <3>3. PICK n \in Nat : n = unseen[a].position + 1
      BY <3>1
    <3> QED
      BY <3>2, <3>3, Zenon
  <2>5. unseen' \in Changes
    BY <1>1, <1>2, <2>4, ChangesCounted
  <2> QED
    BY <1>8, <2>3, <2>5 DEF Pulls
<1>9. CASE SetsStatus(r)
  <2>1. PICK newStatus \in Status : form' = [form EXCEPT !.status = newStatus]
    BY <1>9 DEF SetsStatus
  <2>2. form' \in Document /\ form'.version = form.version
    BY <1>1, <2>1 DEF Document
  <2> QED
    BY <1>1, <1>9, <2>2 DEF SetsStatus
<1> QED
  BY <1>4, <1>5, <1>6, <1>7, <1>8, <1>9 DEF Effect

\* The requests that have succeeded are finitely many.
LEMMA GrantedFinite ==
    ASSUME request \in Seq(Edit)
    PROVE  /\ IsFiniteSet(Granted) /\ Cardinality(Granted) \in Nat
           /\ Cardinality(Granted) <= Len(request)
<1>1. Len(request) \in Nat /\ Granted \subseteq 1 .. Len(request)
  BY LenProperties DEF Granted
<1>2. IsFiniteSet(1 .. Len(request)) /\ Cardinality(1 .. Len(request)) = Len(request)
  <2>1. Len(request) \in Nat
    BY <1>1
  <2>2. PICK n \in Nat : n = Len(request)
    BY <2>1
  <2>3. IsFiniteSet(1 .. n) /\ Cardinality(1 .. n) = n
    BY FS_Interval
  <2> QED
    BY <2>2, <2>3
<1>3. IsFiniteSet(Granted) /\ Cardinality(Granted) <= Len(request)
  BY <1>1, <1>2, FS_Subset
<1> QED
  BY <1>3, FS_CardinalityType

\* A document that is added to what the nodes may return is the latest.
LEMMA CopiesTypedNext ==
    ASSUME CopiesTyped, CopiesGrow, form' \in Document, unseen' \in Changes
    PROVE  CopiesTyped'
<1>1. Copy' = [read |-> form', seen |-> unseen']
  BY DEF Copy
<1>2. Copy' \in [read : Document, seen : Changes]
  BY <1>1
<1>3. /\ copies' \subseteq [read : Document, seen : Changes]
      /\ Copy' \in copies'
  BY <1>2 DEF CopiesTyped, CopiesGrow
<1> QED
  BY <1>3 DEF CopiesTyped

\* The types are invariant: initially ...
LEMMA EditingTypesInit ==
    Init => EditingTypes
<1> SUFFICES ASSUME Init PROVE EditingTypes
  OBVIOUS
<1>1. MaxRequests \in Nat /\ Fields \in Nat /\ Logics \in Nat
  BY EditingAssumption DEF EditingAssumption
<1>2. /\ FirstElements(Fields) \in Seq(Element)
      /\ [i \in 1 .. Logics |-> [id |-> MaxRequests + Fields + i, edit |-> 0]]
            \in Seq(Element)
  <2>1. \A i \in 1 .. Fields : [id |-> MaxRequests + i, edit |-> 0] \in Element
    BY <1>1 DEF Element, ElementId
  <2>2. \A i \in 1 .. Logics :
           [id |-> MaxRequests + Fields + i, edit |-> 0] \in Element
    BY <1>1 DEF Element, ElementId
  <2>3. FirstElements(Fields) \in [1 .. Fields -> Element]
    BY <2>1 DEF FirstElements
  <2>4. [i \in 1 .. Logics |-> [id |-> MaxRequests + Fields + i, edit |-> 0]]
           \in [1 .. Logics -> Element]
    BY <2>2
  <2>5. PICK m \in Nat, n \in Nat : m = Fields /\ n = Logics
    BY <1>1
  <2>6. [1 .. m -> Element] \subseteq Seq(Element)
        /\ [1 .. n -> Element] \subseteq Seq(Element)
    BY SeqDef
  <2> QED
    BY <2>3, <2>4, <2>5, <2>6, Zenon
<1>3. form \in Document /\ form.version = 0
  <2>1. PICK newStatus \in {"PUBLIC", "PRIVATE"} :
          form = [form_fields |-> FirstElements(Fields),
                  form_logics |->
                     [i \in 1 .. Logics |-> [id |-> MaxRequests + Fields + i,
                                             edit |-> 0]],
                  status |-> newStatus, version |-> 0]
    BY DEF Init
  <2> QED
    BY <1>2, <2>1 DEF Document, Status
<1>4. unseen \in Changes
  BY DEF Init, Changes, Array, NoChange
<1>5. request = <<>> /\ request \in Seq(Edit) /\ Len(request) = 0
  BY DEF Init
<1>6. form.version <= Cardinality(Granted)
  <2>1. Cardinality(Granted) \in Nat
    BY <1>5, GrantedFinite
  <2> QED
    BY <1>3, <2>1
<1>7. CopiesTyped
  BY <1>3, <1>4 DEF Init, Copy, CopiesTyped
<1> QED
  BY <1>1, <1>3, <1>4, <1>5, <1>6, <1>7 DEF EditingTypes

\* ... and by every step.
LEMMA EditingTypesNext ==
    EditingTypes /\ [Next]_editingVars => EditingTypes'
<1> SUFFICES ASSUME EditingTypes, [Next]_editingVars PROVE EditingTypes'
  OBVIOUS
<1>1. /\ form \in Document /\ form.version \in Nat
      /\ Len(request) \in Nat /\ DOMAIN request = 1 .. Len(request)
      /\ MaxRequests \in Nat
  BY LenProperties, EditingAssumption DEF EditingTypes, Document, EditingAssumption
<1>2. IsFiniteSet(Granted) /\ Cardinality(Granted) \in Nat
  BY GrantedFinite DEF EditingTypes
<1>3. ASSUME Receive, CopiesGrow PROVE EditingTypes'
  <2>1. PICK q : FreshlyRead(q) /\ request' = Append(request, q)
    BY <1>3, ReceiveEffects
  <2>2. Len(request) < MaxRequests /\ UNCHANGED <<form, unseen>>
    BY <1>3, ReceiveEffects
  <2>3. q \in Edit /\ Aimed(q) /\ q.pc # "ok"
    BY <2>1 DEF FreshlyRead
  <2>4. /\ request' \in Seq(Edit) /\ Len(request') = Len(request) + 1
        /\ request'[Len(request) + 1] = q
        /\ \A r \in 1 .. Len(request) : request'[r] = request[r]
    BY <2>1, <2>3, AppendProperties DEF EditingTypes
  <2>5. DOMAIN request' = 1 .. Len(request) + 1
    BY <2>4, LenProperties
  <2>6. Granted' = Granted
    <3>1. Granted' = {r \in DOMAIN request' : request'[r].pc = "ok"}
      BY DEF Granted
    <3>2. 1 .. Len(request) + 1 = (1 .. Len(request)) \cup {Len(request) + 1}
      BY <1>1
    <3> QED
      BY <1>1, <2>3, <2>4, <2>5, <3>1, <3>2 DEF Granted
  <2>7. \A r \in DOMAIN request' : Aimed(request'[r])
    <3> SUFFICES ASSUME NEW r \in 1 .. Len(request) + 1
                 PROVE  Aimed(request'[r])
      BY <2>5
    <3>1. r \in 1 .. Len(request) \/ r = Len(request) + 1
      BY <1>1
    <3>2. \A s \in 1 .. Len(request) : Aimed(request[s])
      BY <1>1 DEF EditingTypes
    <3> QED
      BY <2>3, <2>4, <3>1, <3>2
  <2>8. Len(request') <= MaxRequests
    BY <1>1, <2>2, <2>4
  <2>9. (\A r \in DOMAIN request : Aimed(request[r]))'
    BY <2>7 DEF Aimed
  <2>10. (form.version <= Cardinality(Granted))'
    BY <2>2, <2>6 DEF EditingTypes
  <2>11. CopiesTyped'
    BY <1>3, <2>2, CopiesTypedNext DEF EditingTypes
  <2> QED
    BY <2>2, <2>4, <2>8, <2>9, <2>10, <2>11 DEF EditingTypes
<1>4. ASSUME NEW r \in DOMAIN request, ReadAgain(r), CopiesGrow
      PROVE  EditingTypes'
  <2>1. PICK q : FreshlyRead(q) /\ request' = [request EXCEPT ![r] = q]
    BY <1>4, ReadAgainEffects
  <2>2. request[r].pc = "readAgain" /\ UNCHANGED <<form, unseen>>
    BY <1>4, ReadAgainEffects
  <2>3. q \in Edit /\ Aimed(q) /\ q.pc # "ok"
    BY <2>1 DEF FreshlyRead
  <2>4. request' \in Seq(Edit) /\ Len(request') = Len(request)
    BY <2>1, <2>3, ExceptSeq DEF EditingTypes
  <2>5. /\ DOMAIN request' = DOMAIN request /\ request'[r] = q
        /\ \A s \in DOMAIN request : s # r => request'[s] = request[s]
    BY <2>1
  <2>6. Granted' = Granted
    <3>1. Granted' = {s \in DOMAIN request' : request'[s].pc = "ok"}
      BY DEF Granted
    <3> QED
      BY <2>2, <2>3, <2>5, <3>1 DEF Granted
  <2>7. \A s \in DOMAIN request' : Aimed(request'[s])
    BY <2>3, <2>5 DEF EditingTypes
  <2>8. (\A s \in DOMAIN request : Aimed(request[s]))'
    BY <2>7 DEF Aimed
  <2>9. (form.version <= Cardinality(Granted))'
    BY <2>2, <2>6 DEF EditingTypes
  <2>10. CopiesTyped'
    BY <1>4, <2>2, CopiesTypedNext DEF EditingTypes
  <2> QED
    BY <2>2, <2>4, <2>8, <2>9, <2>10 DEF EditingTypes
<1>5. ASSUME NEW r \in DOMAIN request, Save(r), CopiesGrow
      PROVE  EditingTypes'
  <2>1. request[r].pc = "save" /\ Effect(r)
    BY <1>5, SaveEffects
  <2>2. form' \in Document /\ unseen' \in Changes
    BY <2>1, EffectTypes
  <2>3. PICK c \in {"ok", "refused"} :
           /\ Answer(r, c)
           /\ \/ form'.version = form.version
              \/ c = "ok" /\ form'.version = form.version + 1
    BY <2>1, EffectTypes
  <2>4. /\ request' \in Seq(Edit) /\ Len(request') = Len(request)
        /\ DOMAIN request' = DOMAIN request
        /\ request'[r] = [request[r] EXCEPT !.pc = c]
        /\ request[r] \in Edit
        /\ \A q \in DOMAIN request : q # r => request'[q] = request[q]
    BY <2>3, Answered DEF EditingTypes, Outcome
  <2>5. request'[r].pc = c
    BY <2>4 DEF Edit
  <2>6. Granted' = IF c = "ok" THEN Granted \cup {r} ELSE Granted
    <3>1. Granted' = {s \in DOMAIN request' : request'[s].pc = "ok"}
      BY DEF Granted
    <3> QED
      BY <2>1, <2>3, <2>4, <2>5, <3>1 DEF Granted
  <2>7. r \notin Granted
    BY <2>1 DEF Granted
  <2>8. form'.version <= Cardinality(Granted')
    <3>1. Cardinality(Granted \cup {r}) = Cardinality(Granted) + 1
      BY <1>2, <2>7, FS_AddElement
    <3>2. form.version <= Cardinality(Granted)
      BY DEF EditingTypes
    <3>3. form'.version \in Nat
      BY <2>2 DEF Document
    <3>4. PICK v \in Nat : v = form.version
      BY <1>1
    <3>5. PICK w \in Nat : w = form'.version
      BY <3>3
    <3>6. PICK n \in Nat : n = Cardinality(Granted)
      BY <1>2
    <3>7. CASE c = "ok"
      <4>1. Cardinality(Granted') = n + 1
        BY <2>6, <3>1, <3>6, <3>7
      <4>2. w = v \/ w = v + 1
        BY <2>3, <3>4, <3>5
      <4>3. v <= n
        BY <3>2, <3>4, <3>6
      <4>4. w <= n + 1
        BY <4>2, <4>3
      <4> QED
        BY <3>5, <4>1, <4>4
    <3>8. CASE c # "ok"
      BY <2>3, <2>6, <3>2, <3>8
    <3> QED
      BY <3>7, <3>8
  <2>9. \A s \in DOMAIN request' : Aimed(request'[s])
    <3>1. Aimed(request[r]) /\ \A s \in DOMAIN request : Aimed(request[s])
      BY DEF EditingTypes
    <3>2. /\ request'[r].op = request[r].op
          /\ request'[r].place = request[r].place
          /\ request'[r].target = request[r].target
          /\ request'[r].pc # "save" /\ request'[r].pc # "readAgain"
      BY <2>4, <2>5 DEF Edit
    <3>3. Aimed(request'[r])
      BY <3>1, <3>2 DEF Aimed
    <3> QED
      BY <2>4, <3>1, <3>3
  <2>10. (\A s \in DOMAIN request : Aimed(request[s]))'
    BY <2>9 DEF Aimed
  <2>11. Len(request') <= MaxRequests
    BY <2>4 DEF EditingTypes
  <2>12. CopiesTyped'
    BY <1>5, <2>2, CopiesTypedNext DEF EditingTypes
  <2> QED
    BY <2>2, <2>4, <2>8, <2>10, <2>11, <2>12 DEF EditingTypes
<1>6. CASE UNCHANGED editingVars
  BY <1>6 DEF editingVars, EditingTypes, Granted, Aimed, CopiesTyped, Copy
<1> QED
  BY <1>3, <1>4, <1>5, <1>6 DEF Next, CopiesGrow

\* The types imply the type invariant.
LEMMA EditingTypesImply ==
    EditingTypes => TypeOK
<1> SUFFICES ASSUME EditingTypes PROVE TypeOK
  OBVIOUS
<1>1. form.version <= MaxRequests
  <2>1. /\ Cardinality(Granted) \in Nat /\ Cardinality(Granted) <= Len(request)
        /\ Len(request) \in Nat
    BY GrantedFinite, LenProperties DEF EditingTypes
  <2>2. form.version \in Nat /\ MaxRequests \in Nat
    BY EditingAssumption DEF EditingTypes, Document, EditingAssumption
  <2>3. form.version <= Cardinality(Granted) /\ Len(request) <= MaxRequests
    BY DEF EditingTypes
  <2> QED
    BY <2>1, <2>2, <2>3
<1>2. \A r \in DOMAIN request : request[r] \in Edit
  BY ElementOfSeq, LenProperties DEF EditingTypes
<1>3. ASSUME NEW r \in DOMAIN request
      PROVE  /\ request[r].op \in FieldOp \cup LogicOp \cup StatusOp
             /\ request[r].pc \in {"readAgain", "save", "ok", "refused",
                                   "notFound"}
             /\ request[r].target \in ElementId
             /\ request[r].read \in Document
             /\ request[r].seen \in Changes
  BY <1>2 DEF Edit, Outcome
<1> QED
  BY <1>1, <1>3 DEF EditingTypes, CopiesTyped, TypeOK

\* Every reachable state is well typed, and the version is counted up at most
\* once for each request, for any requests, fields and logics.
THEOREM EditingTypeCorrect ==
    Spec => []TypeOK
<1>1. Init => EditingTypes
  BY EditingTypesInit
<1>2. EditingTypes /\ [Next]_editingVars => EditingTypes'
  BY EditingTypesNext
<1>3. EditingTypes => TypeOK
  BY EditingTypesImply
<1> QED
  BY <1>1, <1>2, <1>3, PTL DEF Spec

-----------------------------------------------------------------------------
(* What the version and the history tell of the changes between two states. *)

\* The same ids are at the same positions.
SameIds(s, t) ==
    DOMAIN s = DOMAIN t /\ \A i \in DOMAIN s : s[i].id = t[i].id

\* The document g, with the history w, comes after f with u. As long as the
\* version has stayed, no field has been added, and an array that is not in the
\* history is as it was.
Follows(f, u, g, w) ==
    /\ f.version <= g.version
    /\ \A a \in Array : /\ u[a].position <= w[a].position
                        /\ u[a].content <= w[a].content
    /\ f.version = g.version =>
          /\ Ids(g["form_fields"]) \ {NoId} \subseteq Ids(f["form_fields"])
          /\ \A a \in Array : u[a].position = w[a].position =>
                /\ SameIds(g[a], f[a])
                /\ u[a].content = w[a].content => g[a] = f[a]

\* The parts of a document and of a history of changes that the proofs use.
LEMMA DocumentTypes ==
    ASSUME NEW f \in Document, NEW u \in Changes
    PROVE  /\ f.version \in Nat
           /\ \A a \in Array : /\ f[a] \in Seq(Element)
                               /\ u[a].position \in Nat
                               /\ u[a].content \in Nat
           /\ f["form_fields"] = f.form_fields
           /\ f["form_logics"] = f.form_logics
BY DEF Document, Changes, Array

\* Follows is reflexive.
LEMMA FollowsItself ==
    ASSUME NEW f \in Document, NEW u \in Changes
    PROVE  Follows(f, u, f, u)
BY DocumentTypes DEF Follows, SameIds

\* Follows is transitive: what a save leaves alone, two leave alone.
LEMMA FollowsFurther ==
    ASSUME NEW f \in Document, NEW u \in Changes,
           NEW g \in Document, NEW v \in Changes,
           NEW h \in Document, NEW w \in Changes,
           Follows(f, u, g, v), Follows(g, v, h, w)
    PROVE  Follows(f, u, h, w)
<1>1. /\ f.version \in Nat /\ g.version \in Nat /\ h.version \in Nat
      /\ f.version <= g.version /\ g.version <= h.version
  BY DocumentTypes DEF Follows
<1>2. ASSUME NEW a \in Array
      PROVE  /\ u[a].position \in Nat /\ u[a].content \in Nat
             /\ v[a].position \in Nat /\ v[a].content \in Nat
             /\ w[a].position \in Nat /\ w[a].content \in Nat
             /\ u[a].position <= v[a].position
             /\ v[a].position <= w[a].position
             /\ u[a].content <= v[a].content /\ v[a].content <= w[a].content
  BY DocumentTypes DEF Follows
<1>3. ASSUME NEW a \in Array
      PROVE  /\ u[a].position <= w[a].position
             /\ u[a].content <= w[a].content
             /\ u[a].position = w[a].position
                  => u[a].position = v[a].position /\ v[a].position = w[a].position
             /\ u[a].content = w[a].content
                  => u[a].content = v[a].content /\ v[a].content = w[a].content
  BY <1>2
<1>4. ASSUME f.version = h.version
      PROVE  /\ Ids(h["form_fields"]) \ {NoId} \subseteq Ids(f["form_fields"])
             /\ \A a \in Array : u[a].position = w[a].position =>
                   /\ SameIds(h[a], f[a])
                   /\ u[a].content = w[a].content => h[a] = f[a]
  <2>1. f.version = g.version /\ g.version = h.version
    BY <1>1, <1>4
  <2>2. /\ Ids(g["form_fields"]) \ {NoId} \subseteq Ids(f["form_fields"])
        /\ Ids(h["form_fields"]) \ {NoId} \subseteq Ids(g["form_fields"])
    BY <2>1 DEF Follows
  <2>3. ASSUME NEW a \in Array, u[a].position = w[a].position
        PROVE  /\ SameIds(h[a], f[a])
               /\ u[a].content = w[a].content => h[a] = f[a]
    <3>1. SameIds(g[a], f[a]) /\ SameIds(h[a], g[a])
      BY <1>3, <2>1, <2>3 DEF Follows
    <3>2. u[a].content = w[a].content => g[a] = f[a] /\ h[a] = g[a]
      BY <1>3, <2>1, <2>3 DEF Follows
    <3> QED
      BY <3>1, <3>2 DEF SameIds
  <2> QED
    BY <2>2, <2>3
<1> QED
  BY <1>1, <1>3, <1>4 DEF Follows

\* What a save makes of the form follows it.
LEMMA EffectFollows ==
    ASSUME EditingTypes, NEW r \in DOMAIN request, Effect(r)
    PROVE  Follows(form, unseen, form', unseen')
<1> DEFINE q == request[r]
           a == ArrayOf(q.op)
<1>1. q \in Edit /\ form \in Document /\ unseen \in Changes
  BY ElementOfSeq, LenProperties DEF EditingTypes
<1>2. /\ a \in Array /\ form[a] \in Seq(Element)
      /\ q.read[a] \in Seq(Element) /\ form.version \in Nat
      /\ form.version + 1 \in Nat
  BY <1>1 DEF ArrayOf, Array, Edit, Document
<1>3. /\ NewElement(r) \in Element /\ Nothing \in Element
  BY NewElements
<1>4. Follows(form, unseen, form, unseen)
  BY <1>1, FollowsItself
<1>5. \A b \in Array : unseen[b].position \in Nat /\ unseen[b].content \in Nat
  BY <1>1, DocumentTypes
<1>6. ASSUME form'.version = form.version + 1, UNCHANGED unseen
      PROVE  Follows(form, unseen, form', unseen')
  <2>1. form.version <= form'.version /\ form.version # form'.version
    BY <1>2, <1>6
  <2>2. \A b \in Array : /\ unseen[b].position <= unseen'[b].position
                         /\ unseen[b].content <= unseen'[b].content
    BY <1>5, <1>6
  <2> QED
    BY <2>1, <2>2 DEF Follows
<1>7. CASE LeavesForm(r)
  BY <1>4, <1>7 DEF LeavesForm
<1>8. CASE ReplacesFields(r)
  <2>1. PICK s \in Seq(Element) :
           form' = [form EXCEPT !["form_fields"] = s,
                                !.version = form.version + 1]
    BY <1>8 DEF ReplacesFields
  <2>2. "form_fields" \in Array
    BY DEF Array
  <2>3. Replaced(form, form', "form_fields", s, form.version + 1)
    BY <1>1, <1>2, <2>1, <2>2, ArrayAndVersion, Zenon
  <2> QED
    BY <1>6, <1>8, <2>3 DEF ReplacesFields, Replaced
<1>9. CASE Pushes(r)
  <2>1. PICK s \in Seq(Element) : s = Append(form[a], NewElement(r))
    BY <1>2, <1>3, PushedElements
  <2>2. form' = [form EXCEPT ![a] = s, !.version = form.version + 1]
    BY <1>9, <2>1 DEF Pushes
  <2> HIDE DEF a
  <2>3. Replaced(form, form', a, s, form.version + 1)
    BY <1>1, <1>2, <2>2, ArrayAndVersion, Zenon
  <2> QED
    BY <1>6, <1>9, <2>3 DEF Pushes, Replaced
<1>10. CASE WritesElement(r)
  <2>1. PICK i \in Nat : i = IndexOf(q.read[a], q.target)
    <3>1. IndexOf(q.read[a], q.target) \in 0 .. Len(q.read[a])
      BY <1>2, IndexFound
    <3> QED
      BY <3>1
  <2>2. PICK e \in Element, up \in {0, 1} :
           /\ form' = [form EXCEPT ![a] = WrittenAt(form[a], i, e),
                                   !.version = form.version + up]
           /\ q.op = "updateFormField"
                => e.id = IF i \in DOMAIN form[a] THEN form[a][i].id ELSE NoId
           /\ unseen' = IF up = 1 THEN unseen ELSE [unseen EXCEPT
                 ![a].content = @ + 1,
                 ![a].position = IF Holds(a, i, e.id) THEN @ ELSE @ + 1]
    BY <1>10, <2>1 DEF WritesElement
  <2>3. q.op = "updateFormField" <=> a = "form_fields"
    BY <1>10 DEF WritesElement, ArrayOf, LogicOp
  <2> HIDE DEF a
  <2>4. PICK s \in Seq(Element) : s = WrittenAt(form[a], i, e)
    BY <1>2, <1>3, WrittenElements
  <2>5. /\ DOMAIN form[a] \subseteq DOMAIN s
        /\ \A j \in DOMAIN form[a] : j # i => s[j] = form[a][j]
        /\ i \in DOMAIN form[a] => DOMAIN s = DOMAIN form[a] /\ s[i] = e
        /\ Ids(s) \subseteq Ids(form[a]) \cup {e.id, NoId}
    <3>1. Overwritten(form[a], i, e, s)
      BY <1>2, <1>3, <2>4, WrittenElements
    <3> QED
      BY <3>1 DEF Overwritten
  <2>12. PICK v \in Nat : v = form.version + up
    BY <1>2
  <2>13. form' = [form EXCEPT ![a] = s, !.version = v]
    BY <2>2, <2>4, <2>12
  <2>6. Replaced(form, form', a, s, v)
    BY <1>1, <1>2, <2>13, ArrayAndVersion, Zenon
  <2>14. form'.version = form.version + up
    BY <2>6, <2>12 DEF Replaced
  <2>15. CASE up = 1
    BY <1>6, <2>2, <2>14, <2>15
  <2>16. CASE up = 0
    <3>1. unseen' = [unseen EXCEPT
             ![a].content = @ + 1,
             ![a].position = IF Holds(a, i, e.id) THEN @ ELSE @ + 1]
      <4>1. up # 1
        BY <2>16
      <4> QED
        BY <2>2, <4>1
    <3>7. /\ unseen'[a].content = unseen[a].content + 1
          /\ unseen'[a].position = IF Holds(a, i, e.id) THEN unseen[a].position
                                   ELSE unseen[a].position + 1
          /\ \A b \in Array \ {a} : unseen'[b] = unseen[b]
      BY <1>1, <1>2, <3>1 DEF Changes
    <3>8. Ids(form'["form_fields"]) \ {NoId} \subseteq Ids(form["form_fields"])
      <4>1. CASE a = "form_fields"
        <5>1. e.id = NoId \/ e.id \in Ids(form[a])
          BY <2>2, <2>3, <4>1 DEF Ids
        <5>2. form'["form_fields"] = s
          BY <2>6, <4>1 DEF Replaced
        <5> QED
          BY <2>5, <4>1, <5>1, <5>2
      <4>2. CASE a # "form_fields"
        <5>1. form'["form_fields"] = form["form_fields"]
          BY <2>6, <4>2 DEF Replaced, Array
        <5> QED
          BY <5>1
      <4> QED
        BY <4>1, <4>2
    <3>9. ASSUME NEW b \in Array
          PROVE  /\ unseen[b].position <= unseen'[b].position
                 /\ unseen[b].content <= unseen'[b].content
                 /\ unseen[b].position = unseen'[b].position =>
                       /\ SameIds(form'[b], form[b])
                       /\ unseen[b].content = unseen'[b].content
                            => form'[b] = form[b]
      <4>1. CASE b # a
        <5>1. form'[b] = form[b] /\ unseen'[b] = unseen[b]
          BY <2>6, <3>7, <4>1 DEF Replaced
        <5>2. SameIds(form'[b], form[b])
          BY <5>1 DEF SameIds
        <5> QED
          BY <1>5, <5>1, <5>2
      <4>2. CASE b = a
        <5>1. unseen[a].content <= unseen'[a].content
              /\ unseen[a].content # unseen'[a].content
          BY <1>2, <1>5, <3>7
        <5>2. /\ unseen[a].position <= unseen'[a].position
              /\ unseen[a].position = unseen'[a].position => Holds(a, i, e.id)
          BY <1>2, <1>5, <3>7
        <5>3. Holds(a, i, e.id) => SameIds(form'[a], form[a])
          <6>1. form'[a] = s
            BY <2>6 DEF Replaced
          <6> QED
            BY <2>5, <6>1 DEF SameIds, Holds
        <5> QED
          BY <4>2, <5>1, <5>2, <5>3
      <4> QED
        BY <4>1, <4>2
    <3>10. form'.version = form.version
      BY <1>2, <2>14, <2>16
    <3> QED
      BY <1>2, <3>8, <3>9, <3>10 DEF Follows
  <2> QED
    BY <2>15, <2>16
<1>11. CASE Pulls(r)
  <2>1. PICK s \in Seq(Element) : s = Without(form[a], q.target)
    BY <1>2, WithoutElements
  <2>2. Entries(s) \subseteq Entries(form[a])
    BY <1>2, <2>1, WithoutElements
  <2>3. /\ form' = [form EXCEPT ![a] = s]
        /\ unseen' = [unseen EXCEPT ![a].position = @ + 1]
    BY <1>11, <2>1 DEF Pulls
  <2> HIDE DEF a
  <2>4. Replaced(form, form', a, s, form.version)
    BY <1>1, <1>2, <2>3, ArrayOnly, Zenon
  <2>5. /\ unseen'[a].content = unseen[a].content
        /\ unseen'[a].position = unseen[a].position + 1
        /\ \A b \in Array \ {a} : unseen'[b] = unseen[b]
    BY <1>1, <1>2, <2>3 DEF Changes
  <2>6. Ids(form'["form_fields"]) \subseteq Ids(form["form_fields"])
    <3>1. CASE a = "form_fields"
      <4>1. form'["form_fields"] = s
        BY <2>4, <3>1 DEF Replaced
      <4> QED
        BY <2>2, <3>1, <4>1, IdsOfEntries
    <3>2. CASE a # "form_fields"
      <4>1. form'["form_fields"] = form["form_fields"]
        BY <2>4, <3>2 DEF Replaced, Array
      <4> QED
        BY <4>1
    <3> QED
      BY <3>1, <3>2
  <2>7. ASSUME NEW b \in Array
        PROVE  /\ unseen[b].position <= unseen'[b].position
               /\ unseen[b].content <= unseen'[b].content
               /\ unseen[b].position = unseen'[b].position =>
                     /\ SameIds(form'[b], form[b])
                     /\ unseen[b].content = unseen'[b].content
                          => form'[b] = form[b]
    <3>1. CASE b # a
      <4>1. form'[b] = form[b] /\ unseen'[b] = unseen[b]
        BY <2>4, <2>5, <3>1 DEF Replaced
      <4>2. SameIds(form'[b], form[b])
        BY <4>1 DEF SameIds
      <4> QED
        BY <1>5, <4>1, <4>2
    <3>2. CASE b = a
      <4>1. unseen[b].position \in Nat /\ unseen[b].content \in Nat
        BY <1>5
      <4> QED
        BY <2>5, <3>2, <4>1
    <3> QED
      BY <3>1, <3>2
  <2>8. form'.version = form.version
    BY <2>4 DEF Replaced
  <2> QED
    BY <1>2, <2>6, <2>7, <2>8 DEF Follows
<1>12. CASE SetsStatus(r)
  <2>1. PICK newStatus \in Status : form' = [form EXCEPT !.status = newStatus]
    BY <1>12 DEF SetsStatus
  <2>2. /\ form'.version = form.version
        /\ \A b \in Array : form'[b] = form[b]
    BY <1>1, <2>1 DEF Document, Array
  <2>3. UNCHANGED unseen /\ "form_fields" \in Array
    BY <1>12 DEF SetsStatus, Array
  <2> QED
    BY <1>4, <2>2, <2>3 DEF Follows
<1> QED
  BY <1>7, <1>8, <1>9, <1>10, <1>11, <1>12 DEF Effect

-----------------------------------------------------------------------------
(* What is saved, and what stays.                                           *)

\* The form follows what a request has read, or a node may return.
Followed(q) == Follows(q.read, q.seen, form, unseen)

EditingInv ==
    /\ EditingTypes
    /\ \A r \in DOMAIN request : Followed(request[r])
    /\ \A copy \in copies : Followed(copy)
    /\ FieldsStay

\* The elements of an array are its entries with their places.
LEMMA ElementsAreEntries ==
    \A array : Elements(array) = Entries(form[array])
BY DEF Elements, Entries

\* The same after a step.
LEMMA ElementsAreEntriesNext ==
    \A array : Elements(array)' = Entries(form'[array])
BY DEF Elements, Entries

\* An array of which all elements but one are kept where they were, and that
\* one its id, has lost or gained no other.
LEMMA OverwrittenKeeps ==
    ASSUME NEW s, NEW i \in DOMAIN s, NEW e, NEW t, Overwritten(s, i, e, t),
           s[i].id = e.id
    PROVE  /\ {x \in Entries(s) : x.id # e.id} \subseteq Entries(t)
           /\ Ids(t) = Ids(s)
<1>1. DOMAIN t = DOMAIN s /\ t[i] = e /\ \A j \in DOMAIN s : j # i => t[j] = s[j]
  BY DEF Overwritten
<1>2. \A j \in DOMAIN s : t[j].id = s[j].id
  BY <1>1
<1>3. Ids(t) = Ids(s)
  BY <1>1, <1>2 DEF Ids
<1>4. ASSUME NEW j \in DOMAIN s, s[j].id # e.id
      PROVE  s[j] \in Entries(t)
  <2>1. t[j] = s[j]
    BY <1>1, <1>4
  <2> QED
    BY <1>1, <2>1 DEF Entries
<1>5. {x \in Entries(s) : x.id # e.id} \subseteq Entries(t)
  BY <1>4 DEF Entries
<1> QED
  BY <1>3, <1>5

\* A request that is not misled saves what it says.
LEMMA SavedOnlyTarget ==
    ASSUME EditingTypes, NEW r \in DOMAIN request, Followed(request[r]),
           request[r].pc = "save", Effect(r), ~ Misled(r)
    PROVE  OnlyTarget(r)
<1> DEFINE q == request[r]
           a == ArrayOf(q.op)
           OnlyIn(b) == /\ {e \in Entries(form[b]) : e.id # q.target}
                            \subseteq Entries(form'[b])
                      /\ Ids(form'[b]) \subseteq Ids(form[b]) \cup {r}
<1>1. /\ q \in Edit /\ form \in Document /\ unseen \in Changes
      /\ q.read \in Document /\ q.seen \in Changes
  <2>1. q \in Edit /\ form \in Document /\ unseen \in Changes
    BY ElementOfSeq, LenProperties DEF EditingTypes
  <2> QED
    BY <2>1 DEF Edit
<1>2. /\ a \in Array /\ form[a] \in Seq(Element)
      /\ q.read[a] \in Seq(Element) /\ form.version \in Nat
      /\ form.version + 1 \in Nat
  BY <1>1 DEF ArrayOf, Array, Edit, Document
<1>3. /\ NewElement(r) \in Element /\ Nothing \in Element
      /\ NewElement(r).id = r
  BY NewElements DEF NewElement
<1>4. ASSUME \A b \in Array : OnlyIn(b)
      PROVE  OnlyTarget(r)
  BY <1>4, ElementsAreEntries, ElementsAreEntriesNext DEF OnlyTarget
<1>5. ASSUME NEW b \in Array, form'[b] = form[b]
      PROVE  OnlyIn(b)
  BY <1>5
<1>6. ASSUME NEW b \in Array,
             Entries(form'[b]) = Entries(form[b])
               \/ Entries(form'[b]) = Entries(form[b]) \cup {NewElement(r)}
      PROVE  OnlyIn(b)
  <2>1. Ids(form'[b]) \subseteq Ids(form[b]) \cup {r}
    BY <1>3, <1>6, IdsOfEntries
  <2> QED
    BY <1>6, <2>1
<1>7. CASE LeavesForm(r)
  BY <1>4, <1>5, <1>7 DEF LeavesForm
<1>8. CASE ReplacesFields(r)
  <2>1. PICK s \in Seq(Element) :
           /\ form' = [form EXCEPT !["form_fields"] = s,
                                   !.version = form.version + 1]
           /\ Entries(s) = Entries(q.read.form_fields) \cup
                             (IF q.op = "reorderFormField" THEN {}
                              ELSE {NewElement(r)})
    BY <1>8 DEF ReplacesFields
  <2>2. "form_fields" \in Array /\ a = "form_fields"
    BY <1>8 DEF Array, ArrayOf, LogicOp, ReplacesFields
  <2>3. Replaced(form, form', "form_fields", s, form.version + 1)
    BY <1>1, <1>2, <2>1, <2>2, ArrayAndVersion, Zenon
  <2>4. /\ q.seen["form_fields"].position = unseen["form_fields"].position
        /\ q.seen["form_fields"].content = unseen["form_fields"].content
    BY <1>8, <2>2 DEF Misled, ReplacesFields
  <2>5. form["form_fields"] = q.read["form_fields"]
    BY <1>8, <2>2, <2>4 DEF Followed, Follows, ReplacesFields, SameVersion
  <2>6. q.read["form_fields"] = q.read.form_fields
    BY <1>1, DocumentTypes
  <2>7. /\ form'["form_fields"] = s
        /\ \A b \in Array : b # "form_fields" => form'[b] = form[b]
    BY <2>3 DEF Replaced
  <2>8. OnlyIn("form_fields")
    <3>1. Entries(form'["form_fields"]) = Entries(form["form_fields"])
            \/ Entries(form'["form_fields"])
                 = Entries(form["form_fields"]) \cup {NewElement(r)}
      BY <2>1, <2>5, <2>6, <2>7
    <3> HIDE DEF OnlyIn
    <3> QED
      BY <1>6, <2>2, <3>1
  <2> HIDE DEF OnlyIn
  <2> QED
    BY <1>4, <1>5, <2>7, <2>8
<1>9. CASE Pushes(r)
  <2>1. PICK s \in Seq(Element) : s = Append(form[a], NewElement(r))
    BY <1>2, <1>3, PushedElements
  <2>2. Entries(s) = Entries(form[a]) \cup {NewElement(r)}
    BY <1>2, <1>3, <2>1, PushedElements
  <2>3. form' = [form EXCEPT ![a] = s, !.version = form.version + 1]
    BY <1>9, <2>1 DEF Pushes
  <2> HIDE DEF a
  <2>4. Replaced(form, form', a, s, form.version + 1)
    BY <1>1, <1>2, <2>3, ArrayAndVersion, Zenon
  <2>5. form'[a] = s /\ \A b \in Array : b # a => form'[b] = form[b]
    BY <2>4 DEF Replaced
  <2> HIDE DEF OnlyIn
  <2>6. OnlyIn(a)
    BY <1>2, <1>6, <2>2, <2>5
  <2> QED
    BY <1>4, <1>5, <2>5, <2>6
<1>10. CASE WritesElement(r)
  <2>1. q.op \in Targeting /\ Aimed(q)
    BY <1>10 DEF WritesElement, Targeting, EditingTypes
  <2>2. q.target \in Ids(q.read[a])
    BY <2>1 DEF Aimed
  <2>3. PICK i : i = IndexOf(q.read[a], q.target)
    OBVIOUS
  <2>4. i \in DOMAIN q.read[a] /\ q.read[a][i].id = q.target
    BY <1>2, <2>2, <2>3, IndexFound, LenProperties
  <2>5. i \in Nat
    <3>1. i \in 1 .. Len(q.read[a])
      BY <1>2, <2>2, <2>3, IndexFound
    <3> QED
      BY <3>1
  <2>6. SameVersion(r) /\ q.seen[a].position = unseen[a].position
    BY <1>10 DEF WritesElement, Misled
  <2>7. SameIds(form[a], q.read[a])
    BY <1>2, <2>6 DEF Followed, Follows, SameVersion
  <2>8. i \in DOMAIN form[a] /\ form[a][i].id = q.target
    BY <2>4, <2>7 DEF SameIds
  <2>9. PICK e \in Element, up \in {0, 1} :
           /\ form' = [form EXCEPT ![a] = WrittenAt(form[a], i, e),
                                   !.version = form.version + up]
           /\ e.id = q.target
    BY <1>10, <2>3, <2>8 DEF WritesElement
  <2> HIDE DEF a
  <2>10. PICK s \in Seq(Element) : s = WrittenAt(form[a], i, e)
    BY <1>2, <1>3, <2>5, WrittenElements
  <2>11. Overwritten(form[a], i, e, s)
    BY <1>2, <1>3, <2>5, <2>10, WrittenElements
  <2>16. PICK v \in Nat : v = form.version + up
    BY <1>2
  <2>17. form' = [form EXCEPT ![a] = s, !.version = v]
    BY <2>9, <2>10, <2>16
  <2>12. Replaced(form, form', a, s, v)
    BY <1>1, <1>2, <2>17, ArrayAndVersion, Zenon
  <2>13. form'[a] = s /\ \A b \in Array : b # a => form'[b] = form[b]
    BY <2>12 DEF Replaced
  <2>14. /\ {x \in Entries(form[a]) : x.id # e.id} \subseteq Entries(s)
         /\ Ids(s) = Ids(form[a])
    BY <2>8, <2>9, <2>11, OverwrittenKeeps
  <2>15. OnlyIn(a)
    BY <2>9, <2>13, <2>14
  <2> HIDE DEF OnlyIn
  <2> QED
    BY <1>4, <1>5, <2>13, <2>15
<1>11. CASE Pulls(r)
  <2>1. PICK s \in Seq(Element) : s = Without(form[a], q.target)
    BY <1>2, WithoutElements
  <2>2. Entries(s) = {e \in Entries(form[a]) : e.id # q.target}
    BY <1>2, <2>1, WithoutElements
  <2>3. form' = [form EXCEPT ![a] = s]
    BY <1>11, <2>1 DEF Pulls
  <2> HIDE DEF a
  <2>4. Replaced(form, form', a, s, form.version)
    BY <1>1, <1>2, <2>3, ArrayOnly, Zenon
  <2>5. form'[a] = s /\ \A b \in Array : b # a => form'[b] = form[b]
    BY <2>4 DEF Replaced
  <2>6. Ids(s) \subseteq Ids(form[a])
    <3>1. Ids(s) = {e.id : e \in Entries(s)}
      BY IdsOfEntries
    <3>2. Ids(form[a]) = {e.id : e \in Entries(form[a])}
      BY IdsOfEntries
    <3> QED
      BY <2>2, <3>1, <3>2
  <2>7. OnlyIn(a)
    BY <2>2, <2>5, <2>6
  <2> HIDE DEF OnlyIn
  <2> QED
    BY <1>4, <1>5, <2>5, <2>7
<1>12. CASE SetsStatus(r)
  <2>1. PICK newStatus \in Status : form' = [form EXCEPT !.status = newStatus]
    BY <1>12 DEF SetsStatus
  <2>2. \A b \in Array : form'[b] = form[b]
    BY <1>1, <2>1 DEF Document, Array
  <2> HIDE DEF OnlyIn
  <2> QED
    BY <1>4, <1>5, <2>2
<1> QED
  BY <1>7, <1>8, <1>9, <1>10, <1>11, <1>12 DEF Effect

\* The fields that requests have created, and those they have deleted.
CreatedFields ==
    {r \in DOMAIN request :
        /\ request[r].op \in {"insertFormField", "duplicateFormField"}
        /\ request[r].pc = "ok"}

DeletedFields ==
    {request[r].target : r \in {q \in DOMAIN request :
        request[q].op = "deleteFormField" /\ request[q].pc = "ok"}}

FirstFields == Ids(FirstElements(Fields))

\* FieldsStay without its abbreviations, so that it can be primed.
LEMMA FieldsStayIs ==
    FieldsStay <=> FirstFields \cup CreatedFields
                      \subseteq Ids(form.form_fields) \cup DeletedFields
BY DEF FieldsStay, FirstFields, CreatedFields, DeletedFields

\* A field has an id.
LEMMA FieldsHaveIds ==
    ASSUME EditingTypes
    PROVE  NoId \notin FirstFields /\ NoId \notin CreatedFields
<1>1. NoId \notin CreatedFields
  <2>1. DOMAIN request = 1 .. Len(request) /\ Len(request) \in Nat
    BY LenProperties DEF EditingTypes
  <2> QED
    BY <2>1 DEF CreatedFields, NoId
<1>2. NoId \notin FirstFields
  BY EditingAssumption
     DEF FirstFields, Ids, FirstElements, NoId, EditingAssumption
<1> QED
  BY <1>1, <1>2

\* No save removes a field but a deletion, and one that creates a field has it
\* in the form.
LEMMA SavedFields ==
    ASSUME EditingTypes, NEW r \in DOMAIN request, Followed(request[r]),
           request[r].pc = "save", Effect(r)
    PROVE  /\ Ids(form["form_fields"]) \ {NoId}
                \subseteq Ids(form'["form_fields"]) \cup
                   (IF request[r].op = "deleteFormField" /\ request'[r].pc = "ok"
                    THEN {request[r].target} ELSE {})
           /\ request[r].op \in {"insertFormField", "duplicateFormField"}
                /\ request'[r].pc = "ok" => r \in Ids(form'["form_fields"])
<1> DEFINE q == request[r]
           a == ArrayOf(q.op)
           old == Ids(form["form_fields"])
           new == Ids(form'["form_fields"])
           creates == q.op \in {"insertFormField", "duplicateFormField"}
<1>1. /\ q \in Edit /\ form \in Document /\ unseen \in Changes
      /\ q.read \in Document /\ q.seen \in Changes
  <2>1. q \in Edit /\ form \in Document /\ unseen \in Changes
    BY ElementOfSeq, LenProperties DEF EditingTypes
  <2> QED
    BY <2>1 DEF Edit
<1>2. /\ a \in Array /\ form[a] \in Seq(Element)
      /\ q.read[a] \in Seq(Element) /\ form.version \in Nat
      /\ form.version + 1 \in Nat
  BY <1>1 DEF ArrayOf, Array, Edit, Document
<1>3. /\ NewElement(r) \in Element /\ Nothing \in Element
      /\ NewElement(r).id = r
  BY NewElements DEF NewElement
<1>4. \A c \in {"ok", "refused"} : Answer(r, c) => request'[r].pc = c
  <2> TAKE c \in {"ok", "refused"}
  <2> HAVE Answer(r, c)
  <2>1. request'[r] = [q EXCEPT !.pc = c]
    BY Answered DEF EditingTypes, Outcome
  <2> QED
    BY <1>1, <2>1 DEF Edit
<1>5. CASE LeavesForm(r)
  <2>1. PICK c \in {"ok", "refused"} :
           Answer(r, c) /\ (c = "ok" => q.op = "reorderFormField")
    BY <1>5 DEF LeavesForm
  <2>2. request'[r].pc = "ok" => q.op = "reorderFormField"
    BY <1>4, <2>1
  <2>3. new = old
    BY <1>5 DEF LeavesForm
  <2> QED
    BY <2>2, <2>3
<1>6. CASE ReplacesFields(r)
  <2>1. PICK s \in Seq(Element) :
           /\ form' = [form EXCEPT !["form_fields"] = s,
                                   !.version = form.version + 1]
           /\ Entries(s) = Entries(q.read.form_fields) \cup
                             (IF q.op = "reorderFormField" THEN {}
                              ELSE {NewElement(r)})
    BY <1>6 DEF ReplacesFields
  <2>2. "form_fields" \in Array
    BY DEF Array
  <2>3. Replaced(form, form', "form_fields", s, form.version + 1)
    BY <1>1, <1>2, <2>1, <2>2, ArrayAndVersion, Zenon
  <2>4. old \ {NoId} \subseteq Ids(q.read["form_fields"])
    BY <1>6 DEF Followed, Follows, ReplacesFields, SameVersion
  <2>5. q.read["form_fields"] = q.read.form_fields
    BY <1>1, DocumentTypes
  <2>6. new = {e.id : e \in Entries(s)}
    BY <2>3, IdsOfEntries DEF Replaced
  <2>7. Ids(q.read["form_fields"]) = {e.id : e \in Entries(q.read.form_fields)}
    BY <2>5, IdsOfEntries
  <2>8. Ids(q.read["form_fields"]) \subseteq new
    BY <2>1, <2>6, <2>7
  <2>9. creates => r \in new
    BY <1>3, <2>1, <2>6
  <2> QED
    BY <2>4, <2>8, <2>9
<1>7. CASE Pushes(r)
  <2>1. PICK s \in Seq(Element) : s = Append(form[a], NewElement(r))
    BY <1>2, <1>3, PushedElements
  <2>2. Entries(s) = Entries(form[a]) \cup {NewElement(r)}
    BY <1>2, <1>3, <2>1, PushedElements
  <2>3. form' = [form EXCEPT ![a] = s, !.version = form.version + 1]
    BY <1>7, <2>1 DEF Pushes
  <2>4. creates => a = "form_fields"
    BY DEF ArrayOf, LogicOp
  <2> HIDE DEF a
  <2>5. Replaced(form, form', a, s, form.version + 1)
    BY <1>1, <1>2, <2>3, ArrayAndVersion, Zenon
  <2>6. form'[a] = s /\ \A b \in Array : b # a => form'[b] = form[b]
    BY <2>5 DEF Replaced
  <2>7. CASE a = "form_fields"
    <3>1. new = {e.id : e \in Entries(s)}
      BY <2>6, <2>7, IdsOfEntries
    <3>2. old = {e.id : e \in Entries(form[a])}
      BY <2>7, IdsOfEntries
    <3>3. old \subseteq new /\ r \in new
      BY <1>3, <2>2, <3>1, <3>2
    <3> QED
      BY <3>3
  <2>8. CASE a # "form_fields"
    <3>1. new = old
      BY <2>6, <2>8 DEF Array
    <3> QED
      BY <2>4, <2>8, <3>1
  <2> QED
    BY <2>7, <2>8
<1>8. CASE WritesElement(r)
  <2>1. q.op = "updateFormField" <=> a = "form_fields"
    BY <1>8 DEF WritesElement, ArrayOf, LogicOp
  <2>2. PICK i \in Nat : i = IndexOf(q.read[a], q.target)
    <3>1. IndexOf(q.read[a], q.target) \in 0 .. Len(q.read[a])
      BY <1>2, IndexFound
    <3> QED
      BY <3>1
  <2>3. PICK e \in Element, up \in {0, 1} :
           /\ form' = [form EXCEPT ![a] = WrittenAt(form[a], i, e),
                                   !.version = form.version + up]
           /\ q.op = "updateFormField"
                => e.id = IF i \in DOMAIN form[a] THEN form[a][i].id ELSE NoId
    BY <1>8, <2>2 DEF WritesElement
  <2> HIDE DEF a
  <2>4. PICK s \in Seq(Element) : s = WrittenAt(form[a], i, e)
    BY <1>2, <1>3, WrittenElements
  <2>5. Overwritten(form[a], i, e, s)
    BY <1>2, <1>3, <2>4, WrittenElements
  <2>10. PICK v \in Nat : v = form.version + up
    BY <1>2
  <2>11. form' = [form EXCEPT ![a] = s, !.version = v]
    BY <2>3, <2>4, <2>10
  <2>6. Replaced(form, form', a, s, v)
    BY <1>1, <1>2, <2>11, ArrayAndVersion, Zenon
  <2>7. form'[a] = s /\ \A b \in Array : b # a => form'[b] = form[b]
    BY <2>6 DEF Replaced
  <2>8. ~ creates
    BY <1>8 DEF WritesElement
  <2>9. old \subseteq new
    <3>1. CASE a = "form_fields"
      <4>1. CASE i \in DOMAIN form[a]
        <5>1. Ids(s) = Ids(form[a])
          BY <2>1, <2>3, <2>5, <3>1, <4>1, OverwrittenKeeps
        <5> QED
          BY <2>7, <3>1, <5>1
      <4>2. CASE i \notin DOMAIN form[a]
        <5>1. \A j \in DOMAIN form[a] : j \in DOMAIN s /\ s[j] = form[a][j]
          BY <2>5, <4>2 DEF Overwritten
        <5>2. Ids(form[a]) \subseteq Ids(s)
          BY <5>1 DEF Ids
        <5> QED
          BY <2>7, <3>1, <5>2
      <4> QED
        BY <4>1, <4>2
    <3>2. CASE a # "form_fields"
      BY <2>7, <3>2 DEF Array
    <3> QED
      BY <3>1, <3>2
  <2> QED
    BY <2>8, <2>9
<1>9. CASE Pulls(r)
  <2>1. PICK s \in Seq(Element) : s = Without(form[a], q.target)
    BY <1>2, WithoutElements
  <2>2. Entries(s) = {e \in Entries(form[a]) : e.id # q.target}
    BY <1>2, <2>1, WithoutElements
  <2>3. form' = [form EXCEPT ![a] = s]
    BY <1>9, <2>1 DEF Pulls
  <2>4. /\ q.op = "deleteFormField" <=> a = "form_fields"
        /\ ~ creates
    BY <1>9 DEF Pulls, ArrayOf, LogicOp
  <2>5. request'[r].pc = "ok"
    BY <1>4, <1>9 DEF Pulls
  <2> HIDE DEF a
  <2>6. Replaced(form, form', a, s, form.version)
    BY <1>1, <1>2, <2>3, ArrayOnly, Zenon
  <2>7. form'[a] = s /\ \A b \in Array : b # a => form'[b] = form[b]
    BY <2>6 DEF Replaced
  <2>8. CASE a = "form_fields"
    <3>1. new = {e.id : e \in Entries(s)}
      BY <2>7, <2>8, IdsOfEntries
    <3>2. old = {e.id : e \in Entries(form[a])}
      BY <2>8, IdsOfEntries
    <3>3. old \subseteq new \cup {q.target}
      BY <2>2, <3>1, <3>2
    <3> QED
      BY <2>4, <2>5, <2>8, <3>3
  <2>9. CASE a # "form_fields"
    <3>1. new = old
      BY <2>7, <2>9 DEF Array
    <3> QED
      BY <2>4, <3>1
  <2> QED
    BY <2>8, <2>9
<1>10. CASE SetsStatus(r)
  <2>1. PICK newStatus \in Status : form' = [form EXCEPT !.status = newStatus]
    BY <1>10 DEF SetsStatus
  <2>2. form'["form_fields"] = form["form_fields"]
    BY <1>1, <2>1 DEF Document
  <2>3. ~ creates
    BY <1>10 DEF SetsStatus, StatusOp
  <2> QED
    BY <2>2, <2>3
<1> QED
  BY <1>5, <1>6, <1>7, <1>8, <1>9, <1>10 DEF Effect

\* The strengthened invariant holds initially ...
LEMMA EditingInvInit ==
    Init => EditingInv
<1> SUFFICES ASSUME Init PROVE EditingInv
  OBVIOUS
<1>1. EditingTypes
  BY EditingTypesInit
<1>2. request = <<>>
  BY DEF Init
<1>3. DOMAIN request = {}
  BY <1>2
<1>4. FieldsStay
  <2>1. form.form_fields = FirstElements(Fields)
    BY DEF Init
  <2>2. CreatedFields = {}
    BY <1>3 DEF CreatedFields
  <2> QED
    BY <2>1, <2>2, FieldsStayIs DEF FirstFields
<1>5. \A copy \in copies : Followed(copy)
  <2>1. copies = {Copy} /\ Copy.read = form /\ Copy.seen = unseen
    BY DEF Init, Copy
  <2>2. Follows(form, unseen, form, unseen)
    BY <1>1, FollowsItself DEF EditingTypes
  <2> QED
    BY <2>1, <2>2 DEF Followed
<1> QED
  BY <1>1, <1>3, <1>4, <1>5 DEF EditingInv

\* ... and by every step.
LEMMA EditingInvNext ==
    EditingInv /\ [Next]_editingVars => EditingInv'
<1> DEFINE AllFollowed == \A r \in DOMAIN request : Followed(request[r])
           CopiesFollowed == \A copy \in copies : Followed(copy)
           Now(q) == Follows(q.read, q.seen, form', unseen')
<1> SUFFICES ASSUME EditingInv, [Next]_editingVars PROVE EditingInv'
  OBVIOUS
<1>1. EditingTypes /\ AllFollowed /\ CopiesFollowed /\ FieldsStay
  BY DEF EditingInv
<1>2. EditingTypes'
  BY <1>1, EditingTypesNext
<1>3. /\ \A r \in DOMAIN request : request[r] \in Edit
      /\ Len(request) \in Nat /\ DOMAIN request = 1 .. Len(request)
      /\ form \in Document /\ unseen \in Changes
      /\ form' \in Document /\ unseen' \in Changes
  BY <1>1, <1>2, ElementOfSeq, LenProperties DEF EditingTypes
<1>11. copies' \subseteq copies \cup {Copy'}
  BY DEF Next, editingVars
<1>4. ASSUME \A r \in DOMAIN request' : Now(request'[r]),
             \A copy \in copies : Now(copy),
             FieldsStay'
      PROVE  EditingInv'
  <2>1. AllFollowed'
    BY <1>4 DEF Followed
  <2>2. Now(Copy')
    <3>1. Copy' = [read |-> form', seen |-> unseen']
      BY DEF Copy
    <3>2. Follows(form', unseen', form', unseen')
      BY <1>3, FollowsItself
    <3> QED
      BY <3>1, <3>2
  <2>3. \A copy \in copies' : Now(copy)
    <3> HIDE DEF Now
    <3> QED
      BY <1>4, <1>11, <2>2
  <2>4. CopiesFollowed'
    BY <2>3 DEF Followed
  <2> HIDE DEF AllFollowed, CopiesFollowed
  <2> QED
    BY <1>2, <1>4, <2>1, <2>4 DEF EditingInv, AllFollowed, CopiesFollowed
<1>12. ASSUME UNCHANGED <<form, unseen>>
       PROVE  \A copy \in copies : Now(copy)
  BY <1>1, <1>12 DEF Followed
<1>5. ASSUME NEW q, FreshlyRead(q), UNCHANGED <<form, unseen>>
      PROVE  Now(q)
  <2>1. PICK copy \in copies : q.read = copy.read /\ q.seen = copy.seen
    BY <1>5 DEF FreshlyRead
  <2>2. Now(copy)
    BY <1>5, <1>12
  <2> QED
    BY <2>1, <2>2
<1>6. ASSUME NEW r \in DOMAIN request, UNCHANGED <<form, unseen>>
      PROVE  Now(request[r])
  BY <1>1, <1>6 DEF Followed
<1>7. ASSUME Receive PROVE EditingInv'
  <2>1. PICK q : FreshlyRead(q) /\ request' = Append(request, q)
    BY <1>1, <1>7, ReceiveEffects
  <2>2. UNCHANGED <<form, unseen>>
    BY <1>1, <1>7, ReceiveEffects
  <2>3. q \in Edit /\ q.pc # "ok"
    BY <2>1 DEF FreshlyRead
  <2>4. /\ request' \in Seq(Edit) /\ Len(request') = Len(request) + 1
        /\ request'[Len(request) + 1] = q
        /\ \A r \in 1 .. Len(request) : request'[r] = request[r]
    BY <1>1, <2>1, <2>3, AppendProperties DEF EditingTypes
  <2>5. DOMAIN request' = DOMAIN request \cup {Len(request) + 1}
    <3>1. DOMAIN request' = 1 .. Len(request) + 1
      BY <2>4, LenProperties
    <3>2. 1 .. Len(request) + 1 = (1 .. Len(request)) \cup {Len(request) + 1}
      BY <1>3
    <3> QED
      BY <1>3, <3>1, <3>2
  <2>6. \A r \in DOMAIN request : request'[r] = request[r]
    BY <1>3, <2>4
  <2>7. Now(request'[Len(request) + 1])
    BY <1>5, <2>1, <2>2, <2>4
  <2>8. ASSUME NEW r \in DOMAIN request'
        PROVE  Now(request'[r])
    <3>1. CASE r = Len(request) + 1
      BY <2>7, <3>1
    <3>2. CASE r # Len(request) + 1
      <4>1. r \in DOMAIN request
        BY <2>5, <3>2
      <4> HIDE DEF Now
      <4> QED
        BY <1>6, <2>2, <2>6, <4>1
    <3> QED
      BY <3>1, <3>2
  <2>9. CreatedFields' = CreatedFields /\ DeletedFields' = DeletedFields
    <3>1. CreatedFields' =
            {r \in DOMAIN request' :
               /\ request'[r].op \in {"insertFormField", "duplicateFormField"}
               /\ request'[r].pc = "ok"}
      BY DEF CreatedFields
    <3>2. CreatedFields' = CreatedFields
      BY <2>3, <2>4, <2>5, <2>6, <3>1 DEF CreatedFields
    <3>3. {s \in DOMAIN request' : /\ request'[s].op = "deleteFormField"
                                   /\ request'[s].pc = "ok"}
            = {s \in DOMAIN request : /\ request[s].op = "deleteFormField"
                                      /\ request[s].pc = "ok"}
      BY <2>3, <2>4, <2>5, <2>6
    <3>4. DeletedFields' = DeletedFields
      BY <2>6, <3>3 DEF DeletedFields
    <3> QED
      BY <3>2, <3>4
  <2>10. FieldsStay'
    <3>1. FirstFields' = FirstFields
      BY DEF FirstFields, FirstElements, Ids
    <3>2. (FirstFields \cup CreatedFields
             \subseteq Ids(form.form_fields) \cup DeletedFields)'
      BY <1>1, <2>2, <2>9, <3>1, FieldsStayIs
    <3> QED
      BY <3>2, FieldsStayIs, PTL
  <2> HIDE DEF Now
  <2> QED
    BY <1>4, <1>12, <2>2, <2>8, <2>10
<1>8. ASSUME NEW r \in DOMAIN request, ReadAgain(r) PROVE EditingInv'
  <2>1. PICK q : FreshlyRead(q) /\ request' = [request EXCEPT ![r] = q]
    BY <1>1, <1>8, ReadAgainEffects
  <2>2. request[r].pc = "readAgain" /\ UNCHANGED <<form, unseen>>
    BY <1>1, <1>8, ReadAgainEffects
  <2>3. q.pc # "ok"
    BY <2>1 DEF FreshlyRead
  <2>4. /\ DOMAIN request' = DOMAIN request /\ request'[r] = q
        /\ \A s \in DOMAIN request : s # r => request'[s] = request[s]
    BY <2>1
  <2>5. ASSUME NEW s \in DOMAIN request'
        PROVE  Now(request'[s])
    <3>1. CASE s = r
      BY <1>5, <2>1, <2>2, <2>4, <3>1
    <3>2. CASE s # r
      <4>1. s \in DOMAIN request
        BY <2>4
      <4> HIDE DEF Now
      <4> QED
        BY <1>6, <2>2, <2>4, <3>2, <4>1
    <3> QED
      BY <3>1, <3>2
  <2>6. CreatedFields' = CreatedFields /\ DeletedFields' = DeletedFields
    <3>1. CreatedFields' =
            {s \in DOMAIN request' :
               /\ request'[s].op \in {"insertFormField", "duplicateFormField"}
               /\ request'[s].pc = "ok"}
      BY DEF CreatedFields
    <3>2. CreatedFields' = CreatedFields
      BY <2>2, <2>3, <2>4, <3>1 DEF CreatedFields
    <3>3. {s \in DOMAIN request' : /\ request'[s].op = "deleteFormField"
                                   /\ request'[s].pc = "ok"}
            = {s \in DOMAIN request : /\ request[s].op = "deleteFormField"
                                      /\ request[s].pc = "ok"}
      BY <2>2, <2>3, <2>4
    <3>4. \A s \in DOMAIN request : request[s].pc = "ok"
             => request'[s].target = request[s].target
      BY <2>2, <2>4
    <3>5. DeletedFields' = DeletedFields
      BY <3>3, <3>4 DEF DeletedFields
    <3> QED
      BY <3>2, <3>5
  <2>7. FieldsStay'
    <3>1. FirstFields' = FirstFields
      BY DEF FirstFields, FirstElements, Ids
    <3>2. (FirstFields \cup CreatedFields
             \subseteq Ids(form.form_fields) \cup DeletedFields)'
      BY <1>1, <2>2, <2>6, <3>1, FieldsStayIs
    <3> QED
      BY <3>2, FieldsStayIs, PTL
  <2> HIDE DEF Now
  <2> QED
    BY <1>4, <1>12, <2>2, <2>5, <2>7
<1>9. ASSUME NEW r \in DOMAIN request, Save(r) PROVE EditingInv'
  <2>1. request[r].pc = "save" /\ Effect(r)
    BY <1>1, <1>9, SaveEffects
  <2>2. PICK c \in {"ok", "refused"} : Answer(r, c)
    BY <1>1, <2>1, EffectTypes
  <2>3. /\ DOMAIN request' = DOMAIN request
        /\ request'[r] = [request[r] EXCEPT !.pc = c]
        /\ \A q \in DOMAIN request : q # r => request'[q] = request[q]
    BY <1>1, <2>2, Answered DEF EditingTypes, Outcome
  <2>4. /\ request'[r].pc = c
        /\ request'[r].op = request[r].op
        /\ request'[r].target = request[r].target
        /\ request'[r].read = request[r].read
        /\ request'[r].seen = request[r].seen
    BY <1>3, <2>3 DEF Edit
  <2>5. \A s \in DOMAIN request :
           /\ request'[s].op = request[s].op
           /\ request'[s].target = request[s].target
           /\ request'[s].read = request[s].read
           /\ request'[s].seen = request[s].seen
    BY <2>3, <2>4
  <2>6. Follows(form, unseen, form', unseen')
    BY <1>1, <2>1, EffectFollows
  <2>7. ASSUME NEW s \in DOMAIN request'
        PROVE  Now(request'[s])
    <3>1. s \in DOMAIN request
      BY <2>3
    <3>2. /\ request[s].read \in Document /\ request[s].seen \in Changes
      BY <1>3, <3>1 DEF Edit
    <3>3. Follows(request[s].read, request[s].seen, form, unseen)
      BY <1>1, <3>1 DEF Followed
    <3>4. Now(request[s])
      BY <1>3, <2>6, <3>2, <3>3, FollowsFurther
    <3> QED
      BY <2>5, <3>1, <3>4
  <2>13. \A copy \in copies : Now(copy)
    <3> TAKE copy \in copies
    <3>1. copy.read \in Document /\ copy.seen \in Changes
      BY <1>1 DEF EditingTypes, CopiesTyped
    <3>2. Follows(copy.read, copy.seen, form, unseen)
      BY <1>1 DEF Followed
    <3> QED
      BY <1>3, <2>6, <3>1, <3>2, FollowsFurther
  <2>8. /\ Ids(form["form_fields"]) \ {NoId}
              \subseteq Ids(form'["form_fields"]) \cup
                 (IF request[r].op = "deleteFormField" /\ request'[r].pc = "ok"
                  THEN {request[r].target} ELSE {})
        /\ request[r].op \in {"insertFormField", "duplicateFormField"}
              /\ request'[r].pc = "ok" => r \in Ids(form'["form_fields"])
    BY <1>1, <2>1, SavedFields
  <2>9. /\ form["form_fields"] = form.form_fields
        /\ form'["form_fields"] = form'.form_fields
    BY <1>3, DocumentTypes
  <2>10. CreatedFields' \subseteq CreatedFields \cup Ids(form'.form_fields)
    <3>1. CreatedFields' =
            {s \in DOMAIN request' :
               /\ request'[s].op \in {"insertFormField", "duplicateFormField"}
               /\ request'[s].pc = "ok"}
      BY DEF CreatedFields
    <3> SUFFICES ASSUME NEW s \in CreatedFields', s # r
                 PROVE  s \in CreatedFields
      BY <2>4, <2>8, <2>9, <3>1
    <3>2. s \in DOMAIN request /\ request'[s] = request[s]
      BY <2>3, <3>1
    <3> QED
      BY <3>1, <3>2 DEF CreatedFields
  <2>11. /\ DeletedFields \subseteq DeletedFields'
         /\ request[r].op = "deleteFormField" /\ request'[r].pc = "ok"
              => request[r].target \in DeletedFields'
    <3> DEFINE Deletes(s) == request'[s].op = "deleteFormField"
                                /\ request'[s].pc = "ok"
    <3>1. DeletedFields' =
            {request'[s].target : s \in {t \in DOMAIN request' : Deletes(t)}}
      BY DEF DeletedFields
    <3>2. \A s \in DOMAIN request : Deletes(s)
             => request[s].target \in DeletedFields'
      <4> HIDE DEF Deletes
      <4> QED
        BY <2>3, <2>5, <3>1
    <3>3. \A s \in DOMAIN request :
             request[s].op = "deleteFormField" /\ request[s].pc = "ok"
                => Deletes(s)
      BY <2>1, <2>3
    <3>4. DeletedFields \subseteq DeletedFields'
      <4> SUFFICES ASSUME NEW s \in DOMAIN request,
                          request[s].op = "deleteFormField",
                          request[s].pc = "ok"
                   PROVE  request[s].target \in DeletedFields'
        BY DEF DeletedFields
      <4> QED
        BY <3>2, <3>3
    <3>5. request[r].op = "deleteFormField" /\ request'[r].pc = "ok"
             => Deletes(r)
      BY <2>4
    <3> QED
      BY <3>2, <3>4, <3>5
  <2>12. FieldsStay'
    <3>1. FirstFields' = FirstFields
      BY DEF FirstFields, FirstElements, Ids
    <3>2. FirstFields \cup CreatedFields
             \subseteq Ids(form.form_fields) \cup DeletedFields
      BY <1>1, FieldsStayIs
    <3>3. NoId \notin FirstFields \cup CreatedFields
      BY <1>1, FieldsHaveIds
    <3>4. Ids(form.form_fields) \ {NoId}
             \subseteq Ids(form'.form_fields) \cup DeletedFields'
      BY <2>8, <2>9, <2>11
    <3>5. FirstFields \cup CreatedFields
             \subseteq Ids(form'.form_fields) \cup DeletedFields'
      BY <2>11, <3>2, <3>3, <3>4
    <3>6. FirstFields' \cup CreatedFields'
             \subseteq Ids(form'.form_fields) \cup DeletedFields'
      BY <2>10, <3>1, <3>5
    <3>7. (FirstFields \cup CreatedFields
             \subseteq Ids(form.form_fields) \cup DeletedFields)'
      BY <3>6 DEF Ids
    <3> QED
      BY <3>7, FieldsStayIs, PTL
  <2> HIDE DEF Now
  <2> QED
    BY <1>4, <2>7, <2>12, <2>13
<1>10. CASE UNCHANGED editingVars
  <2>1. UNCHANGED <<form, request, unseen>>
    BY <1>10 DEF editingVars
  <2>2. FieldsStay'
    BY <1>1, <2>1 DEF FieldsStay
  <2> HIDE DEF Now
  <2> QED
    BY <1>4, <1>6, <1>12, <2>1, <2>2
<1> QED
  BY <1>7, <1>8, <1>9, <1>10 DEF Next

\* The invariant holds in every reachable state.
THEOREM EditingFollowed ==
    Spec => []EditingInv
BY EditingInvInit, EditingInvNext, PTL DEF Spec

\* A field of the form, and one whose creation has been acknowledged, is lost
\* only by a request that deletes it: a request that writes all fields back has
\* the version see to it that it has read every one of them.
THEOREM FieldsAlwaysStay ==
    Spec => []FieldsStay
<1>1. EditingInv => FieldsStay
  BY DEF EditingInv
<1> QED
  BY <1>1, EditingFollowed, PTL

\* A step that answers a request with success is its save.
LEMMA GrantedBySave ==
    ASSUME EditingTypes, [Next]_editingVars, NEW r \in DOMAIN request,
           request[r].pc = "save", request'[r].pc = "ok"
    PROVE  Save(r)
<1>1. ~ UNCHANGED editingVars
  BY DEF editingVars
<1>2. ~ Receive
  <2> SUFFICES ASSUME Receive PROVE FALSE
    OBVIOUS
  <2>1. PICK q : FreshlyRead(q) /\ request' = Append(request, q)
    BY ReceiveEffects
  <2>2. request'[r] = request[r]
    <3>1. q \in Edit
      BY <2>1 DEF FreshlyRead
    <3>2. \A s \in 1 .. Len(request) : Append(request, q)[s] = request[s]
      BY <3>1, AppendProperties DEF EditingTypes
    <3>3. r \in 1 .. Len(request)
      BY LenProperties DEF EditingTypes
    <3> QED
      BY <2>1, <3>2, <3>3
  <2> QED
    BY <2>2
<1>3. ASSUME NEW s \in DOMAIN request, ReadAgain(s) PROVE FALSE
  <2>1. PICK q : FreshlyRead(q) /\ request' = [request EXCEPT ![s] = q]
    BY <1>3, ReadAgainEffects
  <2>2. request'[r] = IF r = s THEN q ELSE request[r]
    BY <2>1
  <2>3. q.pc # "ok"
    BY <2>1 DEF FreshlyRead
  <2> QED
    BY <2>2, <2>3
<1>4. ASSUME NEW s \in DOMAIN request, Save(s), s # r PROVE FALSE
  <2>1. PICK c \in {"ok", "refused"} : Answer(s, c)
    BY <1>4, SaveEffects, EffectTypes
  <2>2. request'[r] = request[r]
    BY <1>4, <2>1, Answered DEF EditingTypes, Outcome
  <2> QED
    BY <2>2
<1> QED
  BY <1>1, <1>2, <1>3, <1>4 DEF Next

\* Whatever has been saved since a request has read the form, if the version or
\* the history has not misled it, its save changes its target and nothing else.
THEOREM SavesOnlyTheirTarget ==
    Spec => SavesOnlyTarget
<1>1. EditingInv /\ [Next]_editingVars
        => [\A r \in DOMAIN request :
               (/\ request[r].pc = "save" /\ request'[r].pc = "ok"
                /\ ~Misled(r)) => OnlyTarget(r)]_editingVars
  <2> SUFFICES ASSUME EditingInv, [Next]_editingVars,
                      NEW r \in DOMAIN request,
                      request[r].pc = "save", request'[r].pc = "ok",
                      ~ Misled(r)
               PROVE  OnlyTarget(r)
    OBVIOUS
  <2>1. EditingTypes /\ Followed(request[r])
    BY DEF EditingInv
  <2>2. Save(r)
    BY <2>1, GrantedBySave
  <2>3. Effect(r)
    BY <2>1, <2>2, SaveEffects
  <2> QED
    BY <2>1, <2>3, SavedOnlyTarget
<1> QED
  BY <1>1, EditingFollowed, PTL DEF Spec, SavesOnlyTarget

-----------------------------------------------------------------------------
(* Submissions.                                                             *)

ServingRecord ==
    [pc : {"idle", "scan", "scanned", "move", "ensure", "deactivate",
           "deactivateSave", "save", "mail"},
     id : Nat, status : {"PUBLIC", "PRIVATE"}, key : Key \cup {NoKey},
     file : Nat]

Beyond == {"move", "ensure", "deactivate", "deactivateSave", "save", "mail"}

Scanned(h) == serving[h].pc \in Beyond

\* A handler beyond the scan has a file that was found clean, or none.
FileInv ==
    /\ uploads \in Seq([key : Key, malicious : BOOLEAN])
    /\ quarantine \subseteq DOMAIN uploads
    /\ serving \in [Handler -> ServingRecord]
    /\ \A h \in Handler : serving[h].file \in DOMAIN uploads \cup {NoFile}
    /\ \A h \in Handler : serving[h].pc \in {"scanned", "move"}
          => serving[h].file \in DOMAIN uploads
    /\ \A h \in Handler : Scanned(h) /\ serving[h].file # NoFile
          => ~uploads[serving[h].file].malicious
    /\ clean \subseteq DOMAIN uploads
    /\ \A s \in submissions : s.file \in DOMAIN uploads \cup {NoFile}

CleanInv == FileInv /\ OnlyCleanFiles

\* Initially no file is stored anywhere.
LEMMA CleanInit == SubmissionInit => CleanInv
  BY DEF SubmissionInit, CleanInv, FileInv, OnlyCleanFiles, Idle, ServingRecord,
     NoFile, Scanned, Beyond

\* A step of h that only takes versions from the quarantine bucket, and stores
\* and goes on with what was found clean.
FileStep(h) ==
    /\ UNCHANGED uploads
    /\ quarantine' \subseteq quarantine
    /\ clean' \subseteq DOMAIN uploads
    /\ \A v \in clean' : ~uploads[v].malicious
    /\ serving' \in [Handler -> ServingRecord]
    /\ \A g \in Handler \ {h} : serving'[g] = serving[g]
    /\ serving'[h].file \in DOMAIN uploads \cup {NoFile}
    /\ serving'[h].pc \in {"scanned", "move"}
          => serving'[h].file \in DOMAIN uploads
    /\ serving'[h].pc \in Beyond /\ serving'[h].file # NoFile
          => ~uploads[serving'[h].file].malicious
    /\ UNCHANGED submissions \/ (Scanned(h) /\ Store(h))

\* No version is ever changed.
LEMMA CleanNext ==
    ASSUME CleanInv, [SubmissionNext]_submissionVars,
           received \in Nat, status \in {"PUBLIC", "PRIVATE"}
    PROVE  CleanInv'
<1> USE DEF CleanInv
<1>0. NoFile \notin DOMAIN uploads /\ DOMAIN uploads \subseteq Nat
  BY DEF FileInv, NoFile
<1>1. ASSUME NEW k \in Key, NEW malicious \in BOOLEAN, Upload(k, malicious)
      PROVE  CleanInv'
  <2>1. /\ uploads' \in Seq([key : Key, malicious : BOOLEAN])
        /\ DOMAIN uploads' = DOMAIN uploads \cup {Len(uploads) + 1}
        /\ \A v \in DOMAIN uploads : uploads'[v] = uploads[v]
    BY <1>1 DEF Upload, FileInv
  <2>2. UNCHANGED <<submissions, clean, serving>>
           /\ quarantine' = quarantine \cup {Len(uploads) + 1}
    BY <1>1 DEF Upload
  <2>3. FileInv'
    BY <2>1, <2>2, <1>0 DEF FileInv, Scanned, At
  <2>4. OnlyCleanFiles'
    BY <2>1, <2>2 DEF OnlyCleanFiles, FileInv
  <2> QED
    BY <2>3, <2>4
<1>2. ASSUME NEW h \in Handler, FileStep(h)
      PROVE  CleanInv'
  <2>1. \A s \in submissions' : s \in submissions
              \/ (Scanned(h) /\ s.file = serving[h].file)
    <3>1. CASE UNCHANGED submissions
      BY <3>1
    <3>2. CASE Scanned(h) /\ Store(h)
      <4>1. submissions' = submissions \cup
              {[id |-> serving[h].id, file |-> serving[h].file]}
        BY <3>2 DEF Store
      <4> QED
        BY <3>2, <4>1
    <3> QED
      BY <1>2, <3>1, <3>2 DEF FileStep
  <2>2. /\ \A s \in submissions' : s.file \in DOMAIN uploads \cup {NoFile}
        /\ \A s \in submissions' : s.file # NoFile =>
              ~uploads[s.file].malicious
    BY <2>1 DEF FileInv, OnlyCleanFiles, Scanned
  <2>3. FileInv'
    <3>1. ASSUME NEW g \in Handler
          PROVE  /\ serving'[g].file \in DOMAIN uploads \cup {NoFile}
                 /\ serving'[g].pc \in {"scanned", "move"}
                       => serving'[g].file \in DOMAIN uploads
                 /\ serving'[g].pc \in Beyond /\ serving'[g].file # NoFile
                       => ~uploads[serving'[g].file].malicious
      <4>1. CASE g = h
        BY <1>2, <4>1 DEF FileStep
      <4>2. CASE g # h
        BY <1>2, <4>2 DEF FileStep, FileInv, Scanned
      <4> QED
        BY <4>1, <4>2
    <3> QED
      BY <1>2, <2>2, <3>1 DEF FileStep, FileInv, Scanned
  <2>4. OnlyCleanFiles'
    BY <1>2, <2>2 DEF FileStep, OnlyCleanFiles
  <2> QED
    BY <2>3, <2>4
<1>k. ASSUME UNCHANGED clean
      PROVE  /\ clean' \subseteq DOMAIN uploads
             /\ \A v \in clean' : ~uploads[v].malicious
  BY <1>k, <1>0 DEF FileInv, OnlyCleanFiles
<1>s. serving \in [Handler -> ServingRecord]
  BY DEF FileInv
<1>3. ASSUME NEW h \in Handler, NEW k \in Key \cup {NoKey}, ReceiveSubmission(h, k)
      PROVE  CleanInv'
  <2>1. serving' = [serving EXCEPT ![h] =
          [pc |-> IF k = NoKey THEN "ensure" ELSE "scan", id |-> received + 1,
           status |-> status, key |-> k, file |-> NoFile]]
    BY <1>3 DEF ReceiveSubmission
  <2>2. /\ serving' \in [Handler -> ServingRecord]
        /\ \A g \in Handler \ {h} : serving'[g] = serving[g]
        /\ serving'[h].file = NoFile /\ serving'[h].pc \notin {"scanned", "move"}
    BY <2>1, <1>s DEF ServingRecord, NoFile
  <2>3. UNCHANGED <<uploads, quarantine, clean, submissions>>
    BY <1>3 DEF ReceiveSubmission
  <2>4. FileStep(h)
    BY <2>2, <2>3, <1>k DEF FileStep
  <2> QED
    BY <2>4, <1>2
\* The request ends, or goes on with the file it has.
<1>4. ASSUME NEW h \in Handler, UNCHANGED uploads, quarantine' \subseteq quarantine,
             clean' \subseteq DOMAIN uploads,
             \A v \in clean' : ~uploads[v].malicious, Finish(h),
             UNCHANGED submissions \/ (Scanned(h) /\ Store(h))
      PROVE  CleanInv'
  <2>1. /\ serving' \in [Handler -> ServingRecord]
        /\ \A g \in Handler \ {h} : serving'[g] = serving[g]
        /\ serving'[h].file = NoFile
        /\ serving'[h].pc \notin {"scanned", "move"}
    BY <1>4, <1>s DEF Finish, Idle, ServingRecord, NoFile
  <2>2. FileStep(h)
    BY <2>1, <1>4 DEF FileStep
  <2> QED
    BY <2>2, <1>2
<1>5. ASSUME NEW h \in Handler, Scanned(h),
             NEW step \in {"save", "deactivate", "mail"}, GoTo(h, step),
             UNCHANGED <<uploads, quarantine, clean>>,
             UNCHANGED submissions \/ Store(h)
      PROVE  CleanInv'
  <2>1. /\ serving' \in [Handler -> ServingRecord]
        /\ \A g \in Handler \ {h} : serving'[g] = serving[g]
        /\ serving'[h].file = serving[h].file
        /\ serving'[h].pc \notin {"scanned", "move"}
    BY <1>5, <1>s DEF GoTo, ServingRecord
  <2>2. /\ serving[h].file \in DOMAIN uploads \cup {NoFile}
        /\ serving[h].file # NoFile => ~uploads[serving[h].file].malicious
    BY <1>5 DEF FileInv
  <2>3. FileStep(h)
    BY <2>1, <2>2, <1>5, <1>k DEF FileStep
  <2> QED
    BY <2>3, <1>2
<1>6. ASSUME NEW h \in Handler, getS3FileStreamWithVersionId(h)
      PROVE  CleanInv'
  <2>1. UNCHANGED <<uploads, quarantine, clean, submissions>>
    BY <1>6 DEF getS3FileStreamWithVersionId
  <2>2. CASE Finish(h)
    BY <2>1, <2>2, <1>4, <1>k
  <2>3. ASSUME NEW v \in quarantine,
               serving' = [serving EXCEPT ![h].pc = "scanned", ![h].file = v]
        PROVE  CleanInv'
    <3>1. v \in DOMAIN uploads /\ v \in Nat
      BY <1>0 DEF FileInv
    <3>2. /\ serving' \in [Handler -> ServingRecord]
          /\ \A g \in Handler \ {h} : serving'[g] = serving[g]
          /\ serving'[h].file = v /\ serving'[h].pc \notin Beyond
      BY <2>3, <3>1, <1>s DEF ServingRecord, Beyond
    <3>3. FileStep(h)
      BY <2>1, <3>1, <3>2, <1>k DEF FileStep
    <3> QED
      BY <3>3, <1>2
  <2> QED
    BY <1>6, <2>2, <2>3 DEF getS3FileStreamWithVersionId
<1>7. ASSUME NEW h \in Handler, scanFileStream(h)
      PROVE  CleanInv'
  <2>1. UNCHANGED <<uploads, clean, submissions>> /\ quarantine' \subseteq quarantine
    BY <1>7 DEF scanFileStream
  <2>2. CASE Finish(h)
    BY <2>1, <2>2, <1>4, <1>k
  <2>3. CASE At(h, "scanned") /\ ~uploads[serving[h].file].malicious
                /\ GoTo(h, "move")
    <3>1. /\ serving' \in [Handler -> ServingRecord]
          /\ \A g \in Handler \ {h} : serving'[g] = serving[g]
          /\ serving'[h].file = serving[h].file
      BY <2>3, <1>s DEF GoTo, ServingRecord
    <3>2. serving[h].file \in DOMAIN uploads
      BY <2>3 DEF FileInv, At
    <3>3. FileStep(h)
      BY <2>1, <2>3, <3>1, <3>2, <1>k DEF FileStep
    <3> QED
      BY <3>3, <1>2
  <2> QED
    BY <1>7, <2>2, <2>3 DEF scanFileStream
<1>8. ASSUME NEW h \in Handler, moveS3File(h)
      PROVE  CleanInv'
  <2>1. /\ UNCHANGED <<uploads, submissions>> /\ quarantine' \subseteq quarantine
        /\ clean' \subseteq clean \cup {serving[h].file} /\ At(h, "move")
    BY <1>8 DEF moveS3File, VersionToMove
  <2>2. /\ serving[h].file \in DOMAIN uploads
        /\ ~uploads[serving[h].file].malicious
    BY <2>1, <1>0 DEF FileInv, At, Scanned, Beyond
  <2>3. /\ clean' \subseteq DOMAIN uploads
        /\ \A v \in clean' : ~uploads[v].malicious
    <3>1. clean \subseteq DOMAIN uploads /\ \A v \in clean : ~uploads[v].malicious
      BY <1>0 DEF FileInv, OnlyCleanFiles
    <3> QED
      BY <2>1, <2>2, <3>1
  <2>4. CASE Finish(h)
    BY <2>1, <2>3, <2>4, <1>4
  <2>5. CASE serving' = [serving EXCEPT ![h].pc = "ensure",
                                        ![h].file = serving[h].file]
    <3>1. /\ serving' \in [Handler -> ServingRecord]
          /\ \A g \in Handler \ {h} : serving'[g] = serving[g]
          /\ serving'[h].file = serving[h].file
      BY <2>5, <1>s DEF ServingRecord
    <3>2. FileStep(h)
      BY <2>1, <2>2, <2>3, <3>1 DEF FileStep
    <3> QED
      BY <3>2, <1>2
  <2> QED
    BY <1>8, <2>4, <2>5 DEF moveS3File, VersionToMove
<1>9. ASSUME NEW h \in Handler, checkFormSubmissionLimit(h)
      PROVE  CleanInv'
  <2>1. /\ UNCHANGED <<uploads, quarantine, clean, submissions>> /\ Scanned(h)
        /\ Finish(h) \/ \E step \in {"save", "deactivate"} : GoTo(h, step)
    BY <1>9 DEF checkFormSubmissionLimit, Scanned, At, Beyond
  <2>2. CASE Finish(h)
    BY <2>1, <2>2, <1>4, <1>k
  <2>3. ASSUME NEW step \in {"save", "deactivate"}, GoTo(h, step)
        PROVE  CleanInv'
    BY <2>1, <2>3, <1>5
  <2> QED
    BY <2>1, <2>2, <2>3
<1>10. ASSUME NEW h \in Handler, deactivateFormRead(h)
       PROVE  CleanInv'
  <2>1. PICK read \in {"PUBLIC", "PRIVATE"} :
           /\ UNCHANGED <<uploads, quarantine, clean, submissions>> /\ Scanned(h)
           /\ serving' = [serving EXCEPT ![h].pc = "deactivateSave",
                                         ![h].status = read]
    BY <1>10 DEF deactivateFormRead, Scanned, At, Beyond
  <2>2. /\ serving' \in [Handler -> ServingRecord]
        /\ \A g \in Handler \ {h} : serving'[g] = serving[g]
        /\ serving'[h].file = serving[h].file /\ serving'[h].pc = "deactivateSave"
    BY <2>1, <1>s DEF ServingRecord
  <2>3. /\ serving[h].file \in DOMAIN uploads \cup {NoFile}
        /\ serving[h].file # NoFile => ~uploads[serving[h].file].malicious
    BY <2>1 DEF FileInv
  <2>4. FileStep(h)
    BY <2>1, <2>2, <2>3, <1>k DEF FileStep
  <2> QED
    BY <2>4, <1>2
<1>11. ASSUME NEW h \in Handler, deactivateFormSave(h) \/ sendSubmissionToAdmin(h)
       PROVE  CleanInv'
  <2>1. UNCHANGED <<uploads, quarantine, clean, submissions>> /\ Finish(h)
    BY <1>11 DEF deactivateFormSave, sendSubmissionToAdmin
  <2> QED
    BY <2>1, <1>4, <1>k
<1>12. ASSUME NEW h \in Handler, SaveSubmission(h)
       PROVE  CleanInv'
  <2>1. /\ UNCHANGED <<uploads, quarantine, clean>> /\ Scanned(h)
        /\ Store(h) \/ UNCHANGED submissions
        /\ Finish(h) \/ GoTo(h, "mail")
    BY <1>12 DEF SaveSubmission, Scanned, At, Beyond
  <2>2. CASE Finish(h)
    BY <2>1, <2>2, <1>4, <1>k
  <2>3. CASE GoTo(h, "mail")
    BY <2>1, <2>3, <1>5
  <2> QED
    BY <2>1, <2>2, <2>3
<1>13. ASSUME UNCHANGED <<uploads, quarantine, clean, submissions, serving>>
       PROVE  CleanInv'
  BY <1>13 DEF FileInv, OnlyCleanFiles, At, Scanned
<1> QED
  BY <1>1, <1>3, <1>6, <1>7, <1>8, <1>9, <1>10, <1>11, <1>12, <1>13
  DEF SubmissionNext, ChangeStatus, submissionVars

\* The numbers of requests and the status keep their types.
LEMMA ScalarsNext ==
    ASSUME received \in Nat, status \in {"PUBLIC", "PRIVATE"},
           [SubmissionNext]_submissionVars
    PROVE  received' \in Nat /\ status' \in {"PUBLIC", "PRIVATE"}
<1>1. UNCHANGED received \/ received' = received + 1
  BY DEF SubmissionNext, submissionVars, Upload, ReceiveSubmission,
     getS3FileStreamWithVersionId, scanFileStream, moveS3File,
     checkFormSubmissionLimit, deactivateFormRead, deactivateFormSave,
     SaveSubmission, sendSubmissionToAdmin, ChangeStatus
<1>2. UNCHANGED status \/ status' \in {"PUBLIC", "PRIVATE"}
  BY DEF SubmissionNext, submissionVars, Upload, ReceiveSubmission,
     getS3FileStreamWithVersionId, scanFileStream, moveS3File,
     checkFormSubmissionLimit, deactivateFormRead, deactivateFormSave,
     SaveSubmission, sendSubmissionToAdmin, ChangeStatus
<1> QED
  BY <1>1, <1>2

\* Whatever is uploaded while a file is being scanned, what is stored is clean.
THEOREM CleanAlways ==
    SubmissionSpec => []OnlyCleanFiles
<1> DEFINE Inv == CleanInv /\ received \in Nat /\ status \in {"PUBLIC", "PRIVATE"}
<1>1. SubmissionInit => Inv
  BY CleanInit DEF SubmissionInit
<1>2. Inv /\ [SubmissionNext]_submissionVars => Inv'
  <2> SUFFICES ASSUME Inv, [SubmissionNext]_submissionVars
               PROVE  Inv'
    OBVIOUS
  <2>1. received' \in Nat /\ status' \in {"PUBLIC", "PRIVATE"}
    BY ScalarsNext
  <2> QED
    BY <2>1, CleanNext
<1>3. Inv => OnlyCleanFiles
  BY DEF CleanInv
<1> QED
  BY <1>1, <1>2, <1>3, PTL DEF SubmissionSpec

-----------------------------------------------------------------------------

Storing == {h \in Handler : At(h, "save")}

CountInv ==
    /\ IsFiniteSet(submissions) /\ failed \in Nat
    /\ serving \in [Handler -> ServingRecord]
    /\ Cardinality(submissions) + Cardinality(Storing)
          <= SubmissionLimit - 1 + Cardinality(Handler) + failed

\* The sizes of sets of handlers, as the counting below needs them.
LEMMA StoringBounds ==
    ASSUME NEW S \in SUBSET Handler
    PROVE  /\ IsFiniteSet(S) /\ Cardinality(S) \in Nat
           /\ Cardinality(Handler) \in Nat
           /\ Cardinality(S) <= Cardinality(Handler)
           /\ \A T \in SUBSET S : Cardinality(T) <= Cardinality(S)
           /\ \A h \in Handler : \A T \in SUBSET (S \cup {h}) :
                 Cardinality(T) <= Cardinality(S) + 1
           /\ \A h \in S : \A T \in SUBSET (S \ {h}) :
                 Cardinality(T) <= Cardinality(S) - 1
<1>1. IsFiniteSet(Handler) /\ Cardinality(Handler) \in Nat
  BY FS_CardinalityType, SubmissionAssumption
<1>2. IsFiniteSet(S) /\ Cardinality(S) <= Cardinality(Handler)
  BY <1>1, FS_Subset
<1>3. Cardinality(S) \in Nat
  BY <1>2, FS_CardinalityType
<1>4. ASSUME NEW T \in SUBSET S
      PROVE  Cardinality(T) <= Cardinality(S)
  BY <1>2, FS_Subset
<1>5. ASSUME NEW h \in Handler, NEW T \in SUBSET (S \cup {h})
      PROVE  Cardinality(T) <= Cardinality(S) + 1
  <2>1. /\ IsFiniteSet(S \cup {h})
        /\ Cardinality(S \cup {h}) \in {Cardinality(S), Cardinality(S) + 1}
    BY <1>2, FS_AddElement
  <2>2. Cardinality(T) <= Cardinality(S \cup {h})
    BY <2>1, FS_Subset
  <2>3. IsFiniteSet(T)
    BY <2>1, FS_Subset
  <2>4. Cardinality(T) \in Nat
    BY <2>3, FS_CardinalityType
  <2> QED
    BY <2>1, <2>2, <2>4, <1>3
<1>6. ASSUME NEW h \in S, NEW T \in SUBSET (S \ {h})
      PROVE  Cardinality(T) <= Cardinality(S) - 1
  <2>1. IsFiniteSet(S \ {h}) /\ Cardinality(S \ {h}) = Cardinality(S) - 1
    BY <1>2, FS_RemoveElement
  <2>2. Cardinality(T) <= Cardinality(S \ {h})
    BY <2>1, FS_Subset
  <2> QED
    BY <2>1, <2>2
<1> QED
  BY <1>1, <1>2, <1>3, <1>4, <1>5, <1>6

\* The four ways for a step to change what is stored and who is about to store.
CountStep ==
    \/ /\ UNCHANGED submissions /\ failed' \in {failed, failed + 1}
       /\ Storing' \subseteq Storing
    \/ /\ UNCHANGED <<submissions, failed>>
       /\ Cardinality(submissions) < SubmissionLimit
    \/ /\ UNCHANGED submissions /\ failed' = failed + 1
       /\ \E h \in Handler : Storing' \subseteq Storing \cup {h}
    \/ \E h \in Storing :
          /\ Store(h) /\ failed' \in {failed, failed + 1}
          /\ Storing' \subseteq Storing \ {h}

\* Every step of the specification is one of those the counting tells apart.
LEMMA CountSteps ==
    ASSUME CountInv, [SubmissionNext]_submissionVars
    PROVE  CountStep
<1>s. serving \in [Handler -> ServingRecord] /\ failed \in Nat
  BY DEF CountInv
<1>1. ASSUME NEW h \in Handler, \A g \in Handler \ {h} : serving'[g] = serving[g]
      PROVE  /\ Storing' \subseteq Storing \cup {h}
             /\ serving'[h].pc # "save" => Storing' \subseteq Storing \ {h}
  BY <1>1 DEF Storing, At
<1>2. ASSUME NEW h \in Handler, Finish(h)
      PROVE  /\ serving'[h].pc # "save"
             /\ \A g \in Handler \ {h} : serving'[g] = serving[g]
  BY <1>2, <1>s DEF Finish, Idle
<1>3. ASSUME NEW h \in Handler, NEW step, GoTo(h, step)
      PROVE  /\ serving'[h].pc = step
             /\ \A g \in Handler \ {h} : serving'[g] = serving[g]
  BY <1>3, <1>s DEF GoTo, ServingRecord
<1>4. ASSUME NEW h \in Handler, checkFormSubmissionLimit(h)
      PROVE  CountStep
  <2>1. UNCHANGED submissions /\ failed' \in {failed, failed + 1}
    BY <1>4 DEF checkFormSubmissionLimit, Fails
  <2>2. CASE Finish(h)
    BY <2>1, <2>2, <1>1, <1>2 DEF CountStep
  <2>3. ASSUME NEW count \in 0 .. Cardinality(submissions),
               IF count = Cardinality(submissions)
                  THEN UNCHANGED failed ELSE Fails,
               GoTo(h, IF WithinLimit(count) THEN "save" ELSE "deactivate")
        PROVE  CountStep
    <3>1. CASE ~WithinLimit(count)
      <4>1. GoTo(h, "deactivate")
        BY <2>3, <3>1
      <4> QED
        BY <2>1, <4>1, <1>1, <1>3 DEF CountStep
    <3>2. CASE WithinLimit(count) /\ count = Cardinality(submissions)
      BY <2>1, <2>3, <3>2 DEF CountStep, WithinLimit
    <3>3. CASE WithinLimit(count) /\ count # Cardinality(submissions)
      <4>1. GoTo(h, "save") /\ failed' = failed + 1
        BY <2>3, <3>3 DEF Fails
      <4> QED
        BY <2>1, <4>1, <1>1, <1>3 DEF CountStep
    <3> QED
      BY <3>1, <3>2, <3>3
  <2> QED
    BY <1>4, <2>2, <2>3 DEF checkFormSubmissionLimit
<1>5. ASSUME NEW h \in Handler, SaveSubmission(h)
      PROVE  CountStep
  <2>1. failed' \in {failed, failed + 1} /\ (Store(h) \/ UNCHANGED submissions)
        /\ h \in Storing /\ (Finish(h) \/ GoTo(h, "mail"))
    BY <1>5 DEF SaveSubmission, Fails, Storing
  <2>2. Storing' \subseteq Storing \ {h}
    BY <2>1, <1>1, <1>2, <1>3
  <2> QED
    BY <2>1, <2>2 DEF CountStep
<1>6. ASSUME NEW h \in Handler, UNCHANGED submissions,
             failed' \in {failed, failed + 1},
             \A g \in Handler \ {h} : serving'[g] = serving[g],
             serving'[h].pc # "save"
      PROVE  CountStep
  BY <1>6, <1>1 DEF CountStep
<1>7. ASSUME NEW h \in Handler,
             \/ \E k \in Key \cup {NoKey} : ReceiveSubmission(h, k)
             \/ getS3FileStreamWithVersionId(h) \/ scanFileStream(h)
             \/ moveS3File(h) \/ deactivateFormRead(h)
             \/ deactivateFormSave(h) \/ sendSubmissionToAdmin(h)
      PROVE  CountStep
  <2>1. UNCHANGED submissions /\ failed' \in {failed, failed + 1}
    BY <1>7 DEF ReceiveSubmission, getS3FileStreamWithVersionId, scanFileStream,
       moveS3File, deactivateFormRead, deactivateFormSave,
       sendSubmissionToAdmin, Fails
  <2>2. \/ Finish(h) \/ GoTo(h, "move")
        \/ \E r : r.pc # "save" /\ serving' = [serving EXCEPT ![h] = r]
    <3>1. ASSUME NEW k \in Key \cup {NoKey}, ReceiveSubmission(h, k)
          PROVE  \E r : r.pc # "save" /\ serving' = [serving EXCEPT ![h] = r]
      <4> DEFINE r == [pc |-> IF k = NoKey THEN "ensure" ELSE "scan",
                       id |-> received + 1, status |-> status, key |-> k,
                       file |-> NoFile]
      <4>1. r.pc # "save" /\ serving' = [serving EXCEPT ![h] = r]
        BY <3>1 DEF ReceiveSubmission
      <4> QED
        BY <4>1
    <3>2. ASSUME NEW step \in {"scanned", "ensure"}, NEW v,
                 serving' = [serving EXCEPT ![h].pc = step, ![h].file = v]
          PROVE  \E r : r.pc # "save" /\ serving' = [serving EXCEPT ![h] = r]
      <4> DEFINE r == [serving[h] EXCEPT !.pc = step, !.file = v]
      <4>1. r.pc # "save" /\ serving' = [serving EXCEPT ![h] = r]
        BY <3>2, <1>s DEF ServingRecord
      <4> QED
        BY <4>1
    <3>3. ASSUME NEW v, serving' = [serving EXCEPT ![h].pc = "deactivateSave",
                                                   ![h].status = v]
          PROVE  \E r : r.pc # "save" /\ serving' = [serving EXCEPT ![h] = r]
      <4> DEFINE r == [serving[h] EXCEPT !.pc = "deactivateSave", !.status = v]
      <4>1. r.pc # "save" /\ serving' = [serving EXCEPT ![h] = r]
        BY <3>3, <1>s DEF ServingRecord
      <4> QED
        BY <4>1
    <3>4. getS3FileStreamWithVersionId(h) => Finish(h) \/ \E v :
             serving' = [serving EXCEPT ![h].pc = "scanned", ![h].file = v]
      BY DEF getS3FileStreamWithVersionId
    <3>5. moveS3File(h) => Finish(h) \/ \E v :
             serving' = [serving EXCEPT ![h].pc = "ensure", ![h].file = v]
      BY DEF moveS3File
    <3>6. scanFileStream(h) => Finish(h) \/ GoTo(h, "move")
      BY DEF scanFileStream
    <3>7. deactivateFormRead(h) => \E read \in {"PUBLIC", "PRIVATE"} :
             serving' = [serving EXCEPT ![h].pc = "deactivateSave",
                                        ![h].status = read]
      BY DEF deactivateFormRead
    <3>8. deactivateFormSave(h) \/ sendSubmissionToAdmin(h) => Finish(h)
      BY DEF deactivateFormSave, sendSubmissionToAdmin
    <3> QED
      BY <1>7, <3>1, <3>2, <3>3, <3>4, <3>5, <3>6, <3>7, <3>8
  <2>3. /\ serving'[h].pc # "save"
        /\ \A g \in Handler \ {h} : serving'[g] = serving[g]
    BY <2>2, <1>2, <1>3, <1>s
  <2> QED
    BY <2>1, <2>3, <1>6
<1>8. ASSUME UNCHANGED <<submissions, serving, failed>>
      PROVE  CountStep
  BY <1>8 DEF CountStep, Storing, At
<1> QED
  BY <1>4, <1>5, <1>7, <1>8 DEF SubmissionNext, Upload, ChangeStatus,
     submissionVars

\* The bound on the submissions stored is preserved by every step.
LEMMA CountNext ==
    ASSUME CountInv, [SubmissionNext]_submissionVars,
           serving' \in [Handler -> ServingRecord]
    PROVE  CountInv'
<1>1. Storing \in SUBSET Handler /\ Storing' \in SUBSET Handler
  BY DEF Storing
<1>2. /\ Cardinality(submissions) \in Nat /\ failed \in Nat
      /\ IsFiniteSet(submissions) /\ SubmissionLimit \in Nat
      /\ Cardinality(submissions) + Cardinality(Storing)
            <= SubmissionLimit - 1 + Cardinality(Handler) + failed
  BY FS_CardinalityType, SubmissionAssumption DEF CountInv
<1>3. /\ Cardinality(Storing) \in Nat /\ Cardinality(Storing') \in Nat
      /\ Cardinality(Handler) \in Nat
      /\ Cardinality(Storing') <= Cardinality(Handler)
      /\ Storing' \subseteq Storing => Cardinality(Storing') <= Cardinality(Storing)
      /\ \A h \in Handler : Storing' \subseteq Storing \cup {h} =>
            Cardinality(Storing') <= Cardinality(Storing) + 1
      /\ \A h \in Storing : Storing' \subseteq Storing \ {h} =>
            Cardinality(Storing') <= Cardinality(Storing) - 1
  BY <1>1, StoringBounds
<1>4. ASSUME NEW h \in Handler, Store(h)
      PROVE  /\ IsFiniteSet(submissions')
             /\ Cardinality(submissions') <= Cardinality(submissions) + 1
             /\ Cardinality(submissions') \in Nat
  <2>1. /\ IsFiniteSet(submissions')
        /\ Cardinality(submissions')
              \in {Cardinality(submissions), Cardinality(submissions) + 1}
    <3> DEFINE stored == [id |-> serving[h].id, file |-> serving[h].file]
    <3>1. submissions' = submissions \cup {stored}
      BY <1>4 DEF Store
    <3> HIDE DEF stored
    <3>2. /\ IsFiniteSet(submissions \cup {stored})
          /\ Cardinality(submissions \cup {stored})
                \in {Cardinality(submissions), Cardinality(submissions) + 1}
      BY <1>2, FS_AddElement
    <3> QED
      BY <3>1, <3>2
  <2> QED
    BY <2>1, <1>2
<1>5. IsFiniteSet(submissions') /\ failed' \in Nat
  BY <1>2, <1>4, CountSteps DEF CountStep, Storing
<1>6. Cardinality(submissions') + Cardinality(Storing')
         <= SubmissionLimit - 1 + Cardinality(Handler) + failed'
  <2>1. CASE UNCHANGED submissions /\ failed' \in {failed, failed + 1}
                /\ Storing' \subseteq Storing
    BY <2>1, <1>2, <1>3
  <2>2. CASE UNCHANGED <<submissions, failed>>
                /\ Cardinality(submissions) < SubmissionLimit
    BY <2>2, <1>2, <1>3
  <2>3. CASE UNCHANGED submissions /\ failed' = failed + 1
                /\ \E h \in Handler : Storing' \subseteq Storing \cup {h}
    BY <2>3, <1>2, <1>3
  <2>4. ASSUME NEW h \in Storing, Store(h), failed' \in {failed, failed + 1},
               Storing' \subseteq Storing \ {h}
        PROVE  Cardinality(submissions') + Cardinality(Storing')
                  <= SubmissionLimit - 1 + Cardinality(Handler) + failed'
    <3>1. h \in Handler
      BY DEF Storing
    <3>2. Cardinality(Storing') <= Cardinality(Storing) - 1
      BY <1>3, <2>4
    <3> QED
      BY <2>4, <3>1, <3>2, <1>2, <1>3, <1>4
  <2> QED
    BY <2>1, <2>2, <2>3, <2>4, CountSteps DEF CountStep
<1> QED
  BY <1>5, <1>6 DEF CountInv

\* A form takes more submissions than its limit only by those that overlap and
\* by one for each failure, however often it is opened again.
THEOREM LimitAlwaysHolds ==
    SubmissionSpec => []LimitHolds
<1> DEFINE Inv == /\ CleanInv /\ CountInv
                  /\ received \in Nat /\ status \in {"PUBLIC", "PRIVATE"}
<1>1. SubmissionInit => Inv
  <2> SUFFICES ASSUME SubmissionInit
               PROVE  CountInv
    BY CleanInit DEF SubmissionInit
  <2>1. submissions = {} /\ Storing = {} /\ failed = 0
    BY DEF SubmissionInit, Storing, At, Idle
  <2>2. /\ IsFiniteSet({}) /\ Cardinality({}) = 0
        /\ Cardinality(Handler) \in Nat /\ SubmissionLimit \in Nat \ {0}
    BY FS_EmptySet, FS_CardinalityType, SubmissionAssumption
  <2>3. serving \in [Handler -> ServingRecord]
    BY CleanInit DEF CleanInv, FileInv
  <2> QED
    BY <2>1, <2>2, <2>3 DEF CountInv
<1>2. Inv /\ [SubmissionNext]_submissionVars => Inv'
  <2> SUFFICES ASSUME Inv, [SubmissionNext]_submissionVars
               PROVE  Inv'
    OBVIOUS
  <2>1. received' \in Nat /\ status' \in {"PUBLIC", "PRIVATE"}
    BY ScalarsNext
  <2>2. CleanInv'
    BY CleanNext
  <2>3. CountInv'
    BY <2>2, CountNext DEF CleanInv, FileInv
  <2> QED
    BY <2>1, <2>2, <2>3
<1>3. Inv => LimitHolds
  <2> SUFFICES ASSUME CountInv
               PROVE  LimitHolds
    OBVIOUS
  <2>1. Storing \in SUBSET Handler
    BY DEF Storing
  <2>2. /\ Cardinality(Storing) \in Nat /\ Cardinality(Handler) \in Nat
        /\ Cardinality(submissions) \in Nat /\ failed \in Nat
        /\ SubmissionLimit \in Nat
    BY <2>1, StoringBounds, FS_CardinalityType, SubmissionAssumption DEF CountInv
  <2> QED
    BY <2>2 DEF CountInv, LimitHolds
<1> QED
  BY <1>1, <1>2, <1>3, PTL DEF SubmissionSpec

-----------------------------------------------------------------------------
(* Bounces.                                                                 *)

Handling == [pc : {"idle", "notify", "deactivate", "save"}, of : Nat,
             read : BounceDocument, bounces : [Recipient -> Known],
             notified : BOOLEAN, reported : [Recipient -> Known]]

\* The types, with the place of a document apart from whether it exists.
BounceTypes ==
    /\ documents \in Seq(BounceDocument)
    /\ handling \in [BounceHandler -> Handling]
    /\ \A h \in BounceHandler : handling[h].of \in DOMAIN documents
                                                     \cup {NewDocument}
    /\ closedFor \subseteq Known
    /\ {notices, lost} \subseteq Nat
    /\ arrived \in 0 .. MaxNotifications

\* The types in the form the proofs use them are the type invariant.
LEMMA BounceTypesAreTypeOK == BounceTypes <=> BounceTypeOK
<1>1. DOMAIN documents \subseteq Nat
         \/ documents \notin Seq(BounceDocument)
  OBVIOUS
<1>2. BounceTypes => BounceTypeOK
  BY DEF BounceTypes, BounceTypeOK, Handling
<1>3. BounceTypeOK => BounceTypes
  BY <1>1 DEF BounceTypes, BounceTypeOK, Handling, NewDocument
<1> QED
  BY <1>2, <1>3

\* The values a document and a handler start with have their types.
LEMMA FirstDocument == /\ NoDocument \in BounceDocument
                       /\ NotHandling \in Handling
                       /\ NotHandling.of = NewDocument
                       /\ NotHandling.pc = "idle"
                       /\ NoBounces \in [Recipient -> Known]
                       /\ AllPermanent \in [Recipient -> Known]
  BY DEF NoDocument, NotHandling, Handling, BounceDocument, NoBounces,
     AllPermanent, Known, Report, NewDocument

\* Initially every variable has its type.
LEMMA BounceTypesInit == BounceInit => BounceTypes
<1> SUFFICES ASSUME BounceInit PROVE BounceTypes
  OBVIOUS
<1>1. [NoDocument EXCEPT !.bounces = AllPermanent, !.saved = AllPermanent]
        \in BounceDocument
  BY FirstDocument DEF BounceDocument
<1>2. documents \in Seq(BounceDocument)
  <2> DEFINE doc == [NoDocument EXCEPT !.bounces = AllPermanent,
                                       !.saved = AllPermanent]
  <2>1. documents = <<>> \/ documents = <<doc>>
    BY DEF BounceInit
  <2>2. doc \in BounceDocument
    BY <1>1
  <2>3. /\ <<>> \in Seq(BounceDocument)
        /\ Append(<<>>, doc) \in Seq(BounceDocument)
    BY <2>2, EmptySeq, AppendProperties
  <2>4. <<doc>> = Append(<<>>, doc)
    OBVIOUS
  <2> HIDE DEF doc
  <2> QED
    BY <2>1, <2>3, <2>4, Zenon
<1>3. /\ handling \in [BounceHandler -> Handling]
      /\ \A h \in BounceHandler : handling[h].of \in DOMAIN documents
                                                       \cup {NewDocument}
  BY FirstDocument DEF BounceInit
<1> QED
  BY <1>2, <1>3, BounceAssumption DEF BounceInit, BounceTypes

\* A step that changes the state of one handler only, to a typed one.
LEMMA HandlingSet ==
    ASSUME BounceTypes, NEW h \in BounceHandler, NEW r \in Handling,
           r.of \in DOMAIN documents \cup {NewDocument},
           handling' = [handling EXCEPT ![h] = r],
           documents' \in Seq(BounceDocument),
           Len(documents) <= Len(documents')
    PROVE  /\ handling' \in [BounceHandler -> Handling]
           /\ \A g \in BounceHandler : handling'[g].of \in DOMAIN documents'
                                                             \cup {NewDocument}
<1>1. DOMAIN documents \subseteq DOMAIN documents'
  BY DEF BounceTypes
<1> QED
  BY <1>1 DEF BounceTypes

\* What updateBounceInfo makes of a document, and what it keeps of it.
LEMMA Updated ==
    ASSUME NEW n \in Notification, NEW bounces \in [Recipient -> Known]
    PROVE  /\ updateBounceInfo(bounces, n) \in [Recipient -> Known]
           /\ \A r \in Recipient :
                 updateBounceInfo(bounces, n)[r] = "Permanent" =>
                    IF Reports(n, r) THEN n.says = "Permanent"
                    ELSE bounces[r] = "Permanent"
<1>1. n.says \in Known
  BY DEF Notification, Known
<1> QED
  BY <1>1 DEF updateBounceInfo, Known, Report

\* Reading a document, or finding none, preserves the types.
LEMMA ReadTypes ==
    ASSUME BounceTypes, NEW h \in BounceHandler, NEW n \in Notification,
           NEW d \in Present \cup {NewDocument}, ReadBounce(h, n, d)
    PROVE  BounceTypes'
<1> DEFINE doc == IF d = NewDocument THEN NoDocument ELSE documents[d]
           bounces == updateBounceInfo(doc.bounces, n)
           r == [pc |-> IF isCriticalBounce(bounces) THEN "notify" ELSE "save",
                 of |-> d, read |-> doc, bounces |-> bounces,
                 notified |-> doc.notified,
                 reported |-> [q \in Recipient |->
                                 IF Reports(n, q) THEN n.says ELSE "absent"]]
<1>1. doc \in BounceDocument
  BY FirstDocument DEF BounceTypes, Present
<1>2. bounces \in [Recipient -> Known]
  BY <1>1, Updated DEF BounceDocument
<1>3. n.says \in Known
  BY DEF Notification, Known
<1>4. d \in DOMAIN documents \cup {NewDocument} /\ d \in Nat
  BY DEF Present, BounceTypes, NewDocument
<1>5. r \in Handling /\ r.of = d
  <2>1. doc.notified \in BOOLEAN
    BY <1>1 DEF BounceDocument
  <2>2. r.reported \in [Recipient -> Known]
    BY <1>3 DEF Known
  <2> HIDE DEF doc, bounces
  <2> QED
    BY <1>1, <1>2, <1>4, <2>1, <2>2 DEF Handling
<1>6. /\ handling' = [handling EXCEPT ![h] = r] \/ UNCHANGED handling
      /\ UNCHANGED <<documents, closedFor, notices>>
      /\ arrived' = arrived + 1 /\ arrived < MaxNotifications
      /\ lost' \in {lost, lost + 1}
  BY DEF ReadBounce, BounceFails, Loses
<1> HIDE DEF r
<1>7. CASE handling' = [handling EXCEPT ![h] = r]
  <2>1. documents' \in Seq(BounceDocument) /\ Len(documents) <= Len(documents')
    BY <1>6 DEF BounceTypes
  <2> QED
    BY <1>4, <1>5, <1>6, <1>7, <2>1, HandlingSet, BounceAssumption DEF BounceTypes
<1>8. CASE UNCHANGED handling
  BY <1>6, <1>8, BounceAssumption DEF BounceTypes
<1> QED
  BY <1>6, <1>7, <1>8

\* Notifying and closing preserve the types and leave the documents alone.
LEMMA StepTypes ==
    ASSUME BounceTypes, NEW h \in BounceHandler,
           sendBounceNotification(h) \/ deactivateForm(h)
    PROVE  /\ BounceTypes' /\ UNCHANGED documents
           /\ \E step \in {"deactivate", "save"}, told \in BOOLEAN :
                 handling' = [handling EXCEPT ![h] =
                    [handling[h] EXCEPT !.pc = step, !.notified = told]]
<1>1. PICK step \in {"deactivate", "save"}, told \in BOOLEAN :
         handling' = [handling EXCEPT ![h] =
            [handling[h] EXCEPT !.pc = step, !.notified = told]]
  <2>1. handling[h] \in Handling
    BY DEF BounceTypes
  <2>2. CASE sendBounceNotification(h)
    <3> DEFINE step == IF areAllPermanentBounces(handling[h].bounces)
                       THEN "deactivate" ELSE "save"
    <3>1. PICK told \in BOOLEAN :
            handling' = [handling EXCEPT ![h].notified = told, ![h].pc = step]
      BY <2>2 DEF sendBounceNotification, Told
    <3>2. step \in {"deactivate", "save"}
      OBVIOUS
    <3> HIDE DEF step
    <3>3. handling' = [handling EXCEPT ![h] =
             [handling[h] EXCEPT !.pc = step, !.notified = told]]
      BY <2>1, <3>1 DEF BounceTypes, Handling
    <3> QED
      BY <3>2, <3>3
  <2>3. CASE deactivateForm(h)
    <3>1. handling' = [handling EXCEPT ![h] =
             [handling[h] EXCEPT !.pc = "save",
                                 !.notified = handling[h].notified]]
      BY <2>1, <2>3 DEF deactivateForm, HandleNext, BounceTypes, Handling
    <3> QED
      BY <2>1, <3>1 DEF Handling
  <2> QED
    BY <2>2, <2>3
<1> DEFINE r == [handling[h] EXCEPT !.pc = step, !.notified = told]
<1>2. r \in Handling /\ r.of \in DOMAIN documents \cup {NewDocument}
  BY DEF BounceTypes, Handling
<1>3. /\ UNCHANGED <<documents, arrived>>
      /\ notices' \in {notices, notices + 1} /\ lost' \in {lost, lost + 1}
  BY DEF sendBounceNotification, deactivateForm, BounceFails, Loses
<1>4. closedFor' \subseteq Known
  <2>1. \A q \in Recipient : LastReport(h, q, handling[h].read.saved) \in Known
    BY DEF LastReport, BounceTypes, Handling, BounceDocument
  <2>2. CASE sendBounceNotification(h)
    BY <2>2 DEF sendBounceNotification, BounceTypes
  <2>3. CASE deactivateForm(h)
    BY <2>1, <2>3 DEF deactivateForm, Recipients
  <2> QED
    BY <2>2, <2>3
<1>5. documents' \in Seq(BounceDocument) /\ Len(documents) <= Len(documents')
  BY <1>3 DEF BounceTypes
<1>6. handling' = [handling EXCEPT ![h] = r]
  BY <1>1
<1> HIDE DEF r
<1>7. BounceTypes'
  BY <1>2, <1>3, <1>4, <1>5, <1>6, HandlingSet DEF BounceTypes
<1> QED
  BY <1>1, <1>3, <1>7

\* The save preserves the types and ends the handling.
LEMMA SaveTypes ==
    ASSUME BounceTypes, NEW h \in BounceHandler, saveBounceDoc(h)
    PROVE  /\ BounceTypes'
           /\ handling' = [handling EXCEPT ![h] = NotHandling]
<1>1. handling[h] \in Handling /\ handling[h].of \in DOMAIN documents
                                                      \cup {NewDocument}
  BY DEF BounceTypes
<1>2. /\ handling' = [handling EXCEPT ![h] = NotHandling]
      /\ UNCHANGED <<closedFor, notices, arrived>>
      /\ lost' \in {lost, lost + 1}
  BY DEF saveBounceDoc, StopHandling, Insert, Update, NotFound, BounceFails,
     Loses
<1>3. documents' \in Seq(BounceDocument) /\ Len(documents) <= Len(documents')
  <2>1. CASE UNCHANGED documents
    BY <2>1 DEF BounceTypes
  <2>2. CASE Insert(h)
    <3>1. Saved(h) \in BounceDocument
      BY <1>1 DEF Saved, Handling, BounceDocument
    <3> QED
      BY <2>2, <3>1 DEF Insert, BounceTypes
  <2>3. CASE Update(h)
    <3>1. PICK d \in DOMAIN documents : d = handling[h].of
      BY <1>1, <2>3 DEF Update
    <3>2. documents[d] \in BounceDocument
      BY DEF BounceTypes
    <3>3. \A r \in Recipient : LastReport(h, r, documents[d].saved) \in Known
      BY <1>1, <3>2 DEF LastReport, Handling, BounceDocument
    <3> DEFINE new ==
          [version |-> documents[d].version
                          + (IF BouncesChanged(h) THEN 1 ELSE 0),
           bounces |-> IF BouncesChanged(h) THEN handling[h].bounces
                       ELSE documents[d].bounces,
           notified |-> IF handling[h].notified # handling[h].read.notified
                        THEN handling[h].notified ELSE documents[d].notified,
           removed |-> FALSE,
           saved |-> IF BouncesChanged(h)
                     THEN [r \in Recipient |->
                             LastReport(h, r, documents[d].saved)]
                     ELSE documents[d].saved]
    <3>4. documents' = [documents EXCEPT ![d] = new]
      BY <2>3, <3>1 DEF Update
    <3>5. new \in BounceDocument
      BY <1>1, <3>2, <3>3 DEF Handling, BounceDocument
    <3> HIDE DEF new
    <3> QED
      BY <3>4, <3>5 DEF BounceTypes
  <2> QED
    BY <2>1, <2>2, <2>3 DEF saveBounceDoc, NotFound
<1> QED
  BY <1>2, <1>3, HandlingSet, FirstDocument DEF BounceTypes

\* Every step preserves the types.
LEMMA BounceTypesNext == BounceTypes /\ [BounceNext]_bounceVars => BounceTypes'
<1> SUFFICES ASSUME BounceTypes, [BounceNext]_bounceVars PROVE BounceTypes'
  OBVIOUS
<1>1. ASSUME NEW h \in BounceHandler, NEW n \in Notification,
             NEW d \in Present \cup {NewDocument}, ReadBounce(h, n, d)
      PROVE  BounceTypes'
  BY <1>1, ReadTypes
<1>2. ASSUME NEW h \in BounceHandler,
             sendBounceNotification(h) \/ deactivateForm(h)
      PROVE  BounceTypes'
  BY <1>2, StepTypes
<1>3. ASSUME NEW h \in BounceHandler, saveBounceDoc(h) PROVE BounceTypes'
  BY <1>3, SaveTypes
<1>4. ASSUME NEW h \in BounceHandler, Crash(h) PROVE BounceTypes'
  <2>1. documents' \in Seq(BounceDocument) /\ Len(documents) <= Len(documents')
    BY <1>4 DEF Crash, BounceTypes
  <2>2. handling' = [handling EXCEPT ![h] = NotHandling]
    BY <1>4 DEF Crash, StopHandling
  <2> QED
    BY <1>4, <2>1, <2>2, HandlingSet, FirstDocument
    DEF Crash, BounceFails, Loses, BounceTypes
<1>5. ASSUME NEW d \in DOMAIN documents, Expire(d) PROVE BounceTypes'
  <2>1. [NoDocument EXCEPT !.removed = TRUE] \in BounceDocument
    BY FirstDocument DEF BounceDocument
  <2>2. documents' \in Seq(BounceDocument) /\ Len(documents') = Len(documents)
    BY <1>5, <2>1 DEF Expire, BounceTypes
  <2> QED
    BY <1>5, <2>2 DEF Expire, BounceTypes
<1>6. CASE UNCHANGED bounceVars
  BY <1>6 DEF bounceVars, BounceTypes
<1> QED
  BY <1>1, <1>2, <1>3, <1>4, <1>5, <1>6 DEF BounceNext

\* Every variable has its type, however many notifications are handled.
THEOREM BounceTypeCorrect == BounceSpec => []BounceTypeOK
<1>1. BounceSpec => []BounceTypes
  BY BounceTypesInit, BounceTypesNext, PTL DEF BounceSpec
<1> QED
  BY <1>1, BounceTypesAreTypeOK, PTL

-----------------------------------------------------------------------------

\* A document shows a permanent bounce only where one was reported last.
Backed(doc) ==
    \A r \in Recipient :
        doc.bounces[r] = "Permanent" => doc.saved[r] = "Permanent"

\* What handler h has made of the bounces goes back to a last report.
Reported(h) ==
    \A r \in Recipient :
        handling[h].bounces[r] = "Permanent"
            => LastReport(h, r, handling[h].read.saved) = "Permanent"

\* As long as its version stays, a document is what handler h has read.
Versioned(h) ==
    LET d == handling[h].of
    IN  IF d = NewDocument
        THEN handling[h].read.saved = NoBounces
        ELSE \/ documents[d].removed
             \/ documents[d].version > handling[h].read.version
             \/ /\ documents[d].version = handling[h].read.version
                /\ documents[d].saved = handling[h].read.saved

BounceInv ==
    /\ BounceTypes
    /\ \A d \in DOMAIN documents : Backed(documents[d])
    /\ \A h \in BounceHandler :
          ~HandlingAt(h, "idle") => Reported(h) /\ Versioned(h)
    /\ \A h \in BounceHandler :
          HandlingAt(h, "deactivate")
              => areAllPermanentBounces(handling[h].bounces)
    /\ DeactivationJustified

\* What a step may do to a stored document: what was last reported comes with
\* a new version, and a document that has been removed stays so.
DocumentKept(old, new) ==
    \/ new.removed
    \/ /\ ~old.removed
       /\ \/ new.version = old.version /\ new.saved = old.saved
          \/ new.version > old.version

DocumentsKept ==
    /\ DOMAIN documents \subseteq DOMAIN documents'
    /\ \A d \in DOMAIN documents : DocumentKept(documents[d], documents'[d])
    /\ \A d \in DOMAIN documents' : Backed(documents'[d])

\* While handler h does not move, its document changes only with its version.
LEMMA VersionedNext ==
    ASSUME BounceTypes, BounceTypes', DocumentsKept, NEW h \in BounceHandler,
           Versioned(h),
           handling'[h].of = handling[h].of,
           handling'[h].read = handling[h].read
    PROVE  Versioned(h)'
<1>1. CASE handling[h].of = NewDocument
  BY <1>1 DEF Versioned
<1>2. CASE handling[h].of # NewDocument
  <2>1. PICK d \in DOMAIN documents : d = handling[h].of
    BY <1>2 DEF BounceTypes
  <2>2. /\ documents[d] \in BounceDocument /\ documents'[d] \in BounceDocument
        /\ handling[h].read \in BounceDocument
    BY DEF BounceTypes, DocumentsKept, Handling
  <2> QED
    BY <1>2, <2>1, <2>2 DEF Versioned, DocumentsKept, DocumentKept, BounceDocument
<1> QED
  BY <1>1, <1>2

\* What a handler that does not move has been told stays as it is.
LEMMA ReportedNext ==
    ASSUME NEW h \in BounceHandler, Reported(h),
           handling'[h].read = handling[h].read,
           handling'[h].bounces = handling[h].bounces,
           handling'[h].reported = handling[h].reported
    PROVE  Reported(h)'
  BY DEF Reported, LastReport

\* The other handlers keep what they know.
LEMMA OthersNext ==
    ASSUME BounceInv, BounceTypes', DocumentsKept, NEW g \in BounceHandler,
           handling'[g] = handling[g]
    PROVE  /\ ~HandlingAt(g, "idle")' => Reported(g)' /\ Versioned(g)'
           /\ HandlingAt(g, "deactivate")'
                 => areAllPermanentBounces(handling'[g].bounces)
<1>1. CASE ~HandlingAt(g, "idle")
  BY <1>1, VersionedNext, ReportedNext DEF BounceInv, HandlingAt
<1>2. CASE HandlingAt(g, "idle")
  BY <1>2 DEF HandlingAt
<1> QED
  BY <1>1, <1>2

\* A step that writes no document keeps them all.
LEMMA SameDocuments ==
    ASSUME BounceInv, UNCHANGED documents
    PROVE  DocumentsKept
<1>1. \A d \in DOMAIN documents : documents[d] \in BounceDocument
  BY DEF BounceInv, BounceTypes
<1> QED
  BY <1>1 DEF BounceInv, DocumentsKept, DocumentKept, BounceDocument, Backed

\* Inserting a document keeps those that were there.
LEMMA InsertKeeps ==
    ASSUME BounceInv, NEW h \in BounceHandler, HandlingAt(h, "save"), Insert(h)
    PROVE  DocumentsKept
<1>1. /\ documents \in Seq(BounceDocument)
      /\ handling[h] \in Handling
  BY DEF BounceInv, BounceTypes
<1>2. Saved(h) \in BounceDocument
  BY <1>1 DEF Saved, Handling, BounceDocument
<1>3. /\ DOMAIN documents' = 1 .. Len(documents) + 1
      /\ DOMAIN documents = 1 .. Len(documents)
      /\ \A d \in DOMAIN documents : documents'[d] = documents[d]
      /\ documents'[Len(documents) + 1] = Saved(h)
  BY <1>1, <1>2 DEF Insert
<1>4. Backed(Saved(h))
  <2>1. Reported(h) /\ handling[h].read.saved = NoBounces
    BY DEF BounceInv, Versioned, HandlingAt, Insert
  <2>2. \A r \in Recipient : NoBounces[r] = "absent"
    BY DEF NoBounces
  <2> QED
    BY <2>1, <2>2 DEF Backed, Saved, Reported, LastReport
<1>5. \A d \in DOMAIN documents : DocumentKept(documents[d], documents'[d])
  BY <1>1, <1>3 DEF DocumentKept, BounceDocument
<1>6. ASSUME NEW d \in DOMAIN documents' PROVE Backed(documents'[d])
  <2>1. d \in DOMAIN documents \/ d = Len(documents) + 1
    BY <1>1, <1>3
  <2> QED
    BY <1>3, <1>4, <2>1 DEF BounceInv
<1> QED
  BY <1>1, <1>3, <1>5, <1>6 DEF DocumentsKept

\* Updating a document increments its version and keeps the others.
LEMMA UpdateKeeps ==
    ASSUME BounceInv, NEW h \in BounceHandler, HandlingAt(h, "save"), Update(h)
    PROVE  DocumentsKept
<1>1. PICK d \in DOMAIN documents : d = handling[h].of
  BY DEF Update, BounceInv, BounceTypes
<1>2. /\ documents \in Seq(BounceDocument) /\ documents[d] \in BounceDocument
      /\ handling[h] \in Handling /\ ~documents[d].removed
      /\ d # NewDocument
  BY <1>1 DEF BounceInv, BounceTypes, Update, Found, Present
<1> DEFINE changed == BouncesChanged(h)
           new == documents'[d]
<1>3. /\ DOMAIN documents' = DOMAIN documents
      /\ \A e \in DOMAIN documents \ {d} : documents'[e] = documents[e]
      /\ new.removed = FALSE
      /\ new.version = documents[d].version + (IF changed THEN 1 ELSE 0)
      /\ new.bounces = IF changed THEN handling[h].bounces
                       ELSE documents[d].bounces
      /\ new.saved = IF changed
                     THEN [r \in Recipient |->
                             LastReport(h, r, documents[d].saved)]
                     ELSE documents[d].saved
  BY <1>1, <1>2 DEF Update
<1>4. DocumentKept(documents[d], new)
  BY <1>2, <1>3 DEF DocumentKept, BounceDocument
<1>5. Backed(new)
  <2>1. CASE ~changed
    BY <1>3, <2>1 DEF BounceInv, Backed
  <2>2. CASE changed
    <3>1. documents[d].version = handling[h].read.version
      BY <1>1, <2>2 DEF Update, Found, SameBounceVersion
    <3>2. documents[d].saved = handling[h].read.saved
      BY <1>1, <1>2, <3>1
      DEF BounceInv, Versioned, HandlingAt, BounceDocument
    <3>3. Reported(h)
      BY DEF BounceInv, HandlingAt
    <3> QED
      BY <1>3, <2>2, <3>2, <3>3 DEF Backed, Reported
  <2> QED
    BY <2>1, <2>2
<1> HIDE DEF new
<1>6. \A e \in DOMAIN documents : DocumentKept(documents[e], documents'[e])
  <2>1. \A e \in DOMAIN documents : documents[e] \in BounceDocument
    BY <1>2
  <2> QED
    BY <1>3, <1>4, <2>1 DEF DocumentKept, BounceDocument, new
<1> QED
  BY <1>3, <1>5, <1>6 DEF DocumentsKept, BounceInv, new

\* A document that expires is removed, and the others are kept.
LEMMA ExpireKeeps ==
    ASSUME BounceInv, NEW d \in DOMAIN documents, Expire(d)
    PROVE  DocumentsKept
<1>1. /\ documents \in Seq(BounceDocument)
      /\ \A e \in DOMAIN documents : documents[e] \in BounceDocument
  BY DEF BounceInv, BounceTypes
<1>2. /\ DOMAIN documents' = DOMAIN documents
      /\ documents'[d] = [NoDocument EXCEPT !.removed = TRUE]
      /\ \A e \in DOMAIN documents \ {d} : documents'[e] = documents[e]
  BY <1>1 DEF Expire
<1>3. documents'[d].removed /\ Backed(documents'[d])
  BY <1>2 DEF NoDocument, Backed, NoBounces
<1> QED
  BY <1>1, <1>2, <1>3 DEF DocumentsKept, DocumentKept, BounceDocument, BounceInv

\* Initially no handler has read anything and no form is closed.
LEMMA BounceInvInit == BounceInit => BounceInv
<1> SUFFICES ASSUME BounceInit PROVE BounceInv
  OBVIOUS
<1>1. \A d \in DOMAIN documents : Backed(documents[d])
  <2> DEFINE doc == [NoDocument EXCEPT !.bounces = AllPermanent,
                                       !.saved = AllPermanent]
  <2>1. Backed(doc)
    BY DEF Backed, NoDocument
  <2>2. documents = <<>> \/ documents = <<doc>>
    BY DEF BounceInit
  <2> HIDE DEF doc
  <2> QED
    BY <2>1, <2>2
<1>2. \A h \in BounceHandler : HandlingAt(h, "idle")
  BY DEF BounceInit, HandlingAt, NotHandling
<1> QED
  BY <1>1, <1>2, BounceTypesInit
  DEF BounceInv, BounceInit, HandlingAt, DeactivationJustified

\* What handler h has become, when it has moved and the others have not.
Becomes(h) ==
    /\ \A g \in BounceHandler \ {h} : handling'[g] = handling[g]
    /\ ~HandlingAt(h, "idle")' => Reported(h)' /\ Versioned(h)'
    /\ HandlingAt(h, "deactivate")'
          => areAllPermanentBounces(handling'[h].bounces)

\* A step of one handler that keeps the documents preserves the invariant.
LEMMA BecomesNext ==
    ASSUME BounceInv, BounceTypes', DocumentsKept, NEW h \in BounceHandler,
           Becomes(h), DeactivationJustified'
    PROVE  BounceInv'
<1>1. \A g \in BounceHandler :
         /\ ~HandlingAt(g, "idle")' => Reported(g)' /\ Versioned(g)'
         /\ HandlingAt(g, "deactivate")'
               => areAllPermanentBounces(handling'[g].bounces)
  BY OthersNext DEF Becomes
<1>2. \A d \in DOMAIN documents' : Backed(documents'[d])
  BY DEF DocumentsKept
<1>3. \A d \in DOMAIN documents' : Backed(documents[d])'
  BY <1>2 DEF Backed
<1>4. \A g \in BounceHandler :
         HandlingAt(g, "deactivate")'
             => areAllPermanentBounces(handling[g].bounces)'
  BY <1>1 DEF areAllPermanentBounces, Recipients
<1> QED
  BY <1>1, <1>3, <1>4 DEF BounceInv

\* A handler that has read a document.
LEMMA ReadBounceInv ==
    ASSUME BounceInv, NEW h \in BounceHandler, NEW n \in Notification,
           NEW d \in Present \cup {NewDocument}, ReadBounce(h, n, d)
    PROVE  BounceInv'
<1> DEFINE doc == IF d = NewDocument THEN NoDocument ELSE documents[d]
           bounces == updateBounceInfo(doc.bounces, n)
<1>1. BounceTypes' /\ DocumentsKept
  BY ReadTypes, SameDocuments DEF BounceInv, ReadBounce
<1>2. doc \in BounceDocument /\ Backed(doc)
  BY FirstDocument DEF BounceInv, BounceTypes, Present, Backed, NoDocument, NoBounces
<1>3. handling \in [BounceHandler -> Handling]
  BY DEF BounceInv, BounceTypes
<1>4. CASE UNCHANGED handling
  BY <1>1, <1>3, <1>4, BecomesNext, OthersNext
  DEF Becomes, BounceInv, ReadBounce, DeactivationJustified
<1>5. CASE ~UNCHANGED handling
  <2>1. /\ handling'[h].pc \in {"notify", "save"}
        /\ handling'[h].of = d /\ handling'[h].read = doc
        /\ handling'[h].bounces = bounces
        /\ handling'[h].reported =
              [r \in Recipient |-> IF Reports(n, r) THEN n.says ELSE "absent"]
        /\ \A g \in BounceHandler \ {h} : handling'[g] = handling[g]
    BY <1>3, <1>5 DEF ReadBounce
  <2>2. Reported(h)'
    <3>1. \A r \in Recipient : bounces[r] = "Permanent" =>
             IF Reports(n, r) THEN n.says = "Permanent"
             ELSE doc.saved[r] = "Permanent"
      BY <1>2, Updated DEF Backed, BounceDocument
    <3>2. n.says # "absent"
      BY DEF Notification, Report
    <3>3. \A r \in Recipient :
             LastReport(h, r, handling[h].read.saved)'
                = IF Reports(n, r) THEN n.says ELSE doc.saved[r]
      BY <2>1, <3>2 DEF LastReport
    <3> HIDE DEF bounces, doc
    <3> QED
      BY <2>1, <3>1, <3>3 DEF Reported
  <2>3. Versioned(h)'
    <3>1. CASE d = NewDocument
      BY <2>1, <3>1 DEF Versioned, NoDocument
    <3>2. CASE d # NewDocument
      BY <2>1, <3>2 DEF Versioned, ReadBounce
    <3> QED
      BY <3>1, <3>2
  <2>4. DeactivationJustified'
    BY DEF BounceInv, ReadBounce, DeactivationJustified
  <2>5. Becomes(h)
    BY <2>1, <2>2, <2>3 DEF Becomes, HandlingAt
  <2> QED
    BY <1>1, <2>4, <2>5, BecomesNext
<1> QED
  BY <1>4, <1>5

\* A handler that tells the editors, or closes the form.
LEMMA StepBounceInv ==
    ASSUME BounceInv, NEW h \in BounceHandler,
           sendBounceNotification(h) \/ deactivateForm(h)
    PROVE  BounceInv'
<1>1. BounceTypes' /\ DocumentsKept
  BY StepTypes, SameDocuments DEF BounceInv
<1>2. PICK step \in {"deactivate", "save"}, told \in BOOLEAN :
         handling' = [handling EXCEPT ![h] =
            [handling[h] EXCEPT !.pc = step, !.notified = told]]
  BY StepTypes DEF BounceInv
<1>3. /\ handling'[h].of = handling[h].of
      /\ handling'[h].read = handling[h].read
      /\ handling'[h].bounces = handling[h].bounces
      /\ handling'[h].reported = handling[h].reported
      /\ \A g \in BounceHandler \ {h} : handling'[g] = handling[g]
  BY <1>2 DEF BounceInv, BounceTypes, Handling
<1>4. Reported(h) /\ Versioned(h)
  BY DEF BounceInv, HandlingAt, sendBounceNotification, deactivateForm
<1>5. Reported(h)' /\ Versioned(h)'
  BY <1>1, <1>3, <1>4, ReportedNext, VersionedNext DEF BounceInv
<1>6. HandlingAt(h, "deactivate")'
         => areAllPermanentBounces(handling'[h].bounces)
  <2>1. CASE sendBounceNotification(h)
    <3>1. ~areAllPermanentBounces(handling[h].bounces)
             => handling'[h].pc = "save"
      BY <2>1 DEF sendBounceNotification, Told, BounceInv, BounceTypes, Handling
    <3> QED
      BY <1>3, <3>1 DEF HandlingAt, areAllPermanentBounces, Recipients
  <2>2. CASE deactivateForm(h)
    BY <2>2 DEF deactivateForm, HandleNext, HandlingAt, BounceInv, BounceTypes,
       Handling
  <2> QED
    BY <2>1, <2>2
<1>7. DeactivationJustified'
  <2>1. CASE sendBounceNotification(h)
    BY <2>1 DEF sendBounceNotification, BounceInv, DeactivationJustified
  <2>2. CASE deactivateForm(h)
    <3>1. areAllPermanentBounces(handling[h].bounces)
      BY <2>2 DEF deactivateForm, BounceInv
    <3>2. \A r \in Recipients(handling[h].bounces) :
             LastReport(h, r, handling[h].read.saved) = "Permanent"
      BY <1>4, <3>1 DEF Reported, areAllPermanentBounces, Recipients
    <3> QED
      BY <2>2, <3>2 DEF deactivateForm, DeactivationJustified
  <2> QED
    BY <2>1, <2>2
<1> QED
  BY <1>1, <1>3, <1>5, <1>6, <1>7, BecomesNext DEF Becomes

\* A handler that ends.
LEMMA EndBounceInv ==
    ASSUME BounceInv, NEW h \in BounceHandler, saveBounceDoc(h) \/ Crash(h)
    PROVE  BounceInv'
<1>1. BounceTypes'
  BY BounceTypesNext DEF BounceInv, BounceNext
<1>2. DocumentsKept
  BY SameDocuments, InsertKeeps, UpdateKeeps
  DEF saveBounceDoc, NotFound, Crash
<1>3. handling' = [handling EXCEPT ![h] = NotHandling]
  BY DEF saveBounceDoc, Crash, StopHandling
<1>4. Becomes(h)
  BY <1>3 DEF BounceInv, BounceTypes, Becomes, HandlingAt, NotHandling
<1>5. DeactivationJustified'
  BY DEF saveBounceDoc, Crash, BounceInv, DeactivationJustified
<1> QED
  BY <1>1, <1>2, <1>4, <1>5, BecomesNext

\* The inductive invariant.
THEOREM BouncesVersioned == BounceSpec => []BounceInv
<1>1. BounceInv /\ [BounceNext]_bounceVars => BounceInv'
  <2> SUFFICES ASSUME BounceInv, [BounceNext]_bounceVars PROVE BounceInv'
    OBVIOUS
  <2>1. ASSUME NEW h \in BounceHandler, NEW n \in Notification,
               NEW d \in Present \cup {NewDocument}, ReadBounce(h, n, d)
        PROVE  BounceInv'
    BY <2>1, ReadBounceInv
  <2>2. ASSUME NEW h \in BounceHandler,
               sendBounceNotification(h) \/ deactivateForm(h)
        PROVE  BounceInv'
    BY <2>2, StepBounceInv
  <2>3. ASSUME NEW h \in BounceHandler, saveBounceDoc(h) \/ Crash(h)
        PROVE  BounceInv'
    BY <2>3, EndBounceInv
  <2>4. ASSUME UNCHANGED <<handling, closedFor>>, DocumentsKept
        PROVE  BounceInv'
    <3>1. BounceTypes'
      BY BounceTypesNext DEF BounceInv
    <3>2. DeactivationJustified'
      BY <2>4 DEF BounceInv, DeactivationJustified
    <3>3. \A g \in BounceHandler :
             /\ ~HandlingAt(g, "idle")' => Reported(g)' /\ Versioned(g)'
             /\ HandlingAt(g, "deactivate")'
                   => areAllPermanentBounces(handling'[g].bounces)
      BY <2>4, <3>1, OthersNext
    <3>4. \A d \in DOMAIN documents' : Backed(documents[d])'
      BY <2>4 DEF DocumentsKept, Backed
    <3>5. \A g \in BounceHandler :
             HandlingAt(g, "deactivate")'
                 => areAllPermanentBounces(handling[g].bounces)'
      BY <3>3 DEF areAllPermanentBounces, Recipients
    <3> QED
      BY <3>1, <3>2, <3>3, <3>4, <3>5 DEF BounceInv
  <2>5. ASSUME NEW d \in DOMAIN documents, Expire(d) PROVE BounceInv'
    BY <2>4, <2>5, ExpireKeeps DEF Expire
  <2>6. CASE UNCHANGED bounceVars
    BY <2>4, <2>6, SameDocuments DEF bounceVars
  <2> QED
    BY <2>1, <2>2, <2>3, <2>5, <2>6 DEF BounceNext
<1> QED
  BY BounceInvInit, <1>1, PTL DEF BounceSpec

\* Whatever the order and the overlap of the notifications, a form is closed
\* only if of every recipient of the mail the last report that counts is a
\* permanent bounce.
THEOREM DeactivationsJustified == BounceSpec => []DeactivationJustified
<1>1. BounceInv => DeactivationJustified
  BY DEF BounceInv
<1> QED
  BY BouncesVersioned, <1>1, PTL

-----------------------------------------------------------------------------
(* The number of notices.                                                   *)

\* Nobody who reads document d from now on tells the editors.
Settled(d) == d \in DOMAIN documents
              /\ (documents[d].notified \/ documents[d].removed)

\* Handler h has read document d, and may yet tell the editors of it.
MayTell(h, d) == handling[h].of = d /\ HandlingAt(h, "notify")
                 /\ ~handling[h].read.notified

\* Handler h has told the editors of document d, and has not saved that.
HasTold(h, d) == handling[h].of = d /\ handling[h].notified
                 /\ ~handling[h].read.notified

\* The notices that can have been sent: for each document one by each
\* handler, once the handler has told or can no longer read the document
\* before anyone has; for NewDocument by the handlers that hold its notice.
Spent == {p \in (DOMAIN documents \cup {NewDocument}) \X BounceHandler :
             ~MayTell(p[2], p[1]) /\ (Settled(p[1]) \/ HasTold(p[2], p[1]))}

\* What a handler knows of the notices: it is told of no document that has
\* not been told already, and forgets no notice that it has read of.
Noticing(h) ==
    /\ HandlingAt(h, "idle") => handling[h] = NotHandling
    /\ HandlingAt(h, "notify")
          => handling[h].notified = handling[h].read.notified
    /\ handling[h].read.notified => handling[h].notified
    /\ handling[h].of = NewDocument => ~handling[h].read.notified

NoticesInv == /\ BounceTypes
              /\ \A h \in BounceHandler : Noticing(h)
              /\ notices <= Cardinality(Spent) + lost

\* There are only finitely many spent pairs.
LEMMA SpentFinite == ASSUME BounceTypes PROVE IsFiniteSet(Spent)
<1>1. IsFiniteSet(1 .. Len(documents)) /\ DOMAIN documents = 1 .. Len(documents)
  BY FS_Interval DEF BounceTypes
<1>2. IsFiniteSet(DOMAIN documents \cup {NewDocument})
  BY <1>1, FS_AddElement
<1>3. IsFiniteSet((DOMAIN documents \cup {NewDocument}) \X BounceHandler)
  BY <1>2, FS_Product, BounceAssumption
<1> QED
  BY <1>3, FS_Subset DEF Spent

\* A step may lose one of the notices that are spent, and gain others.
LEMMA SpentMoves ==
    ASSUME NEW S, IsFiniteSet(S), NEW T, IsFiniteSet(T), NEW p
    PROVE  /\ S \subseteq T => Cardinality(S) <= Cardinality(T)
           /\ S \ {p} \subseteq T => Cardinality(S) <= Cardinality(T) + 1
           /\ S \subseteq T /\ p \in T \ S
                 => Cardinality(S) + 1 <= Cardinality(T)
           /\ \A q : S \ {p} \subseteq T /\ q \in T \ S
                 => Cardinality(S) <= Cardinality(T)
           /\ Cardinality(S) \in Nat /\ Cardinality(T) \in Nat
<1>1. Cardinality(S) \in Nat /\ Cardinality(T) \in Nat
  BY FS_CardinalityType
<1>2. S \subseteq T => Cardinality(S) <= Cardinality(T)
  BY FS_Subset
<1> DEFINE R == S \ {p}
<1>3. IsFiniteSet(R) /\ Cardinality(R) \in Nat
      /\ Cardinality(S) <= Cardinality(R) + 1
  <2>1. /\ IsFiniteSet(R)
        /\ Cardinality(R) = IF p \in S THEN Cardinality(S) - 1
                            ELSE Cardinality(S)
    BY FS_RemoveElement
  <2>2. Cardinality(R) \in Nat
    BY <2>1, FS_CardinalityType
  <2> HIDE DEF R
  <2> QED
    BY <1>1, <2>1, <2>2
<1>4. S \ {p} \subseteq T => Cardinality(R) <= Cardinality(T)
  BY FS_Subset
<1>5. ASSUME NEW q \in T \ S, NEW U, U \subseteq S, U \subseteq T
      PROVE  Cardinality(U) + 1 <= Cardinality(T) /\ Cardinality(U) \in Nat
  <2>1. IsFiniteSet(U) /\ q \notin U
    BY <1>5, FS_Subset
  <2>2. IsFiniteSet(U \cup {q}) /\ Cardinality(U \cup {q}) = Cardinality(U) + 1
    BY <2>1, FS_AddElement
  <2>3. Cardinality(U \cup {q}) <= Cardinality(T)
    BY <1>5, FS_Subset
  <2> QED
    BY <2>1, <2>2, <2>3, FS_CardinalityType
<1>6. S \subseteq T /\ p \in T \ S => Cardinality(S) + 1 <= Cardinality(T)
  BY <1>5
<1>7. \A q : S \ {p} \subseteq T /\ q \in T \ S
                 => Cardinality(R) + 1 <= Cardinality(T)
  BY <1>5
<1> HIDE DEF R
<1>8. \A a, b, c \in Nat : a <= b + 1 /\ b <= c => a <= c + 1
  OBVIOUS
<1>9. \A a, b, c \in Nat : a <= b + 1 /\ b + 1 <= c => a <= c
  OBVIOUS
<1>10. S \ {p} \subseteq T => Cardinality(S) <= Cardinality(T) + 1
  BY <1>1, <1>3, <1>4, <1>8, Zenon
<1>11. \A q : S \ {p} \subseteq T /\ q \in T \ S
                 => Cardinality(S) <= Cardinality(T)
  BY <1>1, <1>3, <1>7, <1>9, Zenon
<1> QED
  BY <1>1, <1>2, <1>6, <1>10, <1>11, Zenon

\* A step after which no notice of any handler but h has been forgotten.
LEMMA NoticesStep ==
    ASSUME NoticesInv, BounceTypes', NEW h \in BounceHandler, Noticing(h)',
           \A g \in BounceHandler \ {h} : handling'[g] = handling[g],
           \/ Spent \subseteq Spent' /\ notices' = notices
           \/ /\ Spent \subseteq Spent'
              /\ \E p \in Spent' : p \notin Spent
              /\ notices' = notices + 1
           \/ /\ notices' = notices
              /\ \E p, q : Spent \ {p} \subseteq Spent' /\ q \in Spent' \ Spent
           \/ /\ \E p : Spent \ {p} \subseteq Spent'
              /\ notices' = notices /\ lost' = lost + 1
           \/ /\ Spent \subseteq Spent'
              /\ notices' = notices + 1 /\ lost' = lost + 1,
           lost' \in {lost, lost + 1}
    PROVE  NoticesInv'
<1>1. \A g \in BounceHandler : Noticing(g)'
  <2>1. ASSUME NEW g \in BounceHandler \ {h} PROVE Noticing(g)'
    BY <2>1 DEF NoticesInv, Noticing, HandlingAt
  <2> QED
    BY <2>1
<1> DEFINE old == Cardinality(Spent)
           new == Cardinality(Spent')
<1>2. IsFiniteSet(Spent) /\ IsFiniteSet(Spent')
  <2>1. IsFiniteSet(Spent)
    BY SpentFinite DEF NoticesInv
  <2>2. IsFiniteSet(Spent)'
    BY SpentFinite, PTL
  <2> QED
    BY <2>1, <2>2
<1>3. /\ old \in Nat /\ new \in Nat
      /\ Spent \subseteq Spent' => old <= new
      /\ \A p : Spent \ {p} \subseteq Spent' => old <= new + 1
      /\ \A p : Spent \subseteq Spent' /\ p \in Spent' \ Spent
                   => old + 1 <= new
      /\ \A p, q : Spent \ {p} \subseteq Spent' /\ q \in Spent' \ Spent
                   => old <= new
  BY <1>2, SpentMoves
<1>4. /\ notices \in Nat /\ lost \in Nat /\ notices <= old + lost
  BY DEF NoticesInv, BounceTypes
<1>5. /\ Spent \subseteq Spent' /\ notices' = notices
            => notices' <= new + lost'
      /\ Spent \subseteq Spent' /\ (\E p \in Spent' : p \notin Spent)
           /\ notices' = notices + 1
            => notices' <= new + lost'
      /\ notices' = notices
           /\ (\E p, q : Spent \ {p} \subseteq Spent' /\ q \in Spent' \ Spent)
            => notices' <= new + lost'
      /\ (\E p : Spent \ {p} \subseteq Spent')
           /\ notices' = notices /\ lost' = lost + 1
            => notices' <= new + lost'
      /\ Spent \subseteq Spent' /\ notices' = notices + 1 /\ lost' = lost + 1
            => notices' <= new + lost'
  <2> HIDE DEF old, new
  <2> QED
    BY <1>3, <1>4
<1>6. notices' <= new + lost'
  <2> HIDE DEF new
  <2> QED
    BY <1>5, Zenon
<1> QED
  BY <1>1, <1>6 DEF NoticesInv

\* A pair is spent by what its handler and its document are.
LEMMA SpentIs ==
    \A d, h : <<d, h>> \in Spent
                 <=> /\ d \in DOMAIN documents \cup {NewDocument}
                     /\ h \in BounceHandler
                     /\ ~MayTell(h, d) /\ (Settled(d) \/ HasTold(h, d))
  BY DEF Spent

\* The spent pairs are pairs, before and after a step.
LEMMA SpentPairs ==
    /\ \A p \in Spent : p = <<p[1], p[2]>>
    /\ \A p \in Spent' : p = <<p[1], p[2]>>
  BY DEF Spent

\* While the documents stay, or settle, only handler h can lose a notice, and
\* only that of the document it has read.
LEMMA SpentKept ==
    ASSUME BounceTypes, NEW h \in BounceHandler,
           \A g \in BounceHandler \ {h} : handling'[g] = handling[g],
           DOMAIN documents \subseteq DOMAIN documents',
           \A d \in DOMAIN documents : Settled(d) => Settled(d)'
    PROVE  /\ \A d, g : g # h /\ <<d, g>> \in Spent => <<d, g>> \in Spent'
           /\ \A d : <<d, h>> \in Spent /\ <<d, h>> \notin Spent'
                        => \/ MayTell(h, d)'
                           \/ ~Settled(d) /\ HasTold(h, d) /\ ~HasTold(h, d)'
<1>1. \A d, g : <<d, g>> \in Spent'
                 <=> /\ d \in DOMAIN documents' \cup {NewDocument}
                     /\ g \in BounceHandler
                     /\ ~MayTell(g, d)' /\ (Settled(d)' \/ HasTold(g, d)')
  BY DEF Spent
<1>2. \A d : Settled(d) => Settled(d)'
  BY DEF Settled
<1>3. \A d, g : g \in BounceHandler \ {h} =>
         /\ MayTell(g, d)' <=> MayTell(g, d)
         /\ HasTold(g, d)' <=> HasTold(g, d)
  BY DEF MayTell, HasTold, HandlingAt
<1>4. \A d \in DOMAIN documents \cup {NewDocument} :
         d \in DOMAIN documents' \cup {NewDocument}
  OBVIOUS
<1> QED
  BY <1>1, <1>2, <1>3, <1>4, SpentIs

\* Reading preserves the bound on the notices.
LEMMA ReadNotices ==
    ASSUME NoticesInv, NEW h \in BounceHandler, NEW n \in Notification,
           NEW d \in Present \cup {NewDocument}, ReadBounce(h, n, d)
    PROVE  NoticesInv'
<1>1. BounceTypes /\ BounceTypes' /\ handling[h] = NotHandling
  BY ReadTypes DEF NoticesInv, ReadBounce, Noticing
<1>2. /\ lost' \in {lost, lost + 1} /\ UNCHANGED <<documents, notices>>
      /\ \A g \in BounceHandler \ {h} : handling'[g] = handling[g]
  BY <1>1 DEF ReadBounce, BounceFails, Loses, BounceTypes
<1>3. \A e : Settled(e)' <=> Settled(e)
  BY <1>2 DEF Settled
<1>4. CASE UNCHANGED handling
  <2>1. Noticing(h)'
    BY <1>4 DEF NoticesInv, Noticing, HandlingAt
  <2>2. Spent \subseteq Spent'
    BY <1>2, <1>4 DEF Spent, MayTell, HasTold, HandlingAt, Settled
  <2> QED
    BY <1>1, <1>2, <2>1, <2>2, NoticesStep
<1>5. CASE ~UNCHANGED handling
  <2> DEFINE doc == IF d = NewDocument THEN NoDocument ELSE documents[d]
  <2>1. /\ handling'[h].pc \in {"notify", "save"}
        /\ handling'[h].of = d /\ handling'[h].read = doc
        /\ handling'[h].notified = doc.notified
    BY <1>1, <1>5 DEF ReadBounce, BounceTypes
  <2>2. d = NewDocument => ~doc.notified
    BY DEF NoDocument
  <2>3. Noticing(h)'
    BY <2>1, <2>2 DEF Noticing, HandlingAt
  <2>4. \A e : ~HasTold(h, e)
    BY <1>1 DEF HasTold, NotHandling
  <2>5. \A e : MayTell(h, e)' => ~Settled(e)
    <3>1. d # NewDocument => ~documents[d].removed
      BY DEF Present
    <3>2. d = NewDocument => d \notin DOMAIN documents
      BY <1>1 DEF BounceTypes, NewDocument
    <3> HIDE DEF doc
    <3>3. \A e : MayTell(h, e)' => e = d /\ ~doc.notified
      BY <2>1 DEF MayTell
    <3> USE DEF doc
    <3> QED
      BY <3>1, <3>2, <3>3 DEF Settled
  <2>6. Spent \subseteq Spent'
    <3>1. \A e, g : <<e, g>> \in Spent => <<e, g>> \in Spent'
      BY <1>1, <1>2, <1>3, <2>4, <2>5, SpentKept, SpentIs
    <3> QED
      BY <3>1, SpentPairs
  <2> QED
    BY <1>1, <1>2, <2>3, <2>6, NoticesStep
<1> QED
  BY <1>4, <1>5

\* A handler that tells the editors, or closes the form.
LEMMA TellNotices ==
    ASSUME NoticesInv, NEW h \in BounceHandler,
           sendBounceNotification(h) \/ deactivateForm(h)
    PROVE  NoticesInv'
<1>1. PICK step \in {"deactivate", "save"}, told \in BOOLEAN :
         handling' = [handling EXCEPT ![h] =
            [handling[h] EXCEPT !.pc = step, !.notified = told]]
  BY StepTypes DEF NoticesInv
<1>2. /\ BounceTypes /\ BounceTypes' /\ UNCHANGED documents
      /\ handling'[h].of = handling[h].of
      /\ handling'[h].read = handling[h].read
      /\ handling'[h].pc = step /\ handling'[h].notified = told
      /\ \A g \in BounceHandler \ {h} : handling'[g] = handling[g]
  <2>1. BounceTypes /\ BounceTypes' /\ UNCHANGED documents
    BY StepTypes DEF NoticesInv
  <2>2. handling[h] \in Handling
    BY <2>1 DEF BounceTypes
  <2> QED
    BY <1>1, <2>1, <2>2 DEF BounceTypes, Handling
<1>3. /\ \A e : Settled(e)' <=> Settled(e)
      /\ \A e : ~MayTell(h, e)'
  BY <1>2 DEF Settled, MayTell, HandlingAt
<1>4. /\ Noticing(h)
      /\ handling[h].of \in DOMAIN documents \cup {NewDocument}
  BY DEF NoticesInv, BounceTypes
<1>5. /\ handling[h].notified => told
      /\ handling[h].read.notified => told
  <2>1. CASE deactivateForm(h)
    BY <1>2, <1>4, <2>1
    DEF deactivateForm, HandleNext, BounceTypes, Handling, Noticing
  <2>2. CASE sendBounceNotification(h)
    <3>1. hasNotified(h) => told
      BY <1>2, <2>2 DEF sendBounceNotification, Told, BounceTypes, Handling
    <3> QED
      BY <1>4, <2>2, <3>1 DEF sendBounceNotification, hasNotified, Noticing
  <2> QED
    BY <2>1, <2>2
<1>6. Noticing(h)'
  BY <1>2, <1>4, <1>5 DEF Noticing, HandlingAt
<1>7. Spent \subseteq Spent'
  <2>1. \A e : HasTold(h, e) => HasTold(h, e)'
    BY <1>2, <1>5 DEF HasTold
  <2>2. \A e, g : <<e, g>> \in Spent => <<e, g>> \in Spent'
    BY <1>2, <1>3, <2>1, SpentKept
  <2> QED
    BY <2>2, SpentPairs
<1>8. CASE UNCHANGED notices
  <2>1. lost' \in {lost, lost + 1}
    BY DEF sendBounceNotification, deactivateForm, BounceFails, Loses
  <2> QED
    BY <1>2, <1>6, <1>7, <1>8, <2>1, NoticesStep
<1>9. CASE ~UNCHANGED notices
  <2>1. sendBounceNotification(h) /\ ~hasNotified(h)
    BY <1>9 DEF sendBounceNotification, deactivateForm
  <2>2. \/ Told(h, TRUE) /\ notices' = notices + 1 /\ UNCHANGED lost
        \/ notices' = notices + 1 /\ BounceFails
    BY <1>9, <2>1 DEF sendBounceNotification
  <2>3. CASE notices' = notices + 1 /\ BounceFails
    BY <1>2, <1>6, <1>7, <2>3, NoticesStep DEF BounceFails, Loses
  <2>4. CASE Told(h, TRUE) /\ notices' = notices + 1 /\ UNCHANGED lost
    <3> PICK d \in DOMAIN documents \cup {NewDocument} : d = handling[h].of
      BY <1>4
    <3>1. told = TRUE
      <4> DEFINE next == IF areAllPermanentBounces(handling[h].bounces)
                         THEN "deactivate" ELSE "save"
      <4>1. handling' = [handling EXCEPT ![h].notified = TRUE, ![h].pc = next]
        BY <2>4 DEF Told
      <4>2. handling[h] \in Handling
        BY <1>2 DEF BounceTypes
      <4> HIDE DEF next
      <4> QED
        BY <1>2, <4>1, <4>2 DEF BounceTypes, Handling
    <3>2. MayTell(h, d) /\ HasTold(h, d)'
      BY <1>2, <2>1, <3>1
      DEF MayTell, HasTold, sendBounceNotification, hasNotified
    <3>3. <<d, h>> \notin Spent
      BY <3>2, SpentIs
    <3>4. <<d, h>> \in Spent'
      <4>1. d \in DOMAIN documents' \cup {NewDocument}
        BY <1>2, <1>4
      <4>2. \A e, g :
               /\ e \in DOMAIN documents' \cup {NewDocument}
               /\ g \in BounceHandler
               /\ ~MayTell(g, e)' /\ (Settled(e)' \/ HasTold(g, e)')
               => <<e, g>> \in Spent'
        BY DEF Spent
      <4> QED
        BY <1>3, <3>2, <4>1, <4>2
    <3> QED
      BY <1>2, <1>6, <1>7, <2>4, <3>3, <3>4, NoticesStep
  <2> QED
    BY <2>2, <2>3, <2>4
<1> QED
  BY <1>8, <1>9

\* The end of a handler forgets at most the notice that it holds.
LEMMA EndSpent ==
    ASSUME BounceTypes, NEW h \in BounceHandler,
           NEW own \in DOMAIN documents \cup {NewDocument},
           own = handling[h].of,
           handling' = [handling EXCEPT ![h] = NotHandling],
           DOMAIN documents \subseteq DOMAIN documents',
           \A d \in DOMAIN documents : Settled(d) => Settled(d)'
    PROVE  /\ Noticing(h)'
           /\ \A g \in BounceHandler \ {h} : handling'[g] = handling[g]
           /\ Spent \ {<<own, h>>} \subseteq Spent'
           /\ Settled(own)' \/ ~HasTold(h, own)
                 => Spent \subseteq Spent'
<1>1. /\ handling'[h] = NotHandling
      /\ \A g \in BounceHandler \ {h} : handling'[g] = handling[g]
  BY DEF BounceTypes
<1>2. Noticing(h)'
  BY <1>1 DEF Noticing, HandlingAt, NotHandling, NoDocument
<1>3. \A e : ~MayTell(h, e)' /\ ~HasTold(h, e)'
  BY <1>1 DEF MayTell, HasTold, NotHandling, NoDocument, HandlingAt
<1>4. \A e : HasTold(h, e) => e = own
  BY DEF HasTold
<1>5. \A e, g : <<e, g>> \in Spent /\ <<e, g>> # <<own, h>>
                   => <<e, g>> \in Spent'
  BY <1>1, <1>3, <1>4, SpentKept
<1>6. Spent \ {<<own, h>>} \subseteq Spent'
  BY <1>5, SpentPairs
<1>7. Settled(own)' \/ ~HasTold(h, own)
         => Spent \subseteq Spent'
  <2>1. \A e, g : <<e, g>> \in Spent'
                 <=> /\ e \in DOMAIN documents' \cup {NewDocument}
                     /\ g \in BounceHandler
                     /\ ~MayTell(g, e)' /\ (Settled(e)' \/ HasTold(g, e)')
    BY DEF Spent
  <2>2. ASSUME <<own, h>> \in Spent,
               Settled(own)' \/ ~HasTold(h, own)
        PROVE  <<own, h>> \in Spent'
    <3>1. Settled(own)'
      <4>1. Settled(own) => own \in DOMAIN documents
        BY DEF Settled
      <4>2. Settled(own) \/ HasTold(h, own)
        BY <2>2, SpentIs
      <4> QED
        BY <2>2, <4>1, <4>2
    <3> QED
      BY <1>3, <2>1, <3>1
  <2> QED
    BY <1>6, <2>2
<1> QED
  BY <1>1, <1>2, <1>6, <1>7

\* A handler that ends: its notice is saved, its document has been told of or
\* removed, or the notice is lost.
LEMMA EndNotices ==
    ASSUME NoticesInv, NEW h \in BounceHandler, saveBounceDoc(h) \/ Crash(h)
    PROVE  NoticesInv'
<1> PICK own \in DOMAIN documents \cup {NewDocument} : own = handling[h].of
  BY DEF NoticesInv, BounceTypes
<1>1. /\ BounceTypes /\ BounceTypes'
      /\ handling' = [handling EXCEPT ![h] = NotHandling]
      /\ UNCHANGED notices /\ lost' \in {lost, lost + 1}
  BY BounceTypesNext
  DEF NoticesInv, BounceNext, saveBounceDoc, Crash, StopHandling, Insert,
      Update, NotFound, BounceFails, Loses
<1>2. ASSUME UNCHANGED documents, lost' = lost + 1 PROVE NoticesInv'
  <2>1. \A d : Settled(d) <=> Settled(d)'
    BY <1>2 DEF Settled
  <2> QED
    BY <1>1, <1>2, <2>1, EndSpent, NoticesStep
<1>3. ASSUME Update(h) PROVE NoticesInv'
  <2>1. /\ own \in DOMAIN documents /\ documents[own] \in BounceDocument
        /\ ~documents[own].removed /\ documents \in Seq(BounceDocument)
        /\ handling[h] \in Handling
    BY <1>1, <1>3 DEF Update, Found, Present, BounceTypes
  <2>2. /\ DOMAIN documents' = DOMAIN documents
        /\ \A d \in DOMAIN documents \ {own} : documents'[d] = documents[d]
        /\ documents'[own].notified
              = IF handling[h].notified # handling[h].read.notified
                THEN handling[h].notified ELSE documents[own].notified
    BY <1>3, <2>1 DEF Update
  <2>3. handling[h].read.notified => handling[h].notified
    BY DEF NoticesInv, Noticing
  <2>4. documents[own].notified => documents'[own].notified
    BY <2>1, <2>2, <2>3 DEF Handling, BounceDocument
  <2>5. \A d \in DOMAIN documents : Settled(d) => Settled(d)'
    BY <2>1, <2>2, <2>4 DEF Settled
  <2>6. Settled(own)' \/ ~HasTold(h, own)
    <3>1. CASE HasTold(h, own)
      BY <2>1, <2>2, <3>1 DEF HasTold, Settled
    <3> QED
      BY <3>1
  <2> QED
    BY <1>1, <2>2, <2>5, <2>6, EndSpent, NoticesStep
<1>4. ASSUME Insert(h) PROVE NoticesInv'
  <2> DEFINE n == Len(documents) + 1
  <2>1. Saved(h) \in BounceDocument
    BY <1>1 DEF Saved, Handling, BounceDocument, BounceTypes
  <2>2. /\ DOMAIN documents = 1 .. Len(documents) /\ Len(documents) \in Nat
        /\ DOMAIN documents' = 1 .. n
        /\ \A d \in DOMAIN documents : documents'[d] = documents[d]
        /\ documents'[n] = Saved(h)
    BY <1>1, <1>4, <2>1 DEF Insert, BounceTypes
  <2>3. \A d \in DOMAIN documents : Settled(d) => Settled(d)'
    BY <2>2 DEF Settled
  <2>4. n \in DOMAIN documents' /\ n \notin DOMAIN documents /\ n # NewDocument
    BY <2>2 DEF NewDocument
  <2>5. DOMAIN documents \subseteq DOMAIN documents'
    BY <2>2
  <2> HIDE DEF n
  <2>6. CASE ~HasTold(h, own)
    BY <1>1, <2>3, <2>5, <2>6, EndSpent, NoticesStep
  <2>7. CASE HasTold(h, own)
    <3>1. documents'[n].notified
      BY <2>2, <2>7 DEF Saved, HasTold
    <3>2. handling[h].of = NewDocument
      BY <1>4 DEF Insert
    <3>3. \A g \in BounceHandler : handling[g].of # n
      BY <1>1, <2>4 DEF BounceTypes
    <3>4. handling'[h].of # n
      BY <1>1, <2>4 DEF BounceTypes, NotHandling
    <3>5. PICK new : new = <<n, h>>
      OBVIOUS
    <3>6. new \notin Spent
      BY <2>4, <3>5, SpentIs
    <3>7. new \in Spent'
      <4>1. PICK d : d = n
        OBVIOUS
      <4>2. \A e, g :
               /\ e \in DOMAIN documents' \cup {NewDocument}
               /\ g \in BounceHandler
               /\ ~MayTell(g, e)' /\ (Settled(e)' \/ HasTold(g, e)')
               => <<e, g>> \in Spent'
        BY DEF Spent
      <4>3. ~MayTell(h, d)' /\ Settled(d)'
        BY <2>4, <3>1, <3>4, <4>1 DEF MayTell, Settled
      <4> QED
        BY <2>4, <3>5, <4>1, <4>2, <4>3
    <3>8. PICK old : old = <<own, h>>
      OBVIOUS
    <3>9. Spent \ {old} \subseteq Spent'
      BY <1>1, <2>3, <2>5, <3>8, EndSpent
    <3>10. Noticing(h)' /\ \A g \in BounceHandler \ {h} :
                              handling'[g] = handling[g]
      BY <1>1, <2>3, <2>5, EndSpent
    <3> QED
      BY <1>1, <3>6, <3>7, <3>9, <3>10, NoticesStep
  <2> QED
    BY <2>6, <2>7
<1> QED
  BY <1>2, <1>3, <1>4
  DEF saveBounceDoc, Crash, NotFound, BounceFails, Loses

\* Steps of no handler, after which what was settled stays so.
LEMMA OtherNotices ==
    ASSUME NoticesInv, BounceTypes', UNCHANGED <<handling, notices, lost>>,
           DOMAIN documents' = DOMAIN documents,
           \A d \in DOMAIN documents : Settled(d) => Settled(d)'
    PROVE  NoticesInv'
<1>1. \A h \in BounceHandler : Noticing(h)'
  BY DEF NoticesInv, Noticing, HandlingAt
<1>2. Spent \subseteq Spent'
  <2>1. \A d, h : <<d, h>> \in Spent'
                 <=> /\ d \in DOMAIN documents' \cup {NewDocument}
                     /\ h \in BounceHandler
                     /\ ~MayTell(h, d)' /\ (Settled(d)' \/ HasTold(h, d)')
    BY DEF Spent
  <2>2. \A d, h : /\ MayTell(h, d)' <=> MayTell(h, d)
                  /\ HasTold(h, d)' <=> HasTold(h, d)
    BY DEF MayTell, HasTold, HandlingAt
  <2>3. \A d : Settled(d) => Settled(d)'
    BY DEF Settled
  <2>4. \A d, h : <<d, h>> \in Spent => <<d, h>> \in Spent'
    BY <2>1, <2>2, <2>3, SpentIs
  <2> QED
    BY <2>4, SpentPairs
<1>3. CASE BounceHandler # {}
  <2>1. PICK h \in BounceHandler : TRUE
    BY <1>3
  <2> QED
    BY <1>1, <1>2, NoticesStep
<1>4. CASE BounceHandler = {}
  <2>1. Spent' = Spent
    BY <1>4 DEF Spent
  <2> QED
    BY <1>1, <2>1 DEF NoticesInv
<1> QED
  BY <1>3, <1>4

\* Only what is spent, and what is lost, has been a notice.
THEOREM NoticesSpent == BounceSpec => []NoticesInv
<1>1. BounceInit => NoticesInv
  <2> SUFFICES ASSUME BounceInit PROVE NoticesInv
    OBVIOUS
  <2>1. BounceTypes
    BY BounceTypesInit
  <2>2. \A h \in BounceHandler : Noticing(h)
    BY DEF BounceInit, Noticing, HandlingAt, NotHandling, NoDocument
  <2>3. Cardinality(Spent) \in Nat
    BY <2>1, SpentFinite, FS_CardinalityType
  <2> QED
    BY <2>1, <2>2, <2>3 DEF NoticesInv, BounceInit
<1>2. NoticesInv /\ [BounceNext]_bounceVars => NoticesInv'
  <2> SUFFICES ASSUME NoticesInv, [BounceNext]_bounceVars PROVE NoticesInv'
    OBVIOUS
  <2>1. ASSUME NEW d \in DOMAIN documents, Expire(d) PROVE NoticesInv'
    <3>1. BounceTypes /\ BounceTypes'
      BY BounceTypesNext DEF NoticesInv
    <3>2. DOMAIN documents' = DOMAIN documents
          /\ \A e \in DOMAIN documents \ {d} : documents'[e] = documents[e]
      BY <2>1, <3>1 DEF Expire, BounceTypes
    <3>3. documents'[d].removed
      BY <2>1, <3>1 DEF Expire, BounceTypes, NoDocument
    <3> QED
      BY <2>1, <3>1, <3>2, <3>3, OtherNotices DEF Expire, Settled
  <2>2. CASE UNCHANGED bounceVars
    BY <2>2, BounceTypesNext, OtherNotices DEF bounceVars, Settled, NoticesInv
  <2> QED
    BY <2>1, <2>2, ReadNotices, TellNotices, EndNotices DEF BounceNext
<1> QED
  BY <1>1, <1>2, PTL DEF BounceSpec

\* There are no more spent pairs than documents times handlers, and handlers.
LEMMA SpentBounded ==
    ASSUME BounceTypes
    PROVE  Cardinality(Spent) <= Len(documents) * Cardinality(BounceHandler)
                                    + Cardinality(Creating)
<1> DEFINE stored == (DOMAIN documents) \X BounceHandler
           creating == {NewDocument} \X Creating
<1>1. /\ IsFiniteSet(DOMAIN documents)
      /\ Cardinality(DOMAIN documents) = Len(documents)
  <2>1. DOMAIN documents = 1 .. Len(documents) /\ Len(documents) \in Nat
    BY DEF BounceTypes
  <2>2. IsFiniteSet(1 .. Len(documents))
        /\ Cardinality(1 .. Len(documents))
              = IF 1 <= Len(documents) THEN Len(documents) - 1 + 1 ELSE 0
    BY <2>1, FS_Interval
  <2> QED
    BY <2>1, <2>2
<1>2. /\ IsFiniteSet(stored)
      /\ Cardinality(stored) = Len(documents) * Cardinality(BounceHandler)
  BY <1>1, FS_Product, BounceAssumption
<1>3. IsFiniteSet(Creating)
  BY FS_Subset, BounceAssumption DEF Creating
<1>4. IsFiniteSet({NewDocument}) /\ Cardinality({NewDocument}) = 1
  BY FS_Singleton
<1>5. /\ IsFiniteSet(creating)
      /\ Cardinality(creating) = Cardinality(Creating)
  BY <1>3, <1>4, FS_Product, FS_CardinalityType
<1>6. Spent \subseteq stored \cup creating
  <2>1. ASSUME NEW d \in DOMAIN documents \cup {NewDocument},
               NEW h \in BounceHandler, Settled(d) \/ HasTold(h, d)
        PROVE  <<d, h>> \in stored \cup creating
    <3>1. CASE d \in DOMAIN documents
      BY <3>1
    <3>2. CASE d = NewDocument /\ d \notin DOMAIN documents
      BY <2>1, <3>2 DEF Settled, HasTold, Creating
    <3> QED
      BY <3>1, <3>2
  <2> HIDE DEF stored, creating
  <2> QED
    BY <2>1 DEF Spent
<1> HIDE DEF stored, creating
<1>7. /\ IsFiniteSet(stored \cup creating)
      /\ Cardinality(stored \cup creating)
            = Cardinality(stored) + Cardinality(creating)
                 - Cardinality(stored \cap creating)
  BY <1>2, <1>5, FS_Union
<1>8. /\ Cardinality(Spent) <= Cardinality(stored \cup creating)
      /\ IsFiniteSet(Spent)
  BY <1>6, <1>7, FS_Subset
<1>9. Cardinality(stored \cap creating) \in Nat
  BY <1>2, FS_Intersection, FS_CardinalityType
<1>10. /\ Cardinality(stored) \in Nat /\ Cardinality(creating) \in Nat
       /\ Cardinality(Spent) \in Nat
  BY <1>2, <1>5, <1>8, FS_CardinalityType
<1>11. Cardinality(Spent) <= Cardinality(stored) + Cardinality(creating)
  BY <1>7, <1>8, <1>9, <1>10
<1> QED
  BY <1>2, <1>5, <1>11, Zenon

\* The editors are told of a document at most once by each handler, but for
\* attempts and saves whose outcome was lost.
THEOREM NoticesAlwaysBounded == BounceSpec => []NoticesBounded
<1>1. NoticesInv => NoticesBounded
  <2> SUFFICES ASSUME NoticesInv PROVE NoticesBounded
    OBVIOUS
  <2> DEFINE bound == Len(documents) * Cardinality(BounceHandler)
                         + Cardinality(Creating)
  <2>1. BounceTypes /\ Cardinality(Spent) <= bound
    BY SpentBounded DEF NoticesInv
  <2>2. Cardinality(Spent) \in Nat
    BY <2>1, SpentFinite, FS_CardinalityType
  <2>3. bound \in Nat
    <3>1. Cardinality(BounceHandler) \in Nat /\ Len(documents) \in Nat
      BY <2>1, FS_CardinalityType, BounceAssumption DEF BounceTypes
    <3>2. Cardinality(Creating) \in Nat
      BY FS_Subset, FS_CardinalityType, BounceAssumption DEF Creating
    <3> QED
      BY <3>1, <3>2
  <2>4. notices \in Nat /\ lost \in Nat
    BY <2>1 DEF BounceTypes
  <2>5. notices <= Cardinality(Spent) + lost
    BY DEF NoticesInv
  <2> HIDE DEF bound
  <2>6. notices <= bound + lost
    BY <2>1, <2>2, <2>3, <2>4, <2>5
  <2> QED
    BY <2>6 DEF bound, NoticesBounded
<1> QED
  BY NoticesSpent, <1>1, PTL

-----------------------------------------------------------------------------
(* The types of Submissions.                                                *)

\* A request is numbered from the time it is received, and a submission has
\* the number of one.
NumberedInv ==
    /\ mode \in {"email", "encrypt"}
    /\ received \in 0 .. MaxReceived
    /\ failed \in 0 .. MaxFaults
    /\ Len(uploads) <= MaxUploads
    /\ \A h \in Handler : /\ serving[h].id <= received
                          /\ ~At(h, "idle") => serving[h].id >= 1
    /\ submissions \subseteq [id : 1 .. received, file : Nat]

\* A step of h which ends its request or leaves it its number, and stores the
\* submission of h if any.
NumberStep(h) ==
    /\ ~At(h, "idle")
    /\ UNCHANGED <<mode, received, uploads>>
    /\ UNCHANGED failed \/ Fails
    /\ \A g \in Handler \ {h} : serving'[g] = serving[g]
    /\ serving'[h] = Idle \/ serving'[h].id = serving[h].id
    /\ UNCHANGED submissions \/ Store(h)

\* Every step of a handler leaves its request its number, or ends it.
LEMMA NumberSteps ==
    ASSUME FileInv, NEW h \in Handler,
           \/ getS3FileStreamWithVersionId(h) \/ scanFileStream(h)
           \/ moveS3File(h) \/ checkFormSubmissionLimit(h)
           \/ deactivateFormRead(h) \/ deactivateFormSave(h)
           \/ SaveSubmission(h) \/ sendSubmissionToAdmin(h)
    PROVE  NumberStep(h)
<1>1. serving \in [Handler -> ServingRecord]
  BY DEF FileInv
<1>2. ASSUME Finish(h)
      PROVE  /\ \A g \in Handler \ {h} : serving'[g] = serving[g]
             /\ serving'[h] = Idle \/ serving'[h].id = serving[h].id
  BY <1>1, <1>2 DEF Finish
<1>3. ASSUME GoTo(h, "move") \/ GoTo(h, "save") \/ GoTo(h, "deactivate")
                \/ GoTo(h, "mail")
      PROVE  /\ \A g \in Handler \ {h} : serving'[g] = serving[g]
             /\ serving'[h] = Idle \/ serving'[h].id = serving[h].id
  BY <1>1, <1>3 DEF GoTo, ServingRecord
<1>4. CASE getS3FileStreamWithVersionId(h)
  <2>1. /\ ~At(h, "idle")
        /\ UNCHANGED <<mode, received, uploads, failed, submissions>>
    BY <1>4 DEF getS3FileStreamWithVersionId, At
  <2>2. CASE Finish(h)
    BY <1>2, <2>1, <2>2 DEF NumberStep
  <2>3. CASE \E v \in quarantine :
                serving' = [serving EXCEPT ![h].pc = "scanned", ![h].file = v]
    <3>1. /\ \A g \in Handler \ {h} : serving'[g] = serving[g]
          /\ serving'[h].id = serving[h].id
      BY <1>1, <2>3 DEF ServingRecord
    <3> QED
      BY <2>1, <3>1 DEF NumberStep
  <2> QED
    BY <1>4, <2>2, <2>3 DEF getS3FileStreamWithVersionId
<1>5. CASE scanFileStream(h)
  <2>1. /\ ~At(h, "idle")
        /\ UNCHANGED <<mode, received, uploads, submissions>>
        /\ UNCHANGED failed \/ Fails
        /\ Finish(h) \/ GoTo(h, "move")
    BY <1>5 DEF scanFileStream, At
  <2> QED
    BY <1>2, <1>3, <2>1 DEF NumberStep
<1>6. CASE moveS3File(h)
  <2>1. /\ ~At(h, "idle")
        /\ UNCHANGED <<mode, received, uploads, submissions>>
        /\ UNCHANGED failed \/ Fails
        /\ \/ Finish(h)
           \/ serving' = [serving EXCEPT ![h].pc = "ensure",
                                         ![h].file = VersionToMove(h)]
    BY <1>6 DEF moveS3File, At
  <2>2. CASE Finish(h)
    BY <1>2, <2>1, <2>2 DEF NumberStep
  <2>3. CASE serving' = [serving EXCEPT ![h].pc = "ensure",
                                        ![h].file = VersionToMove(h)]
    <3>1. /\ \A g \in Handler \ {h} : serving'[g] = serving[g]
          /\ serving'[h].id = serving[h].id
      BY <1>1, <2>3 DEF ServingRecord
    <3> QED
      BY <2>1, <3>1 DEF NumberStep
  <2> QED
    BY <2>1, <2>2, <2>3
<1>7. CASE checkFormSubmissionLimit(h)
  <2>1. /\ ~At(h, "idle")
        /\ UNCHANGED <<mode, received, uploads, submissions>>
        /\ UNCHANGED failed \/ Fails
        /\ Finish(h) \/ GoTo(h, "save") \/ GoTo(h, "deactivate")
    BY <1>7 DEF checkFormSubmissionLimit, At
  <2> QED
    BY <1>2, <1>3, <2>1 DEF NumberStep
<1>8. CASE deactivateFormRead(h)
  <2>1. PICK read \in {"PUBLIC", "PRIVATE"} :
           /\ ~At(h, "idle")
           /\ UNCHANGED <<mode, received, uploads, submissions, failed>>
           /\ serving' = [serving EXCEPT ![h].pc = "deactivateSave",
                                         ![h].status = read]
    BY <1>8 DEF deactivateFormRead, At
  <2>2. /\ \A g \in Handler \ {h} : serving'[g] = serving[g]
        /\ serving'[h].id = serving[h].id
    BY <1>1, <2>1 DEF ServingRecord
  <2> QED
    BY <2>1, <2>2 DEF NumberStep
<1>9. CASE deactivateFormSave(h)
  <2>1. /\ ~At(h, "idle")
        /\ UNCHANGED <<mode, received, uploads, submissions>>
        /\ UNCHANGED failed \/ Fails
        /\ Finish(h)
    BY <1>9 DEF deactivateFormSave, At
  <2> QED
    BY <1>2, <2>1 DEF NumberStep
<1>10. CASE SaveSubmission(h)
  <2>1. /\ ~At(h, "idle")
        /\ UNCHANGED <<mode, received, uploads>>
        /\ UNCHANGED failed \/ Fails
        /\ Finish(h) \/ GoTo(h, "mail")
        /\ UNCHANGED submissions \/ Store(h)
    BY <1>10 DEF SaveSubmission, At
  <2> QED
    BY <1>2, <1>3, <2>1 DEF NumberStep
<1>11. CASE sendSubmissionToAdmin(h)
  <2>1. /\ ~At(h, "idle")
        /\ UNCHANGED <<mode, received, uploads, submissions>>
        /\ UNCHANGED failed \/ Fails
        /\ Finish(h)
    BY <1>11 DEF sendSubmissionToAdmin, At
  <2> QED
    BY <1>2, <2>1 DEF NumberStep
<1> QED
  BY <1>4, <1>5, <1>6, <1>7, <1>8, <1>9, <1>10, <1>11

\* Every step preserves the numbers of the requests and of the submissions.
LEMMA NumberedNext ==
    ASSUME FileInv, NumberedInv, [SubmissionNext]_submissionVars
    PROVE  NumberedInv'
<1>1. /\ serving \in [Handler -> ServingRecord]
      /\ uploads \in Seq([key : Key, malicious : BOOLEAN])
  BY DEF FileInv
<1>2. /\ received \in Nat /\ failed \in Nat
      /\ MaxReceived \in Nat /\ MaxFaults \in Nat /\ MaxUploads \in Nat
  BY SubmissionAssumption DEF NumberedInv, SubmissionAssumption
<1>3. \A h \in Handler : serving[h].id \in Nat /\ serving[h].file \in Nat
  BY <1>1 DEF ServingRecord
<1>4. ASSUME NEW k \in Key, NEW malicious \in BOOLEAN, Upload(k, malicious)
      PROVE  NumberedInv'
  <2>1. /\ UNCHANGED <<mode, submissions, received, serving, failed>>
        /\ Len(uploads) < MaxUploads
        /\ uploads' = Append(uploads, [key |-> k, malicious |-> malicious])
    BY <1>4 DEF Upload
  <2>2. PICK u \in [key : Key, malicious : BOOLEAN] :
           u = [key |-> k, malicious |-> malicious]
    OBVIOUS
  <2>3. Len(uploads') = Len(uploads) + 1 /\ Len(uploads) \in Nat
    BY <1>1, <2>1, <2>2, AppendProperties, LenProperties
  <2>4. Len(uploads') <= MaxUploads
    BY <1>2, <2>1, <2>3
  <2> QED
    BY <2>1, <2>4 DEF NumberedInv, At
<1>5. ASSUME NEW h \in Handler, NEW k \in Key \cup {NoKey},
             ReceiveSubmission(h, k)
      PROVE  NumberedInv'
  <2>1. /\ UNCHANGED <<mode, submissions, uploads, failed>>
        /\ received < MaxReceived /\ received' = received + 1
        /\ serving' = [serving EXCEPT ![h] =
              [pc |-> IF k = NoKey THEN "ensure" ELSE "scan",
               id |-> received + 1, status |-> status, key |-> k,
               file |-> NoFile]]
    BY <1>5 DEF ReceiveSubmission
  <2>2. received' \in 0 .. MaxReceived
    BY <1>2, <2>1
  <2>3. /\ serving'[h].id = received + 1
        /\ \A g \in Handler \ {h} : serving'[g] = serving[g]
    BY <1>1, <2>1
  <2>4. ASSUME NEW g \in Handler
        PROVE  /\ serving'[g].id <= received'
               /\ serving'[g].pc # "idle" => serving'[g].id >= 1
    <3>1. CASE g = h
      BY <1>2, <2>1, <2>3, <3>1
    <3>2. CASE g # h
      BY <1>2, <1>3, <2>1, <2>3, <3>2 DEF NumberedInv, At
    <3> QED
      BY <3>1, <3>2
  <2>5. submissions' \subseteq [id : 1 .. received', file : Nat]
    <3>1. 1 .. received \subseteq 1 .. received'
      BY <1>2, <2>1
    <3> QED
      BY <2>1, <3>1 DEF NumberedInv
  <2> QED
    BY <2>1, <2>2, <2>4, <2>5 DEF NumberedInv, At
<1>6. ASSUME NEW h \in Handler, NumberStep(h)
      PROVE  NumberedInv'
  <2>1. failed' \in 0 .. MaxFaults
    BY <1>2, <1>6 DEF NumberStep, Fails, NumberedInv
  <2>2. ASSUME NEW g \in Handler
        PROVE  /\ serving'[g].id <= received'
               /\ serving'[g].pc # "idle" => serving'[g].id >= 1
    <3>1. CASE g = h
      <4>1. CASE serving'[h] = Idle
        BY <1>2, <1>6, <3>1, <4>1 DEF NumberStep, Idle
      <4>2. CASE serving'[h].id = serving[h].id
        BY <1>6, <3>1, <4>2 DEF NumberStep, NumberedInv
      <4> QED
        BY <1>6, <4>1, <4>2 DEF NumberStep
    <3>2. CASE g # h
      BY <1>6, <3>2 DEF NumberStep, NumberedInv, At
    <3> QED
      BY <3>1, <3>2
  <2>3. submissions' \subseteq [id : 1 .. received, file : Nat]
    <3>1. serving[h].id \in 1 .. received
      BY <1>2, <1>3, <1>6 DEF NumberStep, NumberedInv
    <3>2. [id |-> serving[h].id, file |-> serving[h].file]
             \in [id : 1 .. received, file : Nat]
      BY <1>3, <3>1
    <3> QED
      BY <1>6, <3>2 DEF NumberStep, NumberedInv, Store
  <2> QED
    BY <1>6, <2>1, <2>2, <2>3 DEF NumberStep, NumberedInv, At
<1>7. ASSUME NEW s \in {"PUBLIC", "PRIVATE"}, ChangeStatus(s)
      PROVE  NumberedInv'
  BY <1>7 DEF ChangeStatus, NumberedInv, At
<1>8. CASE UNCHANGED submissionVars
  BY <1>8 DEF submissionVars, NumberedInv, At
<1> QED
  BY <1>4, <1>5, <1>6, <1>7, <1>8, NumberSteps DEF SubmissionNext

\* Every variable of Submissions keeps its type, and only versions that exist
\* are in a bucket or being scanned, for any requests, uploads and failures.
THEOREM SubmissionTypeCorrect ==
    SubmissionSpec => []SubmissionTypeOK
<1> DEFINE Inv == /\ CleanInv /\ NumberedInv
                  /\ status \in {"PUBLIC", "PRIVATE"}
<1>1. SubmissionInit => Inv
  <2> SUFFICES ASSUME SubmissionInit PROVE Inv
    OBVIOUS
  <2>1. CleanInv
    BY CleanInit
  <2>2. NumberedInv
    BY SubmissionAssumption
       DEF SubmissionInit, NumberedInv, SubmissionAssumption, Idle, At
  <2> QED
    BY <2>1, <2>2 DEF SubmissionInit
<1>2. Inv /\ [SubmissionNext]_submissionVars => Inv'
  <2> SUFFICES ASSUME Inv, [SubmissionNext]_submissionVars PROVE Inv'
    OBVIOUS
  <2>1. received \in Nat
    BY DEF NumberedInv
  <2>2. status' \in {"PUBLIC", "PRIVATE"}
    BY <2>1, ScalarsNext
  <2>3. CleanInv'
    BY <2>1, CleanNext
  <2>4. NumberedInv'
    BY NumberedNext DEF CleanInv
  <2> QED
    BY <2>2, <2>3, <2>4
<1>3. Inv => SubmissionTypeOK
  <2> SUFFICES ASSUME Inv PROVE SubmissionTypeOK
    OBVIOUS
  <2>1. FileInv /\ NumberedInv
    BY DEF CleanInv
  <2>2. DOMAIN uploads \subseteq Version
    <3>1. uploads \in Seq([key : Key, malicious : BOOLEAN])
      BY <2>1 DEF FileInv
    <3>2. Len(uploads) \in Nat /\ MaxUploads \in Nat /\ Len(uploads) <= MaxUploads
      BY <2>1, <3>1, LenProperties, SubmissionAssumption
         DEF NumberedInv, SubmissionAssumption
    <3>3. 1 .. Len(uploads) \subseteq 1 .. MaxUploads
      BY <3>2
    <3>4. DOMAIN uploads = 1 .. Len(uploads)
      BY <3>1, LenProperties
    <3> QED
      BY <3>3, <3>4 DEF Version
  <2>3. submissions \subseteq [id : 1 .. received, file : Version \cup {NoFile}]
    <3> SUFFICES ASSUME NEW s \in submissions
                 PROVE  s \in [id : 1 .. received, file : Version \cup {NoFile}]
      OBVIOUS
    <3>1. s \in [id : 1 .. received, file : Nat]
      BY <2>1 DEF NumberedInv
    <3>2. s.file \in Version \cup {NoFile}
      BY <2>1, <2>2 DEF FileInv
    <3> QED
      BY <3>1, <3>2
  <2>4. serving \in [Handler ->
          [pc : {"idle", "scan", "scanned", "move", "ensure", "deactivate",
                 "deactivateSave", "save", "mail"},
           id : 0 .. received, status : {"PUBLIC", "PRIVATE"},
           key : Key \cup {NoKey}, file : Version \cup {NoFile}]]
    <3>1. ASSUME NEW h \in Handler
          PROVE  /\ serving[h] \in ServingRecord
                 /\ serving[h].id \in 0 .. received
                 /\ serving[h].file \in Version \cup {NoFile}
      <4>1. serving[h] \in ServingRecord
        BY <2>1 DEF FileInv
      <4>2. serving[h].id \in Nat /\ serving[h].id <= received /\ received \in Nat
        BY <2>1, <4>1 DEF ServingRecord, NumberedInv
      <4>3. serving[h].file \in Version \cup {NoFile}
        BY <2>1, <2>2 DEF FileInv
      <4> QED
        BY <4>1, <4>2, <4>3
    <3>2. \A h \in Handler : serving[h] \in
          [pc : {"idle", "scan", "scanned", "move", "ensure", "deactivate",
                 "deactivateSave", "save", "mail"},
           id : 0 .. received, status : {"PUBLIC", "PRIVATE"},
           key : Key \cup {NoKey}, file : Version \cup {NoFile}]
      BY <3>1 DEF ServingRecord
    <3>3. serving \in [Handler -> ServingRecord]
      BY <2>1 DEF FileInv
    <3> QED
      BY <3>2, <3>3
  <2> QED
    BY <2>1, <2>3, <2>4 DEF SubmissionTypeOK, FileInv, NumberedInv
<1> QED
  BY <1>1, <1>2, <1>3, PTL DEF SubmissionSpec

-----------------------------------------------------------------------------
(* The four components side by side.                                        *)

\* A behaviour of the four is one of each of them.
LEMMA FormsComposed ==
    FormsSpec => Spec /\ SubmissionSpec /\ BounceSpec /\ WorkspaceSpec
<1>1. FormsInit => Init /\ SubmissionInit /\ BounceInit /\ WorkspaceInit
  BY DEF FormsInit
<1>2. [FormsNext]_<<component, editingVars, submissionVars, bounceVars,
                    workspaceVars>>
         => /\ [Next]_editingVars /\ [SubmissionNext]_submissionVars
            /\ [BounceNext]_bounceVars /\ [WorkspaceNext]_workspaceVars
  BY DEF FormsNext
<1> QED
  BY <1>1, <1>2, PTL DEF FormsSpec, Spec, SubmissionSpec, BounceSpec,
                         WorkspaceSpec

\* Every variable of the four components keeps its type.
THEOREM FormsTypesCorrect ==
    FormsSpec => []FormsTypeOK
<1> DEFINE OneOfThem == component \in {"editing", "submissions", "bounces",
                                      "workspaces"}
<1>1. TypeOK /\ SubmissionTypeOK /\ BounceTypeOK /\ WorkspaceTypeOK
         /\ OneOfThem
      => FormsTypeOK
  <2> SUFFICES ASSUME TypeOK, SubmissionTypeOK, BounceTypeOK, WorkspaceTypeOK,
                      OneOfThem
               PROVE  FormsTypeOK
    OBVIOUS
  <2>1. CASE component = "editing"
    BY <2>1 DEF FormsTypeOK
  <2>2. CASE component = "submissions"
    BY <2>2 DEF FormsTypeOK
  <2>3. CASE component = "bounces"
    BY <2>3 DEF FormsTypeOK
  <2>4. CASE component = "workspaces"
    BY <2>4 DEF FormsTypeOK
  <2> QED
    BY <2>1, <2>2, <2>3, <2>4
<1>2. FormsInit => OneOfThem
  BY DEF FormsInit
<1>3. OneOfThem /\ [FormsNext]_<<component, editingVars, submissionVars,
                                 bounceVars, workspaceVars>>
      => OneOfThem'
  <2>1. [FormsNext]_<<component, editingVars, submissionVars, bounceVars,
                      workspaceVars>>
           => UNCHANGED component
    BY DEF FormsNext
  <2> QED
    BY <2>1
<1> QED
  BY <1>1, <1>2, <1>3, FormsComposed, EditingTypeCorrect,
     SubmissionTypeCorrect, BounceTypeCorrect, WorkspaceTypeCorrect, PTL
     DEF FormsSpec

=============================================================================
