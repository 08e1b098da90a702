------------------------- MODULE PaymentStateProofs -------------------------
(***************************************************************************)
(* Proofs about the pure part of payment processing: how an event is       *)
(* entered in the log, and what the state that is computed from a log is.  *)
(*                                                                         *)
(* A fold is a recursive function over the sets of positions, of which     *)
(* the definition only says that some function is chosen that satisfies    *)
(* its equation. That one does is an induction over the length of the log, *)
(* on the set of the lengths that have a fold.                             *)
(***************************************************************************)
EXTENDS PaymentState, FiniteSetTheorems, SequenceTheorems,
        WellFoundedInduction, TLAPS

-----------------------------------------------------------------------------
(* The log.                                                                 *)

\* Inserting an event shifts the later entries by one and changes none: the
\* new log has the old entries and the event, each at a place of its own.
LEMMA InsertPlace ==
    ASSUME NEW S, NEW log \in Seq(S), NEW e \in S, NEW place,
           place = Cardinality({i \in DOMAIN log : log[i].created <= e.created})
    PROVE  /\ place \in 0..Len(log)
           /\ InsertByCreated(log, e) \in Seq(S)
           /\ Len(InsertByCreated(log, e)) = Len(log) + 1
           /\ \A i \in 1..(Len(log) + 1) :
                InsertByCreated(log, e)[i] =
                   IF i <= place THEN log[i]
                   ELSE IF i = place + 1 THEN e ELSE log[i - 1]
<1> DEFINE earlier == {i \in DOMAIN log : log[i].created <= e.created}
           k == Cardinality(earlier)
           before == SubSeq(log, 1, k)
           after == SubSeq(log, k + 1, Len(log))
<1>1. k \in 0..Len(log)
  <2>1. Len(log) \in Nat /\ DOMAIN log = 1..Len(log)
    BY LenProperties
  <2>2. IsFiniteSet(1..Len(log)) /\ Cardinality(1..Len(log)) = Len(log)
    BY <2>1, FS_Interval
  <2>3. earlier \subseteq 1..Len(log)
    BY <2>1
  <2>4. IsFiniteSet(earlier) /\ k <= Len(log)
    BY <2>2, <2>3, FS_Subset
  <2> QED
    BY <2>1, <2>4, FS_CardinalityType
<1>2. InsertByCreated(log, e) = before \o <<e>> \o after
  <2>1. InsertByCreated(log, e) = InsertAt(log, k + 1, e)
    BY DEF InsertByCreated
  <2> HIDE DEF k
  <2>2. (k + 1) - 1 = k
    BY <1>1
  <2> QED
    BY <2>1, <2>2 DEF InsertAt
<1>3. /\ before \in Seq(S) /\ Len(before) = k
      /\ \A i \in 1..k : before[i] = log[i]
  <2>1. \A i \in 1..k : log[i] \in S
    BY <1>1, LenProperties, ElementOfSeq
  <2> HIDE DEF k
  <2> QED
    BY <1>1, <2>1, SubSeqProperties
<1>4. /\ after \in Seq(S) /\ Len(after) = Len(log) - k
      /\ \A i \in 1..(Len(log) - k) : after[i] = log[k + i]
  <2>1. \A i \in (k + 1)..Len(log) : log[i] \in S
    BY <1>1, LenProperties, ElementOfSeq
  <2> HIDE DEF k
  <2> QED
    BY <1>1, <2>1, SubSeqProperties, LenProperties
<1>5. before \o <<e>> \in Seq(S) /\ Len(before \o <<e>>) = k + 1
  BY <1>1, <1>3
<1>6. \A i \in 1..(k + 1) :
         (before \o <<e>>)[i] = IF i <= k THEN log[i] ELSE e
  BY <1>1, <1>3
<1> DEFINE new == (before \o <<e>>) \o after
<1> HIDE DEF k, before, after
<1>8. /\ new \in Seq(S)
      /\ Len(new) = Len(log) + 1
      /\ \A i \in 1..(Len(log) + 1) :
            new[i] = IF i <= k + 1 THEN (before \o <<e>>)[i]
                     ELSE after[i - (k + 1)]
  <2>1. PICK s \in Seq(S), t \in Seq(S) : s = before \o <<e>> /\ t = after
    BY <1>4, <1>5
  <2>2. /\ s \o t \in Seq(S) /\ Len(s \o t) = Len(s) + Len(t)
        /\ \A i \in 1 .. Len(s) + Len(t) :
              (s \o t)[i] = IF i <= Len(s) THEN s[i] ELSE t[i - Len(s)]
    BY ConcatProperties
  <2>3. /\ Len(s) = k + 1 /\ Len(t) = Len(log) - k
        /\ Len(s) + Len(t) = Len(log) + 1
    <3>1. Len(log) \in Nat /\ k \in Nat
      BY <1>1, LenProperties
    <3>2. Len(s) = k + 1 /\ Len(t) = Len(log) - k
      BY <1>4, <1>5, <2>1, Zenon
    <3> QED
      BY <3>1, <3>2
  <2>4. new = s \o t
    BY <2>1
  <2> HIDE DEF new
  <2> QED
    BY <2>1, <2>2, <2>3, <2>4
<1>9. \A i \in 1..(Len(log) + 1) :
         new[i] = IF i <= k THEN log[i]
                  ELSE IF i = k + 1 THEN e ELSE log[i - 1]
  <2> SUFFICES ASSUME NEW i \in 1..(Len(log) + 1)
               PROVE  new[i] = IF i <= k THEN log[i]
                               ELSE IF i = k + 1 THEN e ELSE log[i - 1]
    OBVIOUS
  <2> HIDE DEF new
  <2>1. CASE i <= k + 1
    <3>1. i \in 1..(k + 1)
      BY <2>1, <1>1, LenProperties
    <3>2. new[i] = (before \o <<e>>)[i]
      BY <2>1, <1>8
    <3>3. new[i] = IF i <= k THEN log[i] ELSE e
      BY <3>1, <3>2, <1>6
    <3> HIDE DEF before
    <3> QED
      BY <3>1, <3>3, <1>1
  <2>2. CASE i > k + 1
    <3>1. i - (k + 1) \in 1..(Len(log) - k) /\ k + (i - (k + 1)) = i - 1
      BY <2>2, <1>1, LenProperties
    <3>2. after[i - (k + 1)] = log[k + (i - (k + 1))]
      BY <3>1, <1>4
    <3>3. new[i] = after[i - (k + 1)]
      BY <2>2, <1>1, <1>8, LenProperties
    <3>4. ~(i <= k) /\ i # k + 1
      BY <2>2, <1>1, LenProperties
    <3> QED
      BY <3>1, <3>2, <3>3, <3>4
  <2> QED
    BY <2>1, <2>2, <1>1, LenProperties
<1> QED
  <2> HIDE DEF new
  <2>1. InsertByCreated(log, e) = new
    BY <1>2 DEF new
  <2> QED
    BY <2>1, <1>1, <1>8, <1>9 DEF k, earlier

\* The same, wherever the place is.
LEMMA InsertShifts ==
    ASSUME NEW S, NEW log \in Seq(S), NEW e \in S
    PROVE  /\ InsertByCreated(log, e) \in Seq(S)
           /\ \E k \in 0..Len(log) :
                /\ Len(InsertByCreated(log, e)) = Len(log) + 1
                /\ \A i \in 1..(Len(log) + 1) :
                     InsertByCreated(log, e)[i] =
                       IF i <= k THEN log[i]
                       ELSE IF i = k + 1 THEN e ELSE log[i - 1]
<1> DEFINE k == Cardinality({i \in DOMAIN log : log[i].created <= e.created})
<1>1. /\ k \in 0..Len(log)
      /\ InsertByCreated(log, e) \in Seq(S)
      /\ Len(InsertByCreated(log, e)) = Len(log) + 1
      /\ \A i \in 1..(Len(log) + 1) :
            InsertByCreated(log, e)[i] =
              IF i <= k THEN log[i]
              ELSE IF i = k + 1 THEN e ELSE log[i - 1]
  BY InsertPlace
<1> HIDE DEF k
<1> QED
  BY <1>1

\* As a set of entries, the log gains the event.
LEMMA InsertEntries ==
    ASSUME NEW S, NEW log \in Seq(S), NEW e \in S
    PROVE  LET new == InsertByCreated(log, e)
           IN  new \in Seq(S) /\ ToSet(new) = ToSet(log) \cup {e}
<1> DEFINE new == InsertByCreated(log, e)
<1>1. PICK k \in 0..Len(log) :
         /\ new \in Seq(S)
         /\ Len(new) = Len(log) + 1
         /\ \A i \in 1..(Len(log) + 1) :
              new[i] = IF i <= k THEN log[i]
                       ELSE IF i = k + 1 THEN e ELSE log[i - 1]
  BY InsertShifts
<1> HIDE DEF new
<1>2. /\ Len(log) \in Nat /\ DOMAIN log = 1..Len(log)
      /\ DOMAIN new = 1..(Len(log) + 1)
  BY <1>1, LenProperties
<1>3. \A i \in DOMAIN log : \E j \in DOMAIN new : new[j] = log[i]
  <2> TAKE i \in DOMAIN log
  <2>1. CASE i <= k
    BY <2>1, <1>1, <1>2
  <2>2. CASE i > k
    <3>1. i + 1 \in 1..(Len(log) + 1) /\ (i + 1) - 1 = i
      BY <1>2
    <3>2. ~(i + 1 <= k) /\ i + 1 # k + 1
      BY <2>2, <1>2
    <3>3. new[i + 1] = log[i]
      BY <3>1, <3>2, <1>1
    <3> QED
      BY <3>1, <3>3, <1>2
  <2> QED
    BY <2>1, <2>2, <1>2
<1>4. \E j \in DOMAIN new : new[j] = e
  <2>1. k + 1 \in 1..(Len(log) + 1) /\ ~(k + 1 <= k)
    BY <1>2
  <2>2. new[k + 1] = e
    BY <2>1, <1>1
  <2> QED
    BY <2>1, <2>2, <1>2
<1>5. \A j \in DOMAIN new :
         new[j] = e \/ \E i \in DOMAIN log : new[j] = log[i]
  <2> TAKE j \in DOMAIN new
  <2>1. CASE j <= k
    BY <2>1, <1>1, <1>2
  <2>2. CASE j = k + 1
    BY <2>2, <1>1, <1>2
  <2>3. CASE j > k + 1
    <3>1. j - 1 \in DOMAIN log /\ ~(j <= k) /\ j # k + 1
      BY <2>3, <1>2
    <3> QED
      BY <3>1, <1>1, <1>2
  <2> QED
    BY <2>1, <2>2, <2>3, <1>2
<1>6. ToSet(new) = ToSet(log) \cup {e}
  BY <1>3, <1>4, <1>5 DEF ToSet
<1> QED
  BY <1>1, <1>6 DEF new

HasIdsOnce(log) ==
    \A i, j \in DOMAIN log : log[i].id = log[j].id => i = j

\* A log that has no id twice has none twice after the insertion of a new id.
LEMMA InsertKeepsIdsOnce ==
    ASSUME NEW S, NEW log \in Seq(S), NEW e \in S,
           HasIdsOnce(log), \A i \in DOMAIN log : log[i].id # e.id
    PROVE  HasIdsOnce(InsertByCreated(log, e))
<1> DEFINE new == InsertByCreated(log, e)
<1>1. PICK k \in 0..Len(log) :
         /\ new \in Seq(S)
         /\ Len(new) = Len(log) + 1
         /\ \A i \in 1..(Len(log) + 1) :
              new[i] = IF i <= k THEN log[i]
                       ELSE IF i = k + 1 THEN e ELSE log[i - 1]
  BY InsertShifts
<1> HIDE DEF new
<1>2. /\ Len(log) \in Nat /\ DOMAIN log = 1..Len(log)
      /\ DOMAIN new = 1..(Len(log) + 1)
  BY <1>1, LenProperties
<1> DEFINE old(i) == IF i <= k THEN i ELSE i - 1
<1>3. \A i \in DOMAIN new : i # k + 1 => old(i) \in DOMAIN log
  BY <1>2
<1>4. \A i \in DOMAIN new : i # k + 1 => new[i] = log[old(i)]
  BY <1>1, <1>2
<1>5. \A i, j \in DOMAIN new :
         i # k + 1 /\ j # k + 1 /\ old(i) = old(j) => i = j
  BY <1>2
<1>6. new[k + 1] = e
  <2>1. k + 1 \in 1..(Len(log) + 1) /\ ~(k + 1 <= k)
    BY <1>2
  <2> QED
    BY <2>1, <1>1
<1> HIDE DEF old
<1>7. HasIdsOnce(new)
  BY <1>3, <1>4, <1>5, <1>6 DEF HasIdsOnce
<1> QED
  BY <1>7 DEF new

\* Later entries are not older.
Chronological(log) ==
    \A i, j \in DOMAIN log : i < j => log[i].created <= log[j].created

\* The events of a chronological log that are not newer than another are the
\* first of the log.
LEMMA EarlierIsPrefix ==
    ASSUME NEW S, \A x \in S : x.created \in Nat,
           NEW log \in Seq(S), Chronological(log), NEW e \in S
    PROVE  LET earlier == {i \in DOMAIN log : log[i].created <= e.created}
           IN  Cardinality(earlier) \in Nat
               /\ earlier = 1..Cardinality(earlier)
<1> DEFINE earlier == {i \in DOMAIN log : log[i].created <= e.created}
           k == Cardinality(earlier)
<1>1. /\ Len(log) \in Nat /\ DOMAIN log = 1..Len(log)
      /\ \A i \in DOMAIN log : log[i].created \in Nat
      /\ e.created \in Nat
  BY LenProperties, ElementOfSeq
<1>2. IsFiniteSet(1..Len(log)) /\ earlier \subseteq 1..Len(log)
  BY <1>1, FS_Interval
<1>3. IsFiniteSet(earlier) /\ k \in Nat
  BY <1>2, FS_Subset, FS_CardinalityType
<1>4. ASSUME NEW i \in earlier
      PROVE  i \in 1..k
  <2>1. 1..i \subseteq earlier
    <3> SUFFICES ASSUME NEW j \in 1..i, j # i
                 PROVE  j \in earlier
      BY <1>4, <1>1
    <3>1. j \in DOMAIN log /\ i \in DOMAIN log /\ j < i
      BY <1>1, <1>4
    <3>2. log[j].created <= log[i].created /\ log[i].created <= e.created
      BY <3>1, <1>4 DEF Chronological
    <3>3. log[j].created <= e.created
      BY <1>1, <3>1, <3>2
    <3> QED
      BY <3>1, <3>3
  <2>2. i \in Nat /\ i >= 1
    BY <1>1, <1>4
  <2>3. Cardinality(1..i) = i
    BY <2>2, FS_Interval
  <2> HIDE DEF earlier
  <2>4. Cardinality(1..i) <= Cardinality(earlier)
    BY <1>3, <2>1, FS_Subset
  <2> QED
    BY <1>3, <2>2, <2>3, <2>4
<1> HIDE DEF earlier, k
<1>5. Cardinality(1..k) = k /\ IsFiniteSet(1..k)
  BY <1>3, FS_Interval
<1>6. earlier = 1..k
  BY <1>4, <1>5, FS_Subset DEF k
<1> QED
  BY <1>3, <1>6 DEF earlier, k

\* The insertion keeps the log chronological.
LEMMA InsertChronological ==
    ASSUME NEW S, \A x \in S : x.created \in Nat,
           NEW log \in Seq(S), Chronological(log), NEW e \in S
    PROVE  Chronological(InsertByCreated(log, e))
<1> DEFINE earlier == {i \in DOMAIN log : log[i].created <= e.created}
           k == Cardinality(earlier)
           new == InsertByCreated(log, e)
<1>1. /\ Len(log) \in Nat /\ DOMAIN log = 1..Len(log)
      /\ \A i \in DOMAIN log : log[i].created \in Nat
      /\ e.created \in Nat
  BY LenProperties, ElementOfSeq
<1>2. k \in Nat /\ earlier = 1..k
  BY EarlierIsPrefix
<1>3. /\ k \in 0..Len(log)
      /\ \A i \in 1..Len(log) : i <= k <=> log[i].created <= e.created
  <2>1. k = 0 \/ k \in DOMAIN log
    <3>1. earlier \subseteq DOMAIN log
      OBVIOUS
    <3> HIDE DEF k, earlier
    <3> QED
      BY <1>2, <3>1
  <2> HIDE DEF k
  <2> QED
    BY <1>1, <1>2, <2>1
<1> HIDE DEF k
<1>4. /\ new \in Seq(S) /\ Len(new) = Len(log) + 1
      /\ \A i \in 1..(Len(log) + 1) :
            new[i] = IF i <= k THEN log[i]
                     ELSE IF i = k + 1 THEN e ELSE log[i - 1]
  <2>1. k = Cardinality({i \in DOMAIN log : log[i].created <= e.created})
    BY DEF k
  <2>2. /\ InsertByCreated(log, e) \in Seq(S)
        /\ Len(InsertByCreated(log, e)) = Len(log) + 1
    BY <2>1, InsertPlace
  <2>3. \A i \in 1..(Len(log) + 1) :
           InsertByCreated(log, e)[i] =
              IF i <= k THEN log[i] ELSE IF i = k + 1 THEN e ELSE log[i - 1]
    BY <2>1, InsertPlace
  <2> QED
    BY <2>2, <2>3
<1> HIDE DEF new, earlier
<1> SUFFICES ASSUME NEW i \in 1..(Len(log) + 1), NEW j \in 1..(Len(log) + 1),
                    i < j
             PROVE  new[i].created <= new[j].created
  <2>1. DOMAIN new = 1..(Len(log) + 1)
    BY <1>1, <1>4, LenProperties
  <2> QED
    BY <2>1 DEF Chronological, new
<1>5. CASE j <= k
  <2>1. i \in DOMAIN log /\ j \in DOMAIN log /\ new[i] = log[i] /\ new[j] = log[j]
    BY <1>1, <1>3, <1>4, <1>5
  <2> QED
    BY <2>1 DEF Chronological
<1>6. CASE i <= k /\ j = k + 1
  <2>1. i \in 1..Len(log) /\ new[i] = log[i] /\ new[j] = e
    BY <1>1, <1>3, <1>4, <1>6
  <2> QED
    BY <2>1, <1>3, <1>6
<1>7. CASE i <= k /\ j > k + 1
  <2>1. /\ i \in DOMAIN log /\ j - 1 \in DOMAIN log /\ i < j - 1
        /\ new[i] = log[i] /\ new[j] = log[j - 1]
    BY <1>1, <1>3, <1>4, <1>7
  <2> QED
    BY <2>1 DEF Chronological
<1>8. CASE i = k + 1
  <2>1. /\ j - 1 \in 1..Len(log) /\ ~(j - 1 <= k)
        /\ new[i] = e /\ new[j] = log[j - 1]
    BY <1>1, <1>3, <1>4, <1>8
  <2> QED
    BY <2>1, <1>1, <1>3
<1>9. CASE i > k + 1
  <2>1. /\ i - 1 \in DOMAIN log /\ j - 1 \in DOMAIN log /\ i - 1 < j - 1
        /\ new[i] = log[i - 1] /\ new[j] = log[j - 1]
    BY <1>1, <1>3, <1>4, <1>9
  <2> QED
    BY <2>1 DEF Chronological
<1> QED
  BY <1>1, <1>3, <1>5, <1>6, <1>7, <1>8, <1>9

-----------------------------------------------------------------------------
(* Induction over the length of a log.                                      *)

Less == OpToRel(<, Nat)

\* A set that holds zero and the successors of what it holds holds every
\* natural number.
LEMMA SetInduction ==
    ASSUME NEW S, 0 \in S, \A n \in Nat : n \in S => n + 1 \in S
    PROVE  Nat \subseteq S
<1> SUFFICES ASSUME Nat \ S # {} PROVE FALSE
  OBVIOUS
<1>1. \A x, y \in Nat : <<x, y>> \in Less <=> x < y
  BY DEF Less, OpToRel
<1>2. IsWellFoundedOn(Less, Nat)
  BY NatLessThanWellFounded DEF Less
<1>3. PICK x \in Nat \ S : \A y \in Nat \ S : ~ (<<y, x>> \in Less)
  BY <1>2, WFMin
<1>4. x - 1 \in Nat /\ x - 1 < x
  BY <1>3
<1>5. x - 1 \in S
  BY <1>1, <1>3, <1>4
<1> QED
  BY <1>3, <1>4, <1>5

\* A set of positions has a last one.
LEMMA LastPosition ==
    ASSUME NEW n \in Nat, NEW s \in SUBSET (1 .. n), s # {}
    PROVE  Max(s) \in s /\ \A i \in s : i <= Max(s)
<1> DEFINE HasLast(t) == t = {} \/ \E m \in t : \A i \in t : m >= i
           S == {k \in Nat : \A t \in SUBSET (1 .. k) : HasLast(t)}
<1>1. 0 \in S
  OBVIOUS
<1>2. ASSUME NEW k \in Nat, k \in S PROVE k + 1 \in S
  <2>1. ASSUME NEW t \in SUBSET (1 .. k + 1) PROVE HasLast(t)
    <3>1. CASE k + 1 \in t
      BY <3>1
    <3>2. CASE k + 1 \notin t
      <4>1. t \in SUBSET (1 .. k)
        BY <3>2
      <4> HIDE DEF HasLast
      <4> QED
        BY <1>2, <4>1
    <3> QED
      BY <3>1, <3>2
  <2> HIDE DEF HasLast
  <2> QED
    BY <2>1
<1>3. n \in S
  <2> HIDE DEF S
  <2> QED
    BY <1>1, <1>2, SetInduction
<1>4. \E m \in s : \A i \in s : m >= i
  BY <1>3
<1>5. Max(s) \in s /\ \A i \in s : Max(s) >= i
  BY <1>4 DEF Max
<1> QED
  BY <1>5

\* The function that folds R over the positions, the last one outermost.
IsFold(g, base, N, R) ==
    g = [s \in SUBSET (1 .. N) |->
           IF s = {} THEN base ELSE R[<<g[s \ {Max(s)}], Max(s)>>]]

\* A fold over positions whose step is given by a function exists.
LEMMA FoldExists ==
    ASSUME NEW D, NEW base \in D, NEW N \in Nat,
           NEW R \in [D \X (1 .. N) -> D]
    PROVE  \E g \in [SUBSET (1 .. N) -> D] : IsFold(g, base, N, R)
<1> DEFINE Folds(n, g) ==
              \A s \in SUBSET (1 .. n) :
                 g[s] = IF s = {} THEN base
                        ELSE R[<<g[s \ {Max(s)}], Max(s)>>]
           Folded(n) == \E g \in [SUBSET (1 .. n) -> D] : Folds(n, g)
           S == {n \in Nat : n <= N => Folded(n)}
<1>1. 0 \in S
  <2> DEFINE g0 == [s \in SUBSET (1 .. 0) |-> base]
  <2>1. g0 \in [SUBSET (1 .. 0) -> D] /\ Folds(0, g0)
    OBVIOUS
  <2> QED
    BY <2>1
<1>2. ASSUME NEW n \in Nat, n \in S PROVE n + 1 \in S
  <2> SUFFICES ASSUME n + 1 <= N
               PROVE  Folded(n + 1)
    <3> HIDE DEF Folded
    <3> QED
      OBVIOUS
  <2>1. PICK f \in [SUBSET (1 .. n) -> D] : Folds(n, f)
    <3>1. Folded(n)
      <4> HIDE DEF Folded
      <4> QED
        BY <1>2
    <3> HIDE DEF Folds
    <3> QED
      BY <3>1
  <2> DEFINE g == [s \in SUBSET (1 .. n + 1) |->
                     IF n + 1 \in s THEN R[<<f[s \ {n + 1}], n + 1>>]
                     ELSE f[s]]
  <2>2. \A s \in SUBSET (1 .. n + 1) : s \ {n + 1} \in SUBSET (1 .. n)
    OBVIOUS
  <2>3. g \in [SUBSET (1 .. n + 1) -> D]
    <3>1. ASSUME NEW s \in SUBSET (1 .. n + 1), n + 1 \in s
          PROVE  R[<<f[s \ {n + 1}], n + 1>>] \in D
      BY <2>2, <3>1
    <3>2. ASSUME NEW s \in SUBSET (1 .. n + 1), n + 1 \notin s
          PROVE  f[s] \in D
      BY <2>2, <3>2
    <3> QED
      BY <3>1, <3>2
  <2>4. \A s \in SUBSET (1 .. n) : g[s] = f[s]
    OBVIOUS
  <2>5. ASSUME NEW s \in SUBSET (1 .. n + 1), s # {}, n + 1 \in s
        PROVE  g[s] = R[<<g[s \ {Max(s)}], Max(s)>>]
    <3>1. Max(s) = n + 1
      <4>1. n + 1 \in Nat
        OBVIOUS
      <4>2. Max(s) \in s /\ \A i \in s : i <= Max(s)
        BY <2>5, <4>1, LastPosition
      <4>3. Max(s) \in 1 .. n + 1 /\ n + 1 <= Max(s)
        BY <2>5, <4>2
      <4> HIDE DEF g
      <4> QED
        BY <4>3
    <3>2. g[s] = R[<<f[s \ {n + 1}], n + 1>>]
      BY <2>5
    <3>3. g[s \ {n + 1}] = f[s \ {n + 1}]
      BY <2>2, <2>4
    <3> HIDE DEF g
    <3> QED
      BY <3>1, <3>2, <3>3
  <2>6. ASSUME NEW s \in SUBSET (1 .. n + 1), s # {}, n + 1 \notin s
        PROVE  g[s] = R[<<g[s \ {Max(s)}], Max(s)>>]
    <3>1. s \in SUBSET (1 .. n)
      BY <2>6
    <3>2. s \ {Max(s)} \in SUBSET (1 .. n)
      BY <3>1
    <3>3. f[s] = R[<<f[s \ {Max(s)}], Max(s)>>]
      BY <2>1, <2>6, <3>1
    <3> HIDE DEF g
    <3> QED
      BY <2>4, <3>1, <3>2, <3>3
  <2>7. g[{}] = base
    <3>1. f[{}] = base
      BY <2>1
    <3> QED
      BY <2>4, <3>1
  <2> HIDE DEF g
  <2>8. Folds(n + 1, g)
    BY <2>5, <2>6, <2>7
  <2> HIDE DEF Folds
  <2> QED
    BY <2>3, <2>8
<1>3. N \in S
  <2> HIDE DEF S
  <2> QED
    BY <1>1, <1>2, SetInduction
<1>4. PICK g \in [SUBSET (1 .. N) -> D] : Folds(N, g)
  <2>1. Folded(N)
    <3> HIDE DEF Folded
    <3> QED
      BY <1>3
  <2> HIDE DEF Folds
  <2> QED
    BY <2>1
<1>5. g = [s \in SUBSET (1 .. N) |->
             IF s = {} THEN base ELSE R[<<g[s \ {Max(s)}], Max(s)>>]]
  BY <1>4
<1> QED
  BY <1>5 DEF IsFold

\* The last of the positions 1 .. n.
LEMMA LastOfPrefix ==
    \A n \in Nat \ {0} : Max(1 .. n) = n /\ (1 .. n) \ {n} = 1 .. n - 1
<1> SUFFICES ASSUME NEW n \in Nat \ {0}
             PROVE  Max(1 .. n) = n /\ (1 .. n) \ {n} = 1 .. n - 1
  OBVIOUS
<1>1. n \in 1 .. n /\ 1 .. n \in SUBSET (1 .. n) /\ 1 .. n # {}
  OBVIOUS
<1>2. Max(1 .. n) \in 1 .. n /\ \A i \in 1 .. n : i <= Max(1 .. n)
  BY <1>1, LastPosition
<1>3. n <= Max(1 .. n)
  BY <1>1, <1>2
<1> QED
  BY <1>2, <1>3

-----------------------------------------------------------------------------
(* The state of a payment.                                                  *)

\* How OfType goes through the events.
LEMMA OfTypeFolds ==
    ASSUME NEW S, NEW log \in Seq(S), NEW types
    PROVE  \E g : /\ g[0] = <<>>
                  /\ \A n \in 1 .. Len(log) :
                        g[n] = IF log[n].type \in types
                               THEN Append(g[n - 1], log[n])
                               ELSE g[n - 1]
                  /\ OfType(log, types) = g[Len(log)]
<1> DEFINE N == Len(log)
           keep(kept, e) == IF e.type \in types THEN Append(kept, e) ELSE kept
           Eqn(g) == g = [n \in 0 .. N |->
                            IF n = 0 THEN <<>> ELSE keep(g[n - 1], log[n])]
           R == [x \in Seq(S) \X (1 .. N) |-> keep(x[1], log[x[2]])]
<1>1. /\ N \in Nat /\ DOMAIN log = 1 .. N
      /\ \A i \in 1 .. N : log[i] \in S
  BY LenProperties, ElementOfSeq
<1> HIDE DEF N
<1>2. <<>> \in Seq(S)
  OBVIOUS
<1>3. R \in [Seq(S) \X (1 .. N) -> Seq(S)]
  BY <1>1
<1>4. \A x \in Seq(S), i \in 1 .. N : R[<<x, i>>] = keep(x, log[i])
  <2> HIDE DEF keep
  <2> QED
    OBVIOUS
<1>5. \E g : Eqn(g)
  <2>0. \A n \in 1 .. N :
           1 .. n \in SUBSET (1 .. N) /\ 1 .. n # {} /\ n \in Nat \ {0}
    BY <1>1
  <2>1. PICK f \in [SUBSET (1 .. N) -> Seq(S)] : IsFold(f, <<>>, N, R)
    <3>1. N \in Nat
      BY <1>1
    <3> HIDE DEF R
    <3> QED
      BY <1>2, <1>3, <3>1, FoldExists, Zenon
  <2> DEFINE g == [n \in 0 .. N |-> f[1 .. n]]
  <2>2. ASSUME NEW n \in 1 .. N
        PROVE  f[1 .. n] = keep(f[1 .. n - 1], log[n])
    <3> HIDE DEF R, keep
    <3>1. 1 .. n \in SUBSET (1 .. N) /\ 1 .. n # {} /\ n \in Nat \ {0}
      BY <2>0
    <3>2. Max(1 .. n) = n /\ (1 .. n) \ {n} = 1 .. n - 1
      BY <3>1, LastOfPrefix
    <3>3. f[(1 .. n) \ {n}] \in Seq(S)
      BY <3>1
    <3>4. f[1 .. n] = R[<<f[(1 .. n) \ {Max(1 .. n)}], Max(1 .. n)>>]
      BY <2>1, <3>1 DEF IsFold
    <3> QED
      BY <1>4, <3>2, <3>3, <3>4
  <2>3. f[1 .. 0] = <<>>
    <3>1. 1 .. 0 = {} /\ 1 .. 0 \in SUBSET (1 .. N)
      OBVIOUS
    <3> HIDE DEF R
    <3> QED
      BY <2>1, <3>1 DEF IsFold
  <2>4. \A n \in 0 .. N : g[n] = IF n = 0 THEN <<>> ELSE keep(g[n - 1], log[n])
    <3> TAKE n \in 0 .. N
    <3>1. n = 0 => g[n] = <<>>
      BY <2>3
    <3>2. n # 0 => n \in 1 .. N /\ n - 1 \in 0 .. N
      BY <1>1
    <3> HIDE DEF keep
    <3> QED
      BY <2>2, <3>1, <3>2
  <2>5. Eqn(g)
    <3> HIDE DEF keep
    <3>1. \A n \in 0 .. N :
             f[1 .. n] = IF n = 0 THEN <<>> ELSE keep(g[n - 1], log[n])
      BY <2>4
    <3> QED
      BY <3>1, Zenon
  <2> HIDE DEF Eqn
  <2> QED
    BY <2>5
<1> DEFINE g == CHOOSE g : Eqn(g)
<1>6. Eqn(g)
  <2> HIDE DEF Eqn
  <2> QED
    BY <1>5
<1>7. OfType(log, types) = g[N]
  BY <1>1 DEF OfType, N
<1> HIDE DEF g
<1>8. \A n \in 0 .. N : g[n] = IF n = 0 THEN <<>> ELSE keep(g[n - 1], log[n])
  <2> HIDE DEF keep
  <2> QED
    BY <1>6
<1>9. g[0] = <<>> /\ \A n \in 1 .. N : g[n] = keep(g[n - 1], log[n])
  <2>1. 0 \in 0 .. N /\ \A n \in 1 .. N : n \in 0 .. N /\ n # 0
    BY <1>1
  <2> HIDE DEF keep
  <2> QED
    BY <1>8, <2>1
<1> QED
  BY <1>7, <1>9 DEF N

\* OfType leaves events of the given types only.
LEMMA OfTypeType ==
    ASSUME NEW S, NEW log \in Seq(S), NEW types
    PROVE  OfType(log, types) \in Seq({e \in S : e.type \in types})
<1> DEFINE kept == {e \in S : e.type \in types}
<1>1. PICK g : /\ g[0] = <<>>
               /\ \A n \in 1 .. Len(log) :
                     g[n] = IF log[n].type \in types
                                 THEN Append(g[n - 1], log[n])
                                 ELSE g[n - 1]
               /\ OfType(log, types) = g[Len(log)]
  BY OfTypeFolds
<1>2. Len(log) \in Nat /\ \A i \in 1 .. Len(log) : log[i] \in S
  BY LenProperties, ElementOfSeq
<1> DEFINE P == {n \in Nat : n <= Len(log) => g[n] \in Seq(kept)}
<1>3. 0 \in P
  <2>1. <<>> \in Seq(kept)
    OBVIOUS
  <2> HIDE DEF kept
  <2> QED
    BY <1>1, <2>1
<1>4. ASSUME NEW n \in Nat, n \in P PROVE n + 1 \in P
  <2> SUFFICES ASSUME n + 1 <= Len(log) PROVE g[n + 1] \in Seq(kept)
    OBVIOUS
  <2>1. n + 1 \in 1 .. Len(log) /\ (n + 1) - 1 = n /\ n <= Len(log)
    BY <1>2
  <2>2. g[n] \in Seq(kept)
    BY <1>4, <2>1
  <2>3. g[n + 1] = IF log[n + 1].type \in types
                        THEN Append(g[n], log[n + 1]) ELSE g[n]
    BY <1>1, <2>1
  <2>4. log[n + 1].type \in types => log[n + 1] \in kept
    BY <1>2, <2>1
  <2> HIDE DEF kept
  <2>5. log[n + 1].type \in types
           => Append(g[n], log[n + 1]) \in Seq(kept)
    BY <2>2, <2>4, AppendProperties
  <2> QED
    BY <2>2, <2>3, <2>5, Zenon
<1>5. Len(log) \in P
  <2> HIDE DEF P
  <2> QED
    BY <1>2, <1>3, <1>4, SetInduction
<1> QED
  BY <1>1, <1>5

\* When all events are of the given types, OfType leaves them as they are.
LEMMA OfTypeAll ==
    ASSUME NEW S, NEW log \in Seq(S), NEW types,
           \A i \in 1 .. Len(log) : log[i].type \in types
    PROVE  OfType(log, types) = log
<1>1. PICK g : /\ g[0] = <<>>
               /\ \A n \in 1 .. Len(log) :
                     g[n] = IF log[n].type \in types
                                 THEN Append(g[n - 1], log[n])
                                 ELSE g[n - 1]
               /\ OfType(log, types) = g[Len(log)]
  BY OfTypeFolds
<1>2. Len(log) \in Nat /\ \A i \in 1 .. Len(log) : log[i] \in S
  BY LenProperties, ElementOfSeq
<1> DEFINE Copies(n) == /\ g[n] \in Seq(S)
                        /\ Len(g[n]) = n
                        /\ \A i \in 1 .. n : g[n][i] = log[i]
           P == {n \in Nat : n <= Len(log) => Copies(n)}
<1>3. 0 \in P
  <2>1. Copies(0)
    BY <1>1
  <2> HIDE DEF Copies
  <2> QED
    BY <2>1
<1>4. ASSUME NEW n \in Nat, n \in P PROVE n + 1 \in P
  <2> HIDE DEF Copies
  <2> SUFFICES ASSUME n + 1 <= Len(log) PROVE Copies(n + 1)
    OBVIOUS
  <2>1. n + 1 \in 1 .. Len(log) /\ (n + 1) - 1 = n /\ n <= Len(log)
    BY <1>2
  <2>2. Copies(n)
    BY <1>4, <2>1
  <2>3. g[n + 1] = Append(g[n], log[n + 1]) /\ log[n + 1] \in S
    BY <1>1, <1>2, <2>1
  <2>4. PICK old \in Seq(S) : old = g[n]
    BY <2>2 DEF Copies
  <2>5. Len(old) = n /\ \A i \in 1 .. n : old[i] = log[i]
    BY <2>2, <2>4 DEF Copies
  <2>6. PICK new : new = Append(old, log[n + 1])
    OBVIOUS
  <2>7. /\ new \in Seq(S) /\ Len(new) = n + 1
        /\ \A i \in 1 .. n : new[i] = log[i]
        /\ new[n + 1] = log[n + 1]
    BY <2>3, <2>5, <2>6, AppendProperties
  <2>8. g[n + 1] = new
    BY <2>3, <2>4, <2>6, Zenon
  <2>9. \A i \in 1 .. n + 1 : i \in 1 .. n \/ i = n + 1
    OBVIOUS
  <2> QED
    BY <2>7, <2>8, <2>9 DEF Copies
<1>5. Len(log) \in P
  <2> HIDE DEF P
  <2> QED
    BY <1>2, <1>3, <1>4, SetInduction
<1>6. PICK new : new = OfType(log, types)
  OBVIOUS
<1>7. Copies(Len(log))
  <2> HIDE DEF Copies
  <2> QED
    BY <1>2, <1>5
<1>8. new \in Seq(S) /\ Len(new) = Len(log) /\ \A i \in 1 .. Len(log) : new[i] = log[i]
  BY <1>1, <1>6, <1>7
<1>9. new = log
  BY <1>8, SeqEqual
<1> QED
  BY <1>6, <1>9

Unpaid == [status |-> "Pending", chargeIdLatest |-> NoCharge]

States(C) == [status : PaymentStatus \cup {Unknown}, chargeIdLatest : C]

\* The state machine ends with its reaction to the last event.
LEMMA MachineEnds ==
    ASSUME NEW S, NEW charges \in Seq(S)
    PROVE  /\ charges = <<>>
                 => FoldLeft(chargeStateReducer, Unpaid, charges) = Unpaid
           /\ charges # <<>>
                 => \E C : \E state \in States(C) :
                       FoldLeft(chargeStateReducer, Unpaid, charges)
                          = chargeStateReducer(state, Last(charges))
<1> DEFINE N == Len(charges)
           next(x, e) == chargeStateReducer(x, e)
           Eqn(g) == g = [s \in SUBSET (1 .. N) |->
                            IF s = {} THEN Unpaid
                            ELSE next(g[s \ {Max(s)}], charges[Max(s)])]
           C == {charges[i].charge : i \in 1 .. N} \cup {NoCharge}
           D == States(C)
           R == [x \in D \X (1 .. N) |-> next(x[1], charges[x[2]])]
<1>1. N \in Nat /\ DOMAIN charges = 1 .. N
  BY LenProperties
<1> HIDE DEF N
<1>2. Unpaid \in D
  BY DEF Unpaid, PaymentStatus, States
<1>3. \A x \in D, i \in 1 .. N : next(x, charges[i]) \in D
  <2> TAKE x \in D, i \in 1 .. N
  <2> PICK e : e = charges[i]
    OBVIOUS
  <2>1. e.charge \in C
    OBVIOUS
  <2> HIDE DEF C
  <2> QED
    BY <2>1 DEF chargeStateReducer, PaymentStatus, RefundStatus, States
<1> HIDE DEF C, D, next
<1>4. R \in [D \X (1 .. N) -> D]
  BY <1>3
<1>5. \A x \in D, i \in 1 .. N : R[<<x, i>>] = next(x, charges[i])
  OBVIOUS
<1> HIDE DEF R
<1>6. \E g : Eqn(g)
  <2>1. PICK g \in [SUBSET (1 .. N) -> D] : IsFold(g, Unpaid, N, R)
    BY <1>1, <1>2, <1>4, FoldExists
  <2>2. ASSUME NEW s \in SUBSET (1 .. N), s # {}
        PROVE  R[<<g[s \ {Max(s)}], Max(s)>>]
                  = next(g[s \ {Max(s)}], charges[Max(s)])
    <3>1. Max(s) \in 1 .. N
      BY <1>1, <2>2, LastPosition
    <3>2. g[s \ {Max(s)}] \in D
      OBVIOUS
    <3> QED
      BY <1>5, <3>1, <3>2
  <2>3. \A s \in SUBSET (1 .. N) :
           (IF s = {} THEN Unpaid ELSE R[<<g[s \ {Max(s)}], Max(s)>>])
              = IF s = {} THEN Unpaid
                ELSE next(g[s \ {Max(s)}], charges[Max(s)])
    BY <2>2
  <2>4. Eqn(g)
    BY <2>1, <2>3 DEF IsFold
  <2> HIDE DEF Eqn
  <2> QED
    BY <2>4
<1> DEFINE g == CHOOSE g : Eqn(g)
<1>7. Eqn(g)
  <2> HIDE DEF Eqn
  <2> QED
    BY <1>6
<1>8. FoldLeft(chargeStateReducer, Unpaid, charges) = g[1 .. N]
  BY <1>1 DEF FoldLeft, MapThenFoldSet, next
<1> HIDE DEF g
<1>9. \A s \in SUBSET (1 .. N) :
         g[s] = IF s = {} THEN Unpaid
                ELSE next(g[s \ {Max(s)}], charges[Max(s)])
  <2>1. g = [s \in SUBSET (1 .. N) |->
               IF s = {} THEN Unpaid
               ELSE next(g[s \ {Max(s)}], charges[Max(s)])]
    BY <1>7
  <2> QED
    BY <2>1
<1>10. g[{}] = Unpaid
  BY <1>9
<1>11. \A n \in 1 .. N : g[1 .. n] = next(g[1 .. n - 1], charges[n])
  <2> TAKE n \in 1 .. N
  <2>1. 1 .. n \in SUBSET (1 .. N) /\ 1 .. n # {} /\ n \in Nat \ {0}
    BY <1>1
  <2>2. Max(1 .. n) = n /\ (1 .. n) \ {n} = 1 .. n - 1
    BY <2>1, LastOfPrefix
  <2>3. g[1 .. n] = next(g[(1 .. n) \ {Max(1 .. n)}], charges[Max(1 .. n)])
    BY <1>9, <2>1
  <2> QED
    BY <2>2, <2>3
<1>12. \A n \in 0 .. N : g[1 .. n] \in D
  <2> DEFINE P == {n \in Nat : n <= N => g[1 .. n] \in D}
  <2>1. 0 \in P
    <3>1. 1 .. 0 = {}
      OBVIOUS
    <3> QED
      BY <1>2, <1>10, <3>1
  <2>2. ASSUME NEW n \in Nat, n \in P PROVE n + 1 \in P
    <3> SUFFICES ASSUME n + 1 <= N PROVE g[1 .. n + 1] \in D
      OBVIOUS
    <3>1. n + 1 \in 1 .. N /\ (n + 1) - 1 = n /\ g[1 .. n] \in D
      BY <1>1, <2>2
    <3>2. g[1 .. n + 1] = next(g[1 .. n], charges[n + 1])
      BY <1>11, <3>1
    <3> QED
      BY <1>3, <3>1, <3>2
  <2>3. Nat \subseteq P
    <3> HIDE DEF P
    <3> QED
      BY <2>1, <2>2, SetInduction
  <2> QED
    BY <1>1, <2>3
<1>13. CASE charges = <<>>
  <2>1. N = 0 /\ 1 .. 0 = {}
    BY <1>13 DEF N
  <2> QED
    BY <1>8, <1>10, <1>13, <2>1
<1>14. CASE charges # <<>>
  <2>1. N \in 1 .. N /\ N - 1 \in 0 .. N
    BY <1>1, <1>14, EmptySeq DEF N
  <2>2. g[1 .. N - 1] \in D
    BY <1>12, <2>1
  <2>3. FoldLeft(chargeStateReducer, Unpaid, charges)
           = next(g[1 .. N - 1], charges[N])
    BY <1>8, <1>11, <2>1
  <2>5. Last(charges) = charges[N]
    BY DEF Last, N
  <2> QED
    BY <1>14, <2>2, <2>3, <2>5 DEF next, D
<1> QED
  BY <1>13, <1>14

\* Where the state machine knows what an event means, it is what the event
\* says on its own.
LEMMA KnownIsFallback ==
    ASSUME NEW C, NEW state \in States(C), NEW e,
           chargeStateReducer(state, e).status \in PaymentStatus
    PROVE  chargeStateReducer(state, e)
              = [status |-> FallbackStatus(e), chargeIdLatest |-> e.charge]
  BY DEF States, chargeStateReducer, FallbackStatus, PaymentStatus, Unknown,
     DisputeTypes, DisputeFollowUp, RefundStatus

\* The state machine adds nothing: the last charge event alone decides the
\* status and the charge, whatever was logged before it.
THEOREM LastDecides ==
    ASSUME NEW S, NEW log \in Seq(S)
    PROVE  LET charges == OfType(log, ChargeTypes)
           IN  computePaymentState(log) =
                  IF charges = <<>> THEN Unpaid ELSE Fallback(charges)
<1> DEFINE charges == OfType(log, ChargeTypes)
           final == FoldLeft(chargeStateReducer, Unpaid, charges)
<1>1. charges \in Seq({e \in S : e.type \in ChargeTypes})
  BY OfTypeType
<1>2. computePaymentState(log) =
         IF final.status \in PaymentStatus THEN final ELSE Fallback(charges)
  BY DEF computePaymentState, Unpaid
<1> HIDE DEF charges
<1>3. charges = <<>> => final = Unpaid
  BY <1>1, MachineEnds
<1>4. charges # <<>> => \E C : \E state \in States(C) :
                           final = chargeStateReducer(state, Last(charges))
  BY <1>1, MachineEnds
<1> HIDE DEF final
<1>5. CASE charges = <<>>
  BY <1>2, <1>3, <1>5 DEF Unpaid, PaymentStatus, charges
<1>6. CASE charges # <<>> /\ final.status \in PaymentStatus
  <2>1. final = [status |-> FallbackStatus(Last(charges)),
                 chargeIdLatest |-> Last(charges).charge]
    BY <1>4, <1>6, KnownIsFallback
  <2>2. Fallback(charges) = [status |-> FallbackStatus(Last(charges)),
                             chargeIdLatest |-> Last(charges).charge]
    BY <1>6 DEF Fallback
  <2> QED
    BY <1>2, <1>6, <2>1, <2>2 DEF charges
<1>7. CASE charges # <<>> /\ final.status \notin PaymentStatus
  BY <1>2, <1>7 DEF charges
<1> QED
  BY <1>5, <1>6, <1>7

\* A log always has a status: ComputePaymentStateError never occurs.
THEOREM StateAlwaysComputed ==
    ASSUME NEW S, NEW log \in Seq(S)
    PROVE  computePaymentState(log).status \in PaymentStatus
<1> DEFINE charges == OfType(log, ChargeTypes)
<1>1. charges \in Seq({e \in S : e.type \in ChargeTypes})
  BY OfTypeType
<1>2. computePaymentState(log) =
         IF charges = <<>> THEN Unpaid ELSE Fallback(charges)
  BY LastDecides
<1> HIDE DEF charges
<1>3. CASE charges = <<>>
  BY <1>2, <1>3 DEF Unpaid, PaymentStatus
<1>4. CASE charges # <<>>
  <2>1. Last(charges).type \in ChargeTypes
    <3>1. Len(charges) \in 1 .. Len(charges)
      BY <1>1, <1>4, LenProperties, EmptySeq
    <3>2. charges[Len(charges)] \in {e \in S : e.type \in ChargeTypes}
      BY <1>1, <3>1, ElementOfSeq
    <3> QED
      BY <3>2 DEF Last
  <2>2. FallbackStatus(Last(charges)) \in PaymentStatus
    BY <2>1 DEF FallbackStatus, ChargeTypes, DisputeTypes, DisputeFollowUp,
       PaymentStatus, RefundStatus
  <2> QED
    BY <1>2, <1>4, <2>2 DEF Fallback
<1> QED
  BY <1>3, <1>4

\* Before the first event of a payment there is nothing to compute from.
LEMMA NothingComputed ==
    /\ computePaymentState(<<>>) = Unpaid
    /\ computePayoutDetails(<<>>) = NoPayout
<1>0. <<>> \in Seq({}) /\ 1 .. Len(<<>>) = {}
  OBVIOUS
<1>1. \A types : OfType(<<>>, types) = <<>>
  BY <1>0, OfTypeAll
<1>2. computePaymentState(<<>>) = Unpaid
  BY <1>0, <1>1, LastDecides
<1>3. FoldLeft(payoutStateReducer, NoPayout, <<>>) = NoPayout
  <2> DEFINE Eqn(g) == g = [s \in SUBSET {} |->
                              IF s = {} THEN NoPayout
                              ELSE payoutStateReducer(g[s \ {Max(s)}],
                                                      <<>>[Max(s)])]
             g0 == [s \in SUBSET {} |-> NoPayout]
  <2>d. DOMAIN <<>> = {}
    OBVIOUS
  <2>1. Eqn(g0)
    OBVIOUS
  <2>2. Eqn(CHOOSE g : Eqn(g))
    <3> HIDE DEF Eqn, g0
    <3> QED
      BY <2>1
  <2>3. (CHOOSE g : Eqn(g))[{}] = NoPayout
    BY <2>2
  <2>4. FoldLeft(payoutStateReducer, NoPayout, <<>>) = (CHOOSE g : Eqn(g))[{}]
    BY <2>d DEF FoldLeft, MapThenFoldSet
  <2> QED
    BY <2>3, <2>4
<1> QED
  BY <1>1, <1>2, <1>3 DEF computePayoutDetails

=============================================================================
