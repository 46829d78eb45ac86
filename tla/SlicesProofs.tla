---------------------------- MODULE SlicesProofs -----------------------------
(***************************************************************************)
(* Facts about sequences that the proofs of the components keep needing:   *)
(* what Keep returns of every sequence, and what is at the places of the   *)
(* sequences that a push, a pop or a change of the top leaves. tlapm has   *)
(* no induction over data of its own; SetInduction states it of a set.     *)
(***************************************************************************)
EXTENDS Slices, SequencesExt, FiniteSetTheorems, WellFoundedInduction, SequenceTheorems, TLAPS

\* Induction over the naturals, stated of a set of them: the provers cannot
\* instantiate the operator of the library's NatInduction.
LEMMA SetInduction ==
  ASSUME NEW T \in SUBSET Nat, 0 \in T, \A n \in T : n + 1 \in T
  PROVE T = Nat
<1> SUFFICES ASSUME T # Nat PROVE FALSE
    OBVIOUS
<1>1. PICK x \in Nat \ T : \A y \in Nat \ T : ~(<<y, x>> \in OpToRel(<, Nat))
  <2>1. IsWellFoundedOn(OpToRel(<, Nat), Nat)
    BY NatLessThanWellFounded
  <2>2. Nat \ T \subseteq Nat /\ Nat \ T # {}
    OBVIOUS
  <2> QED
    BY <2>1, <2>2, WFMin
<1>2. \A y \in Nat \ T : ~(y < x)
  BY <1>1 DEF OpToRel
<1>3. x - 1 \in T
  BY <1>2
<1> QED
  BY <1>3

\* The same up to a bound.
LEMMA BoundedInduction ==
  ASSUME NEW m \in Nat, NEW T, 0 \in T, \A n \in 0 .. m - 1 : n \in T => n + 1 \in T
  PROVE \A n \in 0 .. m : n \in T
<1> DEFINE U == {n \in Nat : n <= m => n \in T}
<1>1. 0 \in U
  OBVIOUS
<1>2. \A n \in U : n + 1 \in U
  OBVIOUS
<1>3. U \in SUBSET Nat
  OBVIOUS
<1>4. U = Nat
  <2> HIDE DEF U
  <2> QED
    BY <1>1, <1>2, <1>3, SetInduction
<1> QED
  BY <1>4

\* f is where the loop of Keep has come to at each position up to n.
Upto(f, s, S, n) ==
  /\ f[0] = <<>>
  /\ \A i \in 1 .. n : f[i] = IF s[i] \in S THEN Append(f[i - 1], s[i]) ELSE f[i - 1]

\* There is such an f, of sequences of S.
LEMMA SomeUpto ==
  ASSUME NEW E, NEW s \in Seq(E), NEW S
  PROVE \E f \in [0 .. Len(s) -> Seq(S \cap E)] : Upto(f, s, S, Len(s))
<1> DEFINE T == {n \in Nat : \E f \in [0 .. n -> Seq(S \cap E)] : Upto(f, s, S, n)}
<1>0. Len(s) \in Nat
  OBVIOUS
<1>1. 0 \in T
  <2>1. [i \in 0 .. 0 |-> <<>>] \in [0 .. 0 -> Seq(S \cap E)]
    OBVIOUS
  <2>2. Upto([i \in 0 .. 0 |-> <<>>], s, S, 0)
    BY DEF Upto
  <2> QED
    BY <2>1, <2>2
<1>2. ASSUME NEW n \in 0 .. Len(s) - 1, n \in T PROVE n + 1 \in T
  <2>1. PICK f \in [0 .. n -> Seq(S \cap E)] : Upto(f, s, S, n)
    BY <1>2
  <2> HIDE DEF T
  <2>2. n \in Nat /\ n + 1 \in Nat /\ n \in 0 .. n /\ f[n] \in Seq(S \cap E) /\ s[n + 1] \in E
    BY <1>0, ElementOfSeq
  <2> DEFINE new == IF s[n + 1] \in S THEN Append(f[n], s[n + 1]) ELSE f[n]
             g == [i \in 0 .. n + 1 |-> IF i <= n THEN f[i] ELSE new]
  <2>3. new \in Seq(S \cap E)
    BY <2>2, AppendProperties
  <2> HIDE DEF new
  <2>4. g \in [0 .. n + 1 -> Seq(S \cap E)]
    BY <2>2, <2>3
  <2>5. g[n + 1] = new /\ \A i \in 0 .. n : g[i] = f[i]
    BY <2>2
  <2> HIDE DEF g
  <2>6. ASSUME NEW i \in 1 .. n + 1
        PROVE g[i] = IF s[i] \in S THEN Append(g[i - 1], s[i]) ELSE g[i - 1]
    <3>1. CASE i = n + 1
      BY <2>2, <2>5, <3>1 DEF new
    <3>2. CASE i # n + 1
      <4>1. i \in 1 .. n /\ i \in 0 .. n /\ i - 1 \in 0 .. n
        BY <2>2, <3>2
      <4> QED
        BY <2>1, <2>5, <4>1 DEF Upto
    <3> QED
      BY <3>1, <3>2
  <2>7. g[0] = <<>>
    BY <2>1, <2>2, <2>5 DEF Upto
  <2> QED
    BY <2>2, <2>4, <2>6, <2>7 DEF T, Upto
<1>3. Len(s) \in T
  <2> HIDE DEF T
  <2>1. \A n \in 0 .. Len(s) - 1 : n \in T => n + 1 \in T
    BY <1>2
  <2>2. \A n \in 0 .. Len(s) : n \in T
    BY <1>0, <1>1, <2>1, BoundedInduction
  <2> QED
    BY <1>0, <2>2
<1> QED
  BY <1>3

\* Any two agree.
LEMMA UptoUnique ==
  ASSUME NEW n \in Nat, NEW s, NEW S, NEW f, NEW g, Upto(f, s, S, n), Upto(g, s, S, n)
  PROVE \A i \in 0 .. n : f[i] = g[i]
<1> DEFINE T == {i \in Nat : f[i] = g[i]}
<1>1. 0 \in T
  BY DEF Upto
<1>2. ASSUME NEW i \in 0 .. n - 1, i \in T PROVE i + 1 \in T
  <2>1. i + 1 \in 1 .. n /\ (i + 1) - 1 = i /\ i + 1 \in Nat
    OBVIOUS
  <2>2. f[i] = g[i]
    BY <1>2
  <2>3. f[i + 1] = g[i + 1]
    BY <2>1, <2>2 DEF Upto
  <2> QED
    BY <2>1, <2>3
<1> HIDE DEF T
<1>3. \A i \in 0 .. n : i \in T
  BY <1>1, <1>2, BoundedInduction
<1> QED
  BY <1>3 DEF T

\* So Keep is what each of them ends with.
LEMMA KeepIs ==
  ASSUME NEW E, NEW s \in Seq(E), NEW S
  PROVE /\ Keep(s, S) \in Seq(S \cap E)
        /\ \A f : Upto(f, s, S, Len(s)) => Keep(s, S) = f[Len(s)]
<1> DEFINE Follows(f) ==
             f = [i \in 0 .. Len(s) |->
                    IF i = 0 THEN <<>>
                    ELSE IF s[i] \in S THEN Append(f[i - 1], s[i]) ELSE f[i - 1]]
           kept == CHOOSE f : Follows(f)
<1>0. Len(s) \in Nat
  OBVIOUS
<1>1. PICK f \in [0 .. Len(s) -> Seq(S \cap E)] : Upto(f, s, S, Len(s))
  BY SomeUpto
<1>2. Follows(f)
  <2>1. f = [i \in 0 .. Len(s) |-> f[i]]
    OBVIOUS
  <2>2. \A i \in 0 .. Len(s) :
           f[i] = IF i = 0 THEN <<>>
                  ELSE IF s[i] \in S THEN Append(f[i - 1], s[i]) ELSE f[i - 1]
    <3> HIDE DEF Follows, kept
    <3>1. f[0] = <<>> /\ \A i \in 1 .. Len(s) :
            f[i] = IF s[i] \in S THEN Append(f[i - 1], s[i]) ELSE f[i - 1]
      BY <1>1 DEF Upto
    <3>2. \A i \in 0 .. Len(s) : i = 0 \/ (i # 0 /\ i \in 1 .. Len(s))
      BY <1>0
    <3> QED
      BY <3>1, <3>2, Zenon
  <2> QED
    BY <2>1, <2>2, Zenon
<1>3. Follows(kept)
  <2> HIDE DEF Follows
  <2> QED
    BY <1>2
<1>4. Upto(kept, s, S, Len(s))
  <2> HIDE DEF kept
  <2>1. \A i \in 0 .. Len(s) :
           kept[i] = IF i = 0 THEN <<>>
                     ELSE IF s[i] \in S THEN Append(kept[i - 1], s[i]) ELSE kept[i - 1]
    BY <1>3
  <2>2. \A i \in 1 .. Len(s) : i \in 0 .. Len(s) /\ i # 0
    BY <1>0
  <2>3. \A i \in 1 .. Len(s) : kept[i] = IF s[i] \in S THEN Append(kept[i - 1], s[i]) ELSE kept[i - 1]
    BY <2>1, <2>2, Zenon
  <2>4. 0 \in 0 .. Len(s)
    BY <1>0
  <2>5. kept[0] = <<>>
    BY <2>1, <2>4, Zenon
  <2> QED
    BY <2>3, <2>5, Zenon DEF Upto
<1>5. Keep(s, S) = kept[Len(s)]
  BY DEF Keep
<1> HIDE DEF kept
<1>6. ASSUME NEW g, Upto(g, s, S, Len(s)) PROVE Keep(s, S) = g[Len(s)]
  BY <1>0, <1>4, <1>5, <1>6, UptoUnique
<1>7. Keep(s, S) \in Seq(S \cap E)
  <2>1. Keep(s, S) = f[Len(s)] /\ Len(s) \in 0 .. Len(s)
    BY <1>0, <1>1, <1>6
  <2> QED
    BY <2>1
<1> QED
  BY <1>6, <1>7

LEMMA KeepType ==
  ASSUME NEW E, NEW s \in Seq(E), NEW S
  PROVE Keep(s, S) \in Seq(S) /\ Keep(s, S) \in Seq(E)
<1>1. Keep(s, S) \in Seq(S \cap E)
  BY KeepIs
<1> QED
  BY <1>1, SeqMonotonic

LEMMA KeepEmpty == ASSUME NEW S PROVE Keep(<<>>, S) = <<>>
<1>1. <<>> \in Seq({}) /\ Len(<<>>) = 0
  OBVIOUS
<1>2. Upto([i \in {0} |-> <<>>], <<>>, S, 0)
  BY DEF Upto
<1> HIDE DEF Upto
<1> QED
  BY <1>1, <1>2, KeepIs

\* The turn of the loop for one more element.
LEMMA KeepAppend ==
  ASSUME NEW E, NEW s \in Seq(E), NEW x \in E, NEW S
  PROVE Keep(Append(s, x), S) = IF x \in S THEN Append(Keep(s, S), x) ELSE Keep(s, S)
<1> DEFINE t == Append(s, x)
<1>1. /\ t \in Seq(E) /\ Len(s) \in Nat /\ Len(t) = Len(s) + 1 /\ t[Len(s) + 1] = x
      /\ \A i \in 1 .. Len(s) : t[i] = s[i]
  BY AppendProperties
<1> HIDE DEF t
<1>2. PICK f : Upto(f, t, S, Len(t))
  BY <1>1, SomeUpto
<1>3. Upto(f, s, S, Len(s))
  BY <1>1, <1>2 DEF Upto
<1>4. Keep(s, S) = f[Len(s)] /\ Keep(t, S) = f[Len(t)]
  BY <1>1, <1>2, <1>3, KeepIs
<1>5. f[Len(s) + 1] = IF x \in S THEN Append(f[Len(s)], x) ELSE f[Len(s)]
  BY <1>1, <1>2 DEF Upto
<1> QED
  BY <1>1, <1>4, <1>5 DEF t

\* Associativity under a name, for the provers to use it without unfolding \o.
Associates(a, b, c) == (a \o b) \o c = a \o (b \o c)

LEMMA Association == \A E : \A a, b, c \in Seq(E) : Associates(a, b, c)
BY ConcatAssociative DEF Associates

\* Keep distributes over concatenation.
LEMMA KeepConcat ==
  ASSUME NEW E, NEW s \in Seq(E), NEW t \in Seq(E), NEW S
  PROVE Keep(s \o t, S) = Keep(s, S) \o Keep(t, S)
<1> DEFINE T == {n \in Nat : Keep(s \o SubSeq(t, 1, n), S) = Keep(s, S) \o Keep(SubSeq(t, 1, n), S)}
<1>0. Len(t) \in Nat /\ Keep(s, S) \in Seq(S)
  BY KeepType
<1>1. 0 \in T
  <2>1. SubSeq(t, 1, 0) = <<>>
    BY SubSeqEmpty
  <2>2. s \o <<>> = s /\ Keep(s, S) \o <<>> = Keep(s, S)
    BY <1>0, ConcatEmptySeq
  <2> QED
    BY <2>1, <2>2, KeepEmpty
<1>2. ASSUME NEW n \in 0 .. Len(t) - 1, n \in T PROVE n + 1 \in T
  <2> DEFINE u == SubSeq(t, 1, n)
             x == t[n + 1]
  <2>1. Keep(s \o u, S) = Keep(s, S) \o Keep(u, S)
    BY <1>2
  <2> HIDE DEF T
  <2>2. n \in Nat /\ n + 1 \in 1 .. Len(t) /\ (n + 1) - 1 = n /\ x \in E
    BY <1>0, ElementOfSeq
  <2>3. u \in Seq(E)
    BY <1>0, <2>2, SubSeqProperties, ElementOfSeq
  <2>4. SubSeq(t, 1, n + 1) = u \o <<x>>
    BY <1>0, <2>2, SubSeqRecursiveSecond
  <2> HIDE DEF u, x
  <2>5. SubSeq(t, 1, n + 1) = Append(u, x)
    BY <2>2, <2>3, <2>4, AppendIsConcat
  <2>6. s \o Append(u, x) = Append(s \o u, x) /\ s \o u \in Seq(E)
    BY <2>2, <2>3
  <2>7. Keep(s \o Append(u, x), S)
          = IF x \in S THEN Append(Keep(s, S) \o Keep(u, S), x) ELSE Keep(s, S) \o Keep(u, S)
    <3>1. Keep(Append(s \o u, x), S)
            = IF x \in S THEN Append(Keep(s \o u, S), x) ELSE Keep(s \o u, S)
      BY <2>2, <2>6, KeepAppend
    <3> QED
      BY <2>1, <2>6, <3>1
  <2>8. Keep(Append(u, x), S) = IF x \in S THEN Append(Keep(u, S), x) ELSE Keep(u, S)
    BY <2>2, <2>3, KeepAppend
  <2>9. Keep(u, S) \in Seq(S)
    BY <2>3, KeepType
  <2>10. x \in S => Append(Keep(s, S) \o Keep(u, S), x) = Keep(s, S) \o Append(Keep(u, S), x)
    <3>1. ASSUME x \in S
          PROVE (Keep(s, S) \o Keep(u, S)) \o <<x>> = Keep(s, S) \o (Keep(u, S) \o <<x>>)
      <4>1. <<x>> \in Seq(S)
        BY <3>1
      <4>2. Associates(Keep(s, S), Keep(u, S), <<x>>)
        BY <1>0, <2>9, <4>1, Association, Zenon
      <4> QED
        BY <4>2 DEF Associates
    <3>2. x \in S => Append(Keep(u, S), x) = Keep(u, S) \o <<x>>
      BY <2>9, AppendIsConcat
    <3>3. x \in S => Append(Keep(s, S) \o Keep(u, S), x) = (Keep(s, S) \o Keep(u, S)) \o <<x>>
      BY <1>0, <2>9, AppendIsConcat, ConcatProperties
    <3> QED
      BY <3>1, <3>2, <3>3
  <2>11. Keep(s \o Append(u, x), S) = Keep(s, S) \o Keep(Append(u, x), S)
    BY <2>7, <2>8, <2>10
  <2>12. Keep(s \o SubSeq(t, 1, n + 1), S) = Keep(s, S) \o Keep(SubSeq(t, 1, n + 1), S)
    BY <2>5, <2>11, Zenon
  <2>13. n + 1 \in Nat
    BY <2>2
  <2> QED
    BY <2>12, <2>13, Zenon DEF T
<1>3. Len(t) \in T
  <2> HIDE DEF T
  <2>1. \A n \in 0 .. Len(t) - 1 : n \in T => n + 1 \in T
    BY <1>2
  <2>2. \A n \in 0 .. Len(t) : n \in T
    BY <1>0, <1>1, <2>1, BoundedInduction
  <2> QED
    BY <1>0, <2>2
<1> QED
  BY <1>3, SubSeqFull

\* What is kept of what was kept already: an element that is in the smaller set was kept.
LEMMA KeepKeep ==
  ASSUME NEW E, NEW s \in Seq(E), NEW S, NEW R \in SUBSET S
  PROVE Keep(Keep(s, S), R) = Keep(s, R)
<1> DEFINE T == {n \in Nat : Keep(Keep(SubSeq(s, 1, n), S), R) = Keep(SubSeq(s, 1, n), R)}
<1>0. Len(s) \in Nat
  OBVIOUS
<1>1. 0 \in T
  <2>1. SubSeq(s, 1, 0) = <<>>
    BY SubSeqEmpty
  <2> QED
    BY <2>1, KeepEmpty
<1>2. ASSUME NEW n \in 0 .. Len(s) - 1, n \in T PROVE n + 1 \in T
  <2> DEFINE u == SubSeq(s, 1, n)
             x == s[n + 1]
  <2>1. Keep(Keep(u, S), R) = Keep(u, R)
    BY <1>2
  <2> HIDE DEF T
  <2>2. n \in Nat /\ n + 1 \in 1 .. Len(s) /\ (n + 1) - 1 = n /\ x \in E
    BY <1>0, ElementOfSeq
  <2>3. u \in Seq(E)
    BY <1>0, <2>2, SubSeqProperties, ElementOfSeq
  <2>4. SubSeq(s, 1, n + 1) = u \o <<x>>
    BY <1>0, <2>2, SubSeqRecursiveSecond
  <2> HIDE DEF u, x
  <2>5. SubSeq(s, 1, n + 1) = Append(u, x)
    BY <2>2, <2>3, <2>4, AppendIsConcat
  <2>6. /\ Keep(Append(u, x), S) = IF x \in S THEN Append(Keep(u, S), x) ELSE Keep(u, S)
        /\ Keep(Append(u, x), R) = IF x \in R THEN Append(Keep(u, R), x) ELSE Keep(u, R)
    BY <2>2, <2>3, KeepAppend
  <2>7. x \in S => Keep(Append(Keep(u, S), x), R)
                     = IF x \in R THEN Append(Keep(Keep(u, S), R), x) ELSE Keep(Keep(u, S), R)
    <3>1. Keep(u, S) \in Seq(S)
      BY <2>3, KeepType
    <3> QED
      BY <3>1, KeepAppend
  <2>8. x \in R => x \in S
    OBVIOUS
  <2>9. Keep(Keep(SubSeq(s, 1, n + 1), S), R) = Keep(SubSeq(s, 1, n + 1), R)
    BY <2>1, <2>5, <2>6, <2>7, <2>8
  <2>10. n + 1 \in Nat
    BY <2>2
  <2> QED
    BY <2>9, <2>10, Zenon DEF T
<1>3. Len(s) \in T
  <2> HIDE DEF T
  <2>1. \A n \in 0 .. Len(s) - 1 : n \in T => n + 1 \in T
    BY <1>2
  <2>2. \A n \in 0 .. Len(s) : n \in T
    BY <1>0, <1>1, <2>1, BoundedInduction
  <2> QED
    BY <1>0, <2>2
<1> QED
  BY <1>3, SubSeqFull

-----------------------------------------------------------------------------
(* Stacks and lists *)

\* What a pop leaves.
LEMMA FrontIs ==
  ASSUME NEW E, NEW s \in Seq(E), s # <<>>
  PROVE /\ Front(s) \in Seq(E) /\ Len(Front(s)) = Len(s) - 1
        /\ \A i \in 1 .. Len(s) - 1 : Front(s)[i] = s[i]
        /\ Len(s) \in 1 .. Len(s) /\ Last(s) = s[Len(s)] /\ Last(s) \in E
<1>1. Len(s) \in 1 .. Len(s)
  BY EmptySeq
<1>2. Last(s) = s[Len(s)] /\ Last(s) \in E
  BY <1>1, ElementOfSeq DEF Last
<1>3. Len(s) - 1 \in 0 .. Len(s) /\ Len(s) \in Nat /\ Len(s) - 1 + 1 - 1 = Len(s) - 1
  BY <1>1
<1>4. /\ SubSeq(s, 1, Len(s) - 1) \in Seq(E)
      /\ Len(SubSeq(s, 1, Len(s) - 1)) = Len(s) - 1
      /\ \A i \in 1 .. Len(s) - 1 : SubSeq(s, 1, Len(s) - 1)[i] = s[i]
  BY <1>1, <1>3
<1> QED
  BY <1>1, <1>2, <1>4 DEF Front

\* What a push leaves.
LEMMA PushIs ==
  ASSUME NEW E, NEW s \in Seq(E), NEW e \in E
  PROVE /\ Append(s, e) \in Seq(E) /\ Len(Append(s, e)) = Len(s) + 1
        /\ \A i \in 1 .. Len(s) : Append(s, e)[i] = s[i]
        /\ Append(s, e)[Len(s) + 1] = e
OBVIOUS

\* What a change of the top leaves.
LEMMA TopIs ==
  ASSUME NEW E, NEW s \in Seq(E), s # <<>>, NEW e \in E
  PROVE /\ [s EXCEPT ![Len(s)] = e] \in Seq(E) /\ Len([s EXCEPT ![Len(s)] = e]) = Len(s)
        /\ \A i \in 1 .. Len(s) : [s EXCEPT ![Len(s)] = e][i] = IF i = Len(s) THEN e ELSE s[i]
OBVIOUS

\* The place of the first element that is e.
LEMMA FirstIndex ==
  ASSUME NEW E, NEW s \in Seq(E), NEW e, \E i \in 1 .. Len(s) : s[i] = e
  PROVE /\ SelectInSeq(s, LAMBDA v : v = e) \in 1 .. Len(s)
        /\ s[SelectInSeq(s, LAMBDA v : v = e)] = e
<1> DEFINE I == {i \in 1 .. Len(s) : s[i] = e}
<1>1. I # {} /\ I \subseteq Nat /\ I \subseteq 1 .. Len(s) /\ \A i \in I : s[i] = e
  OBVIOUS
<1>2. SelectInSeq(s, LAMBDA v : v = e) = IF I # {} THEN Min(I) ELSE 0
  BY DEF SelectInSeq, I
<1> HIDE DEF I
<1>3. PICK x \in I : \A y \in I : ~(<<y, x>> \in OpToRel(<, Nat))
  <2>1. IsWellFoundedOn(OpToRel(<, Nat), Nat)
    BY NatLessThanWellFounded
  <2> QED
    BY <1>1, <2>1, WFMin
<1>4. \A y \in I : x <= y
  <2>1. \A y \in I : y \in Nat /\ x \in Nat
    BY <1>1
  <2>2. \A y \in I : ~(y < x)
    BY <1>3, <2>1 DEF OpToRel
  <2> QED
    BY <2>1, <2>2
<1>5. Min(I) \in I
  BY <1>4 DEF Min
<1> QED
  BY <1>1, <1>2, <1>5

\* What RemoveFirst leaves: a sequence with every element that is not the removed one.
LEMMA RemoveFirstIs ==
  ASSUME NEW E, NEW s \in Seq(E), NEW e
  PROVE /\ RemoveFirst(s, e) \in Seq(E)
        /\ \A i \in 1 .. Len(s) : s[i] # e =>
             \E m \in 1 .. Len(RemoveFirst(s, e)) : RemoveFirst(s, e)[m] = s[i]
<1>1. CASE ~(\E i \in 1 .. Len(s) : s[i] = e)
  BY <1>1 DEF RemoveFirst
<1>2. CASE \E i \in 1 .. Len(s) : s[i] = e
  <2> DEFINE k == SelectInSeq(s, LAMBDA v : v = e)
             a == SubSeq(s, 1, k - 1)
             b == SubSeq(s, k + 1, Len(s))
  <2>1. k \in 1 .. Len(s) /\ s[k] = e
    BY <1>2, FirstIndex
  <2>2. RemoveFirst(s, e) = a \o b
    BY <1>2 DEF RemoveFirst, RemoveAt
  <2> HIDE DEF k
  <2>3. /\ a \in Seq(E) /\ Len(a) = k - 1 /\ \A i \in 1 .. k - 1 : a[i] = s[i]
        /\ b \in Seq(E) /\ Len(b) = Len(s) - k /\ \A i \in 1 .. Len(s) - k : b[i] = s[k + i]
        /\ Len(s) \in Nat /\ k \in Nat
    BY <2>1
  <2> HIDE DEF a, b
  <2>4. /\ a \o b \in Seq(E) /\ Len(a \o b) = Len(s) - 1
        /\ \A i \in 1 .. Len(s) - 1 : (a \o b)[i] = IF i <= k - 1 THEN a[i] ELSE b[i - (k - 1)]
    <3>1. /\ a \o b \in Seq(E) /\ Len(a \o b) = Len(a) + Len(b)
          /\ \A i \in 1 .. Len(a) + Len(b) :
               (a \o b)[i] = IF i <= Len(a) THEN a[i] ELSE b[i - Len(a)]
      BY <2>3, ConcatProperties
    <3>2. Len(a) + Len(b) = Len(s) - 1
      BY <2>3
    <3> QED
      BY <2>3, <3>1, <3>2
  <2>5. ASSUME NEW i \in 1 .. Len(s), s[i] # e
        PROVE \E m \in 1 .. Len(a \o b) : (a \o b)[m] = s[i]
    <3>1. CASE i < k
      <4>1. i \in 1 .. Len(a \o b) /\ i <= k - 1 /\ i \in 1 .. k - 1 /\ i \in 1 .. Len(s) - 1
        BY <2>1, <2>3, <2>4, <3>1
      <4> QED
        BY <2>3, <2>4, <4>1
    <3>2. CASE i > k
      <4>1. /\ i - 1 \in 1 .. Len(a \o b) /\ ~(i - 1 <= k - 1) /\ i - 1 \in 1 .. Len(s) - 1
            /\ (i - 1) - (k - 1) = i - k /\ i - k \in 1 .. Len(s) - k /\ k + (i - k) = i
        BY <2>1, <2>3, <2>4, <3>2
      <4> QED
        BY <2>3, <2>4, <4>1
    <3>3. i # k
      BY <2>1, <2>5
    <3> QED
      BY <2>3, <3>1, <3>2, <3>3
  <2> QED
    BY <2>2, <2>4, <2>5
<1> QED
  BY <1>1, <1>2

-----------------------------------------------------------------------------
\* A set of numbers has a least one, and, being finite, a largest one.
LEMMA MinIs ==
  ASSUME NEW S \in SUBSET Nat, S # {}
  PROVE  Min(S) \in S /\ \A u \in S : Min(S) <= u
<1>1. IsWellFoundedOn(OpToRel(<, Nat), Nat)
  BY NatLessThanWellFounded
<1>2. PICK x \in S : \A y \in S : ~(<<y, x>> \in OpToRel(<, Nat))
  BY <1>1, WFMin
<1>3. \A y \in S : ~(y < x)
  BY <1>2 DEF OpToRel
<1>4. \A y \in S : x <= y
  BY <1>3
<1> QED
  BY <1>4 DEF Min

HasMax(S) == \E x \in S : \A y \in S : x >= y

\* The largest: by induction over the size of the set.
LEMMA FiniteHasMax ==
  ASSUME NEW S \in SUBSET Nat, S # {}, IsFiniteSet(S)
  PROVE  HasMax(S)
<1> DEFINE T == {n \in Nat : \A U \in SUBSET Nat :
                   U # {} /\ IsFiniteSet(U) /\ Cardinality(U) = n => HasMax(U)}
<1>1. 0 \in T
  BY FS_EmptySet DEF T
<1>2. ASSUME NEW n \in T PROVE n + 1 \in T
  <2> SUFFICES ASSUME NEW U \in SUBSET Nat, U # {}, IsFiniteSet(U), Cardinality(U) = n + 1
               PROVE HasMax(U)
    OBVIOUS
  <2>1. PICK x \in U : TRUE
    OBVIOUS
  <2>2. IsFiniteSet(U \ {x}) /\ Cardinality(U \ {x}) = n /\ U \ {x} \in SUBSET Nat
    <3>1. IsFiniteSet(U \ {x}) /\ Cardinality(U \ {x}) = Cardinality(U) - 1
      BY <2>1, FS_RemoveElement
    <3>2. n \in Nat /\ (n + 1) - 1 = n
      OBVIOUS
    <3> QED
      BY <3>1, <3>2
  <2>3. CASE U \ {x} = {}
    <3>1. U = {x}
      BY <2>1, <2>3
    <3> QED
      BY <3>1 DEF HasMax
  <2>4. CASE U \ {x} # {}
    <3>1. HasMax(U \ {x})
      BY <2>2, <2>4
    <3>2. PICK y \in U \ {x} : \A z \in U \ {x} : y >= z
      BY <3>1 DEF HasMax
    <3>3. CASE x >= y
      <4>1. \A z \in U : x >= z
        BY <3>2, <3>3
      <4> QED
        BY <4>1 DEF HasMax
    <3>4. CASE ~(x >= y)
      <4>1. \A z \in U : y >= z
        BY <3>2, <3>4
      <4> QED
        BY <3>2, <4>1 DEF HasMax
    <3> QED
      BY <3>3, <3>4
  <2> QED
    BY <2>3, <2>4
<1>3. T = Nat
  <2> HIDE DEF T
  <2>1. T \in SUBSET Nat
    BY DEF T
  <2> QED
    BY <1>1, <1>2, <2>1, SetInduction
<1>4. Cardinality(S) \in T
  BY <1>3, FS_CardinalityType
<1> QED
  BY <1>4

\* So the largest of some positions of a sequence is one of them.
LEMMA MaxOfSome ==
  ASSUME NEW n \in Nat, NEW S \in SUBSET (1 .. n), S # {}
  PROVE  Max(S) \in S /\ \A u \in S : u <= Max(S)
<1>1. IsFiniteSet(1 .. n)
  BY FS_Interval
<1>2. S \in SUBSET Nat /\ IsFiniteSet(S)
  <2>1. IsFiniteSet(S)
    BY <1>1, FS_Subset
  <2> QED
    BY <2>1
<1>3. PICK x \in S : \A y \in S : x >= y
  BY <1>2, FiniteHasMax DEF HasMax
<1>4. Max(S) \in S /\ \A y \in S : Max(S) >= y
  BY <1>3 DEF Max
<1> QED
  BY <1>2, <1>4

-----------------------------------------------------------------------------
\* A recursive function over the positions of a sequence, whose step is a function
\* itself, exists: from the first position up, and from the last one down.
RecursesUp(m, R, base, step) ==
  \E f \in [0 .. m -> R] : f[0] = base /\ \A i \in 1 .. m : f[i] = step[<<i, f[i - 1]>>]
RecursesDown(m, R, base, step) ==
  \E f \in [1 .. m + 1 -> R] :
    f[m + 1] = base /\ \A i \in 1 .. m : f[i] = step[<<i, f[i + 1]>>]

LEMMA RecursionUp ==
  ASSUME NEW m \in Nat, NEW R, NEW base \in R, NEW step \in [(1 .. m) \X R -> R]
  PROVE  RecursesUp(m, R, base, step)
<1> DEFINE Solves(f, n) == f[0] = base /\ \A i \in 1 .. n : f[i] = step[<<i, f[i - 1]>>]
           T == {n \in Nat : \E f \in [0 .. n -> R] : Solves(f, n)}
<1>1. 0 \in T
  <2>1. [i \in 0 .. 0 |-> base] \in [0 .. 0 -> R] /\ Solves([i \in 0 .. 0 |-> base], 0)
    OBVIOUS
  <2> QED
    BY <2>1
<1>2. ASSUME NEW n \in 0 .. m - 1, n \in T PROVE n + 1 \in T
  <2>1. PICK f \in [0 .. n -> R] : Solves(f, n)
    BY <1>2
  <2> HIDE DEF T
  <2>2. n \in Nat /\ n + 1 \in Nat /\ n + 1 \in 1 .. m /\ f[n] \in R
    OBVIOUS
  <2> DEFINE new == step[<<n + 1, f[n]>>]
             g == [i \in 0 .. n + 1 |-> IF i <= n THEN f[i] ELSE new]
  <2>3. new \in R
    BY <2>2
  <2> HIDE DEF new
  <2>4. g \in [0 .. n + 1 -> R]
    BY <2>2, <2>3
  <2>5. g[n + 1] = new /\ \A i \in 0 .. n : g[i] = f[i]
    BY <2>2
  <2> HIDE DEF g
  <2>6. ASSUME NEW i \in 1 .. n + 1 PROVE g[i] = step[<<i, g[i - 1]>>]
    <3>1. CASE i = n + 1
      <4>1. i - 1 = n /\ n \in 0 .. n
        BY <2>2, <3>1
      <4> QED
        BY <2>5, <3>1, <4>1 DEF new
    <3>2. CASE i # n + 1
      <4>1. i \in 1 .. n /\ i \in 0 .. n /\ i - 1 \in 0 .. n
        BY <2>2, <3>2
      <4> QED
        BY <2>1, <2>5, <4>1
    <3> QED
      BY <3>1, <3>2
  <2>7. g[0] = base
    BY <2>1, <2>2, <2>5
  <2> QED
    BY <2>2, <2>4, <2>6, <2>7 DEF T
<1>3. m \in T
  <2> HIDE DEF T
  <2>1. \A n \in 0 .. m - 1 : n \in T => n + 1 \in T
    BY <1>2
  <2>2. \A n \in 0 .. m : n \in T
    BY <1>1, <2>1, BoundedInduction
  <2> QED
    BY <2>2
<1> QED
  BY <1>3 DEF RecursesUp

LEMMA RecursionDown ==
  ASSUME NEW m \in Nat, NEW R, NEW base \in R, NEW step \in [(1 .. m) \X R -> R]
  PROVE  RecursesDown(m, R, base, step)
<1> DEFINE up == [p \in (1 .. m) \X R |-> step[<<m + 1 - p[1], p[2]>>]]
<1>1. \A i \in 1 .. m : m + 1 - i \in 1 .. m
  OBVIOUS
<1>2. up \in [(1 .. m) \X R -> R]
  BY <1>1
<1>3. PICK g \in [0 .. m -> R] : g[0] = base /\ \A i \in 1 .. m : g[i] = up[<<i, g[i - 1]>>]
  <2> HIDE DEF up
  <2> QED
    <3>1. RecursesUp(m, R, base, up)
      BY <1>2, RecursionUp
    <3> QED
      BY <3>1 DEF RecursesUp
<1> DEFINE f == [i \in 1 .. m + 1 |-> g[m + 1 - i]]
<1>4. f \in [1 .. m + 1 -> R] /\ f[m + 1] = base
  BY <1>3
<1>5. ASSUME NEW i \in 1 .. m PROVE f[i] = step[<<i, f[i + 1]>>]
  <2>1. m + 1 - i \in 1 .. m /\ m + 1 - (m + 1 - i) = i /\ (m + 1 - i) - 1 = m + 1 - (i + 1)
    OBVIOUS
  <2>2. f[i] = g[m + 1 - i] /\ f[i + 1] = g[(m + 1 - i) - 1] /\ f[i + 1] \in R
    BY <2>1
  <2>3. g[m + 1 - i] = up[<<m + 1 - i, f[i + 1]>>]
    BY <1>3, <2>1, <2>2
  <2> HIDE DEF f
  <2>4. up[<<m + 1 - i, f[i + 1]>>] = step[<<i, f[i + 1]>>]
    BY <2>1, <2>2
  <2> QED
    BY <2>2, <2>3, <2>4
<1> HIDE DEF f
<1> QED
  BY <1>4, <1>5 DEF RecursesDown
=============================================================================
