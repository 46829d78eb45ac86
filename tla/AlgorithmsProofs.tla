--------------------------- MODULE AlgorithmsProofs ---------------------------
(***************************************************************************)
(* What the pure algorithms compute, for every input: the route of a       *)
(* request, the layers it enters and the form it sends, over any table of   *)
(* routes, any path, any stack of layers and any rules; the rows that a     *)
(* statement finds, changes and deletes, over any chain of calls and any    *)
(* table.                                                                   *)
(***************************************************************************)
EXTENDS Requests, QueryBuilder, SlicesProofs

-----------------------------------------------------------------------------
(* The URL of a pattern *)

\* The sequences of s have one element each but for the last: so FlattenSeq puts the
\* elements before the last sequence.
Heads(s, k) == [j \in 1 .. k |-> s[j][1]]
Flat(s) == [i \in 1 .. Len(s) |-> Heads(s, i - 1) \o s[i]]

LEMMA HeadsIs ==
  ASSUME NEW E, NEW s \in Seq(Seq(E)), \A i \in 1 .. Len(s) - 1 : Len(s[i]) = 1,
         NEW k \in 0 .. Len(s) - 1
  PROVE  /\ Heads(s, k) \in Seq(E) /\ Len(Heads(s, k)) = k
         /\ \A j \in 1 .. k : Heads(s, k)[j] = s[j][1]
<1>1. Len(s) \in Nat /\ k \in Nat
  BY LenProperties
<1>2. ASSUME NEW j \in 1 .. k PROVE s[j][1] \in E
  <2>1. j \in 1 .. Len(s) - 1 /\ j \in 1 .. Len(s)
    BY <1>1
  <2>2. s[j] \in Seq(E) /\ Len(s[j]) = 1
    BY <2>1, ElementOfSeq
  <2> QED
    BY <2>2, ElementOfSeq
<1>3. Heads(s, k) \in [1 .. k -> E]
  BY <1>2 DEF Heads
<1>4. Heads(s, k) \in Seq(E) /\ Len(Heads(s, k)) = k
  BY <1>1, <1>3
<1> QED
  BY <1>4 DEF Heads

LEMMA FlatSteps ==
  ASSUME NEW E, NEW s \in Seq(Seq(E)), Len(s) >= 1, \A i \in 1 .. Len(s) - 1 : Len(s[i]) = 1
  PROVE  /\ Flat(s)[1] = s[1]
         /\ \A i \in 2 .. Len(s) : Flat(s)[i] = Flat(s)[i - 1] \o s[i]
<1>0. Len(s) \in Nat /\ \A i \in 1 .. Len(s) : s[i] \in Seq(E)
  BY LenProperties, ElementOfSeq
<1>1. Flat(s)[1] = s[1]
  <2>1. 1 \in 1 .. Len(s) /\ 1 - 1 = 0 /\ 0 \in 0 .. Len(s) - 1 /\ s[1] \in Seq(E)
    BY <1>0
  <2>2. Heads(s, 0) = <<>>
    <3>1. Heads(s, 0) \in Seq(E) /\ Len(Heads(s, 0)) = 0
      BY <2>1, HeadsIs
    <3> QED
      BY <3>1, EmptySeq
  <2>3. Flat(s)[1] = Heads(s, 0) \o s[1]
    BY <2>1 DEF Flat
  <2> QED
    BY <2>1, <2>2, <2>3, ConcatEmptySeq
<1>2. ASSUME NEW i \in 2 .. Len(s) PROVE Flat(s)[i] = Flat(s)[i - 1] \o s[i]
  <2>1. /\ i \in 1 .. Len(s) /\ i - 1 \in 1 .. Len(s) /\ i - 1 \in 1 .. Len(s) - 1
        /\ (i - 1) - 1 = i - 2 /\ i - 2 \in 0 .. Len(s) - 1 /\ i - 1 \in 0 .. Len(s) - 1
    BY <1>0
  <2>2. s[i] \in Seq(E) /\ s[i - 1] \in Seq(E) /\ Len(s[i - 1]) = 1
    BY <1>0, <2>1
  <2>3. /\ Heads(s, i - 2) \in Seq(E) /\ Len(Heads(s, i - 2)) = i - 2
        /\ \A j \in 1 .. i - 2 : Heads(s, i - 2)[j] = s[j][1]
    BY <2>1, HeadsIs
  <2>4. /\ Heads(s, i - 1) \in Seq(E) /\ Len(Heads(s, i - 1)) = i - 1
        /\ \A j \in 1 .. i - 1 : Heads(s, i - 1)[j] = s[j][1]
    BY <2>1, HeadsIs
  <2>5. Heads(s, i - 2) \o s[i - 1] = Heads(s, i - 1)
    <3> DEFINE both == Heads(s, i - 2) \o s[i - 1]
    <3>1. /\ both \in Seq(E) /\ Len(both) = (i - 2) + 1
          /\ \A j \in 1 .. (i - 2) + 1 :
               both[j] = IF j <= i - 2 THEN Heads(s, i - 2)[j] ELSE s[i - 1][j - (i - 2)]
      <4>1. /\ both \in Seq(E) /\ Len(both) = Len(Heads(s, i - 2)) + Len(s[i - 1])
            /\ \A j \in 1 .. Len(Heads(s, i - 2)) + Len(s[i - 1]) :
                 both[j] = IF j <= Len(Heads(s, i - 2)) THEN Heads(s, i - 2)[j]
                           ELSE s[i - 1][j - Len(Heads(s, i - 2))]
        BY ZenonT(60), <2>2, <2>3, ConcatProperties
      <4> QED
        BY <2>2, <2>3, <4>1
    <3> HIDE DEF both
    <3>2. ASSUME NEW j \in 1 .. i - 1 PROVE both[j] = Heads(s, i - 1)[j]
      <4>1. CASE j <= i - 2
        <5>1. j \in 1 .. i - 2 /\ j \in 1 .. (i - 2) + 1
          BY <2>1, <4>1
        <5> QED
          BY <2>3, <2>4, <3>1, <4>1, <5>1
      <4>2. CASE ~(j <= i - 2)
        <5>1. j = i - 1 /\ j \in 1 .. (i - 2) + 1 /\ j - (i - 2) = 1
          BY <2>1, <4>2
        <5> QED
          BY <2>4, <3>1, <4>2, <5>1
      <4> QED
        BY <4>1, <4>2
    <3>3. Len(both) = i - 1
      BY <2>1, <3>1
    <3>4. both = Heads(s, i - 1)
      BY <2>4, <3>1, <3>2, <3>3, SeqEqual
    <3> QED
      BY <3>4 DEF both
  <2>6. Flat(s)[i] = Heads(s, i - 1) \o s[i] /\ Flat(s)[i - 1] = Heads(s, i - 2) \o s[i - 1]
    BY <2>1 DEF Flat
  <2> QED
    BY <2>5, <2>6
<1> QED
  BY <1>1, <1>2

LEMMA FlattenOnes ==
  ASSUME NEW E, NEW s \in Seq(Seq(E)), Len(s) >= 1, \A i \in 1 .. Len(s) - 1 : Len(s[i]) = 1
  PROVE  FlattenSeq(s) = Heads(s, Len(s) - 1) \o s[Len(s)]
<1> DEFINE Follows(f) == f = [i \in 1 .. Len(s) |-> IF i = 1 THEN s[i] ELSE f[i - 1] \o s[i]]
           flat == CHOOSE f : Follows(f)
<1>0. Len(s) \in Nat /\ Len(s) # 0
  BY LenProperties
<1>1. Follows(Flat(s))
  <2>1. \A i \in 1 .. Len(s) : Flat(s)[i] = IF i = 1 THEN s[i] ELSE Flat(s)[i - 1] \o s[i]
    <3>1. \A i \in 1 .. Len(s) : i = 1 \/ (i # 1 /\ i \in 2 .. Len(s))
      BY <1>0
    <3> QED
      BY <3>1, FlatSteps
  <2>2. Flat(s) = [i \in 1 .. Len(s) |-> Flat(s)[i]]
    BY DEF Flat
  <2> QED
    BY <2>1, <2>2, Zenon
<1>2. Follows(flat)
  <2> HIDE DEF Follows
  <2> QED
    BY <1>1
<1>3. FlattenSeq(s) = flat[Len(s)]
  BY <1>0 DEF FlattenSeq
<1>4. \A i \in 1 .. Len(s) : flat[i] = IF i = 1 THEN s[i] ELSE flat[i - 1] \o s[i]
  <2> HIDE DEF flat
  <2> QED
    BY <1>2
<1> HIDE DEF flat, Follows
<1> DEFINE T == {k \in Nat : k >= 1 => flat[k] = Flat(s)[k]}
<1>5. 0 \in T
  OBVIOUS
<1>6. ASSUME NEW k \in 0 .. Len(s) - 1, k \in T PROVE k + 1 \in T
  <2>1. k + 1 \in Nat /\ k + 1 \in 1 .. Len(s) /\ (k + 1) - 1 = k
    BY <1>0
  <2>2. CASE k = 0
    <3>0. k + 1 = 1 /\ 1 \in 1 .. Len(s)
      BY <1>0, <2>2
    <3>1. flat[k + 1] = s[1] /\ Flat(s)[k + 1] = s[1]
      BY <1>4, <3>0, FlatSteps
    <3> QED
      BY <2>1, <3>1
  <2>3. CASE k # 0
    <3>1. k >= 1 /\ k + 1 # 1 /\ k + 1 \in 2 .. Len(s)
      BY <2>1, <2>3
    <3>2. flat[k + 1] = flat[k] \o s[k + 1]
      BY <1>4, <2>1, <3>1
    <3>3. Flat(s)[k + 1] = Flat(s)[k] \o s[k + 1]
      <4>1. \A i \in 2 .. Len(s) : Flat(s)[i] = Flat(s)[i - 1] \o s[i]
        BY FlatSteps
      <4> QED
        BY <2>1, <3>1, <4>1
    <3>4. flat[k] = Flat(s)[k]
      BY <1>6, <3>1
    <3> QED
      BY <2>1, <3>2, <3>3, <3>4
  <2> QED
    BY <2>2, <2>3
<1>7. Len(s) \in T
  <2> HIDE DEF T
  <2>1. \A k \in 0 .. Len(s) : k \in T
    BY <1>0, <1>5, <1>6, BoundedInduction
  <2> QED
    BY <1>0, <2>1
<1>8. flat[Len(s)] = Flat(s)[Len(s)]
  BY <1>0, <1>7
<1>9. Flat(s)[Len(s)] = Heads(s, Len(s) - 1) \o s[Len(s)]
  <2>1. Len(s) \in 1 .. Len(s)
    BY <1>0
  <2> QED
    BY <2>1 DEF Flat
<1> QED
  BY <1>3, <1>8, <1>9

\* What the assumption says where it is used.
LEMMA RequestsBasics ==
  /\ QLongest \in Nat /\ "*" \notin QNames
  /\ \A path \in QPaths : path.segs \in Seq(QSegs) /\ Len(path.segs) <= QLongest
  /\ QTables \subseteq Seq([method : QMethods, pattern : Patterns, slash : BOOLEAN])
  /\ QStacks \subseteq [group : Seq(QLayers), extra : Seq(QLayers)]
  /\ \A form \in QForms : form.decodes \in BOOLEAN
  /\ \A form \in QForms : \A f \in DOMAIN form.set : form.set[f] \in Seq(QRules)
BY RequestsAssumption DEF RequestsAssumption

\* What a segment of a pattern is.
LEMMA SegmentIs ==
  ASSUME NEW p \in Patterns
  PROVE  /\ Len(p) \in Nat /\ DOMAIN p = 1 .. Len(p)
         /\ \A i \in 1 .. Len(p) :
              /\ p[i][1] = "lit" => Name(p[i]) \in QSegs /\ p[i] # Star
              /\ p[i][1] = "param" => p[i] = Param(Name(p[i])) /\ p[i] # Star /\ Name(p[i]) # "*"
              /\ p[i] = Star => p[i][1] = "star" /\ Name(p[i]) = "*" /\ i = Len(p)
              /\ p[i][1] # "lit" /\ p[i] # Star => p[i][1] = "param"
         /\ \A i, j \in 1 .. Len(p) : p[i][1] = "param" /\ p[i] = p[j] => i = j
<1> DEFINE Segments == {Lit(s) : s \in QSegs} \cup {Param(n) : n \in QNames} \cup {Star}
<1>1. p \in Seq(Segments)
  BY DEF Patterns
<1>2. Len(p) \in Nat /\ DOMAIN p = 1 .. Len(p) /\ \A i \in 1 .. Len(p) : p[i] \in Segments
  BY <1>1, LenProperties, ElementOfSeq
<1>3. /\ \A i \in 1 .. Len(p) : p[i] = Star => i = Len(p)
      /\ \A i, j \in 1 .. Len(p) : p[i][1] = "param" /\ p[i] = p[j] => i = j
  BY <1>2 DEF Patterns
<1>4. ASSUME NEW i \in 1 .. Len(p)
      PROVE  /\ p[i][1] = "lit" => Name(p[i]) \in QSegs /\ p[i] # Star
             /\ p[i][1] = "param" => p[i] = Param(Name(p[i])) /\ p[i] # Star /\ Name(p[i]) # "*"
             /\ p[i] = Star => p[i][1] = "star" /\ Name(p[i]) = "*" /\ i = Len(p)
             /\ p[i][1] # "lit" /\ p[i] # Star => p[i][1] = "param"
  <2>1. CASE \E s \in QSegs : p[i] = Lit(s)
    <3>1. PICK s \in QSegs : p[i] = <<"lit", s>>
      BY <2>1 DEF Lit
    <3>2. p[i][1] = "lit" /\ Name(p[i]) = s /\ p[i] # Star
      BY <3>1 DEF Name, Star
    <3> QED
      BY <3>2
  <2>2. CASE \E n \in QNames : p[i] = Param(n)
    <3>1. PICK n \in QNames : p[i] = <<"param", n>>
      BY <2>2 DEF Param
    <3>2. p[i][1] = "param" /\ Name(p[i]) = n /\ p[i] # Star /\ n # "*" /\ p[i] = Param(n)
      BY <3>1, RequestsBasics DEF Name, Star, Param
    <3> QED
      BY <3>2
  <2>3. CASE p[i] = Star
    <3>1. p[i][1] = "star" /\ Name(p[i]) = "*" /\ i = Len(p)
      BY <1>3, <2>3 DEF Name, Star
    <3> QED
      BY <2>3, <3>1
  <2> QED
    BY <1>2, <2>1, <2>2, <2>3
<1> QED
  BY <1>2, <1>3, <1>4

\* What a segment of a URL is made of.
Piece(p, params, i) == IF p[i][1] = "lit" THEN <<Name(p[i])>> ELSE params[Name(p[i])]
OneEach(p, params) ==
  /\ \A i \in 1 .. Len(p) : Piece(p, params, i) \in Seq(QSegs)
  /\ \A i \in 1 .. Len(p) - 1 : Len(Piece(p, params, i)) = 1

\* So a path is the URL of a pattern when it has its pieces in their order.
Spells(p, params, path) ==
  /\ Len(path) = Len(p) - 1 + Len(Piece(p, params, Len(p)))
  /\ \A i \in 1 .. Len(p) - 1 : path[i] = Piece(p, params, i)[1]
  /\ \A j \in 1 .. Len(Piece(p, params, Len(p))) : path[Len(p) - 1 + j] = Piece(p, params, Len(p))[j]

LEMMA URLIs ==
  ASSUME NEW p \in Patterns, Len(p) >= 1, NEW params, OneEach(p, params), NEW path \in Seq(QSegs)
  PROVE  URL(p, params) = path <=> Spells(p, params, path)
<1> DEFINE s == [i \in 1 .. Len(p) |-> Piece(p, params, i)]
           last == s[Len(p)]
           front == Heads(s, Len(p) - 1)
<1>1. Len(p) \in Nat /\ DOMAIN p = 1 .. Len(p) /\ Len(p) \in 1 .. Len(p) /\ Len(path) \in Nat
  BY SegmentIs, LenProperties
<1>2. s \in Seq(Seq(QSegs)) /\ Len(s) = Len(p)
  BY <1>1 DEF OneEach
<1>3. \A i \in 1 .. Len(p) : s[i] = Piece(p, params, i)
  OBVIOUS
<1>4. URL(p, params) = FlattenSeq(s)
  BY <1>1 DEF URL, Piece
<1> HIDE DEF s
<1>5. \A i \in 1 .. Len(s) - 1 : Len(s[i]) = 1
  <2>1. ASSUME NEW i \in 1 .. Len(p) - 1 PROVE Len(s[i]) = 1
    <3>1. i \in 1 .. Len(p)
      BY <1>1
    <3> QED
      BY <1>3, <3>1 DEF OneEach
  <2> QED
    BY <1>2, <2>1
<1>6. URL(p, params) = front \o last
  BY <1>2, <1>4, <1>5, FlattenOnes
<1>7. last \in Seq(QSegs) /\ Len(last) \in Nat
  BY <1>1, <1>3, LenProperties DEF OneEach
<1>8. /\ front \in Seq(QSegs) /\ Len(front) = Len(p) - 1
      /\ \A j \in 1 .. Len(p) - 1 : front[j] = s[j][1]
  <2>1. Len(p) - 1 \in 0 .. Len(s) - 1
    BY <1>1, <1>2
  <2> QED
    BY <1>2, <1>5, <2>1, HeadsIs
<1> HIDE DEF front, last
<1>9. /\ front \o last \in Seq(QSegs) /\ Len(front \o last) = Len(p) - 1 + Len(last)
      /\ \A i \in 1 .. Len(p) - 1 + Len(last) :
           (front \o last)[i] = IF i <= Len(p) - 1 THEN front[i] ELSE last[i - (Len(p) - 1)]
  <2>1. /\ front \o last \in Seq(QSegs) /\ Len(front \o last) = Len(front) + Len(last)
        /\ \A i \in 1 .. Len(front) + Len(last) :
             (front \o last)[i] = IF i <= Len(front) THEN front[i] ELSE last[i - Len(front)]
    BY <1>7, <1>8, ConcatProperties
  <2> QED
    BY <1>8, <2>1
<1> DEFINE both == front \o last
<1>10. /\ both \in Seq(QSegs) /\ Len(both) = Len(p) - 1 + Len(last)
       /\ \A i \in 1 .. Len(p) - 1 : both[i] = s[i][1]
       /\ \A j \in 1 .. Len(last) : both[Len(p) - 1 + j] = last[j]
  <2>1. ASSUME NEW i \in 1 .. Len(p) - 1 PROVE both[i] = s[i][1]
    <3>1. i \in 1 .. Len(p) - 1 + Len(last) /\ i <= Len(p) - 1
      BY <1>1, <1>7
    <3> QED
      BY <1>8, <1>9, <3>1
  <2>2. ASSUME NEW j \in 1 .. Len(last) PROVE both[Len(p) - 1 + j] = last[j]
    <3>1. /\ Len(p) - 1 + j \in 1 .. Len(p) - 1 + Len(last) /\ ~(Len(p) - 1 + j <= Len(p) - 1)
          /\ (Len(p) - 1 + j) - (Len(p) - 1) = j
      BY <1>1, <1>7
    <3> QED
      BY <1>9, <3>1
  <2> QED
    BY <1>9, <2>1, <2>2
<1>11. last = Piece(p, params, Len(p))
  BY <1>1, <1>3 DEF last
<1>12. URL(p, params) = both
  BY <1>6
<1> HIDE DEF both
<1>13. ASSUME both = path PROVE Spells(p, params, path)
  BY <1>1, <1>3, <1>10, <1>11, <1>13 DEF Spells
<1>14. ASSUME Spells(p, params, path) PROVE both = path
  <2>1. /\ Len(path) = Len(p) - 1 + Len(last)
        /\ \A i \in 1 .. Len(p) - 1 : path[i] = s[i][1]
        /\ \A j \in 1 .. Len(last) : path[Len(p) - 1 + j] = last[j]
    BY <1>1, <1>3, <1>11, <1>14 DEF Spells
  <2>2. ASSUME NEW i \in 1 .. Len(both) PROVE both[i] = path[i]
    <3>1. CASE i <= Len(p) - 1
      BY <1>1, <1>10, <2>1, <3>1
    <3>2. CASE ~(i <= Len(p) - 1)
      <4>1. \E j \in 1 .. Len(last) : Len(p) - 1 + j = i
        <5>1. i - (Len(p) - 1) \in 1 .. Len(last) /\ Len(p) - 1 + (i - (Len(p) - 1)) = i
          BY <1>1, <1>7, <1>10, <3>2
        <5> QED
          BY <5>1
      <4> QED
        BY <1>10, <2>1, <4>1
    <3> QED
      BY <3>1, <3>2
  <2> QED
    BY <1>10, <2>1, <2>2, SeqEqual
<1> QED
  BY <1>12, <1>13, <1>14

-----------------------------------------------------------------------------
(* The routes *)

\* The loop of matchRoute goes as far as the star, or over all segments.
LEMMA FirstStarIs ==
  ASSUME NEW p \in Patterns, Len(p) >= 1
  PROVE  FirstStar(p) = IF p[Len(p)] = Star THEN Len(p) ELSE Len(p) + 1
<1> DEFINE stars == {i \in DOMAIN p : p[i] = Star}
<1>1. Len(p) \in Nat /\ DOMAIN p = 1 .. Len(p) /\ \A i \in 1 .. Len(p) : p[i] = Star => i = Len(p)
  BY SegmentIs
<1>2. FirstStar(p) = IF stars = {} THEN Len(p) + 1 ELSE Min(stars)
  BY DEF FirstStar
<1>3. CASE p[Len(p)] = Star
  <2>1. stars = {Len(p)}
    <3>0. Len(p) \in 1 .. Len(p)
      <4>1. Len(p) \in Nat
        BY <1>1
      <4> QED
        BY <4>1
    <3>1. Len(p) \in DOMAIN p /\ \A i \in DOMAIN p : p[i] = Star => i = Len(p)
      BY <1>1, <3>0, Zenon
    <3> QED
      BY <1>3, <3>1
  <2> HIDE DEF stars
  <2>2. Min(stars) \in stars
    BY <1>1, <2>1, MinIs
  <2> QED
    BY <1>2, <1>3, <2>1, <2>2
<1>4. CASE p[Len(p)] # Star
  <2>1. stars = {}
    BY <1>1, <1>4
  <2> QED
    BY <1>2, <1>4, <2>1
<1> QED
  BY <1>3, <1>4

\* When a pattern fits a path, segment by segment.
Fits(p, path) ==
  /\ \A i \in 1 .. Len(p) - 1 : i <= Len(path) /\ (p[i][1] = "lit" => Name(p[i]) = path[i])
  /\ \/ p[Len(p)] = Star
     \/ Len(path) = Len(p) /\ (p[Len(p)][1] = "lit" => Name(p[Len(p)]) = path[Len(p)])

LEMMA MatchIs ==
  ASSUME NEW p \in Patterns, Len(p) >= 1, NEW path \in Seq(QSegs)
  PROVE  matchRoute(p, path) <=> Fits(p, path)
<1>1. Len(p) \in Nat /\ Len(path) \in Nat /\ p # <<>>
  BY SegmentIs, LenProperties
<1>2. matchRoute(p, path) <=>
        /\ p[Len(p)] = Star \/ Len(p) = Len(path)
        /\ \A i \in 1 .. FirstStar(p) - 1 : i <= Len(path) /\ (p[i][1] = "lit" => Name(p[i]) = path[i])
  BY <1>1 DEF matchRoute, Last
<1>3. CASE p[Len(p)] = Star
  <2>1. FirstStar(p) - 1 = Len(p) - 1
    BY <1>3, FirstStarIs
  <2> QED
    BY <1>2, <1>3, <2>1 DEF Fits
<1>4. CASE p[Len(p)] # Star
  <2>1. FirstStar(p) - 1 = Len(p)
    BY <1>1, <1>4, FirstStarIs
  <2>2. \A i : i \in 1 .. Len(p) <=> i \in 1 .. Len(p) - 1 \/ i = Len(p)
    BY <1>1
  <2> QED
    BY <1>1, <1>2, <1>4, <2>1, <2>2 DEF Fits
<1> QED
  BY <1>3, <1>4

\* What matchRoute puts under the name of each parameter.
LEMMA ParamsIs ==
  ASSUME NEW p \in Patterns, Len(p) >= 1, NEW path
  PROVE  /\ DOMAIN Params(p, path) = {Name(p[i]) : i \in {j \in DOMAIN p : p[j][1] # "lit"}}
         /\ \A i \in 1 .. Len(p) : p[i][1] = "param" => Params(p, path)[Name(p[i])] = <<path[i]>>
         /\ p[Len(p)] = Star => Params(p, path)["*"] = SubSeq(path, Len(p), Len(path))
<1> DEFINE star == FirstStar(p)
           At(n) == {i \in 1 .. star - 1 : p[i] = Param(n)}
           names == {n \in {Name(p[i]) : i \in 1 .. star - 1} : At(n) # {}}
           all == names \cup {Name(p[i]) : i \in DOMAIN p \cap {star}}
<1>1. Len(p) \in Nat /\ DOMAIN p = 1 .. Len(p) /\ star \in {Len(p), Len(p) + 1}
  BY SegmentIs, FirstStarIs
<1>2. Params(p, path) =
        [n \in all |-> IF n = "*" THEN SubSeq(path, star, Len(path)) ELSE <<path[Max(At(n))]>>]
  BY DEF Params
<1>3. ASSUME NEW i \in 1 .. Len(p), p[i][1] = "param"
      PROVE  Name(p[i]) \in names /\ Name(p[i]) # "*" /\ At(Name(p[i])) = {i}
  <2>1. p[i] = Param(Name(p[i])) /\ p[i] # Star /\ Name(p[i]) # "*"
    BY <1>3, SegmentIs
  <2>2. i \in 1 .. star - 1
    <3>1. CASE p[Len(p)] = Star
      BY <1>1, <2>1, <3>1, FirstStarIs
    <3>2. CASE p[Len(p)] # Star
      BY <1>1, <3>2, FirstStarIs
    <3> QED
      BY <3>1, <3>2
  <2>3. i \in At(Name(p[i]))
    BY <2>1, <2>2
  <2>4. \A j \in At(Name(p[i])) : j \in 1 .. Len(p) /\ p[j] = p[i]
    BY <1>1, <2>1
  <2>5. \A j \in At(Name(p[i])) : j = i
    BY <1>3, <2>4, SegmentIs
  <2> QED
    BY <2>1, <2>2, <2>3, <2>5
<1>4. p[Len(p)] = Star => star = Len(p)
  BY FirstStarIs
<1>5. ASSUME NEW i \in 1 .. Len(p), p[i] = Star
      PROVE  i = Len(p) /\ star = i /\ Name(p[i]) = "*" /\ Name(p[i]) \in all /\ p[i][1] # "lit"
  BY <1>1, <1>4, <1>5, SegmentIs
<1>6. ASSUME NEW n \in all PROVE n \in {Name(p[i]) : i \in {j \in DOMAIN p : p[j][1] # "lit"}}
  <2>1. CASE n \in names
    <3>1. PICK i \in At(n) : TRUE
      BY <2>1
    <3>2. i \in 1 .. Len(p) /\ p[i] = Param(n)
      BY <1>1
    <3>3. p[i][1] # "lit" /\ Name(p[i]) = n
      BY <3>2 DEF Param, Name
    <3> QED
      BY <1>1, <3>2, <3>3
  <2>2. CASE n \notin names
    <3>1. PICK i \in DOMAIN p \cap {star} : n = Name(p[i])
      BY <2>2
    <3>2. i = star /\ i \in 1 .. Len(p) /\ star = Len(p)
      BY <1>1, <3>1
    <3>3. p[Len(p)] = Star
      BY <1>1, <3>2, FirstStarIs
    <3>4. p[i][1] # "lit"
      BY <1>5, <3>2, <3>3
    <3> QED
      BY <1>1, <3>1, <3>2, <3>4
  <2> QED
    BY <2>1, <2>2
<1>7. ASSUME NEW i \in {j \in DOMAIN p : p[j][1] # "lit"} PROVE Name(p[i]) \in all
  <2>1. i \in 1 .. Len(p) /\ (p[i] = Star \/ p[i][1] = "param")
    BY <1>1, SegmentIs
  <2> QED
    BY <1>3, <1>5, <2>1
<1>8. DOMAIN Params(p, path) = all
  <2> HIDE DEF all, At, star
  <2> QED
    BY <1>2
<1>9. all = {Name(p[i]) : i \in {j \in DOMAIN p : p[j][1] # "lit"}}
  <2> HIDE DEF all
  <2> QED
    BY <1>6, <1>7
<1>10. ASSUME NEW i \in 1 .. Len(p), p[i][1] = "param" PROVE Params(p, path)[Name(p[i])] = <<path[i]>>
  <2>1. Name(p[i]) \in all /\ Name(p[i]) # "*" /\ At(Name(p[i])) = {i}
    BY <1>3, <1>10
  <2>2. Max({i}) = i
    <3>1. {i} \in SUBSET (1 .. Len(p)) /\ {i} # {}
      OBVIOUS
    <3>2. Max({i}) \in {i}
      BY <1>1, <3>1, MaxOfSome
    <3> QED
      BY <3>2
  <2> HIDE DEF all, At, star
  <2> QED
    BY <1>2, <2>1, <2>2
<1>11. ASSUME p[Len(p)] = Star PROVE Params(p, path)["*"] = SubSeq(path, Len(p), Len(path))
  <2>1. "*" \in all /\ star = Len(p)
    BY <1>1, <1>5, <1>11
  <2> HIDE DEF all, At, star
  <2> QED
    BY <1>2, <2>1
<1> QED
  BY <1>8, <1>9, <1>10, <1>11

\* The parameters of a match are those of a URL, and the URL is the path.
ParamValues(longest) == UNION {[1 .. n -> QSegs] : n \in 0 .. longest}
Unfixed(p) == {Name(p[i]) : i \in {j \in DOMAIN p : p[j][1] # "lit"}}
AreParams(p, params) ==
  params \in [Unfixed(p) -> ParamValues(QLongest)] /\ \A n \in Unfixed(p) \ {"*"} : Len(params[n]) = 1

LEMMA ShortPaths ==
  ASSUME NEW path \in Seq(QSegs), Len(path) <= QLongest
  PROVE  path \in ParamValues(QLongest)
<1>1. Len(path) \in 0 .. QLongest /\ path \in [1 .. Len(path) -> QSegs]
  BY LenProperties, RequestsBasics
<1> QED
  BY <1>1 DEF ParamValues

LEMMA FittedParams ==
  ASSUME NEW p \in Patterns, Len(p) >= 1, NEW path \in Seq(QSegs), Len(path) <= QLongest, Fits(p, path)
  PROVE  AreParams(p, Params(p, path)) /\ URL(p, Params(p, path)) = path
<1> DEFINE P == Params(p, path)
           n == Len(p)
<1>0. n \in Nat
  BY SegmentIs
<1>1. n \in Nat /\ DOMAIN p = 1 .. n /\ Len(path) \in Nat /\ QLongest \in Nat
  BY SegmentIs, LenProperties, RequestsBasics
<1>2. /\ DOMAIN P = Unfixed(p)
      /\ \A i \in 1 .. n : p[i][1] = "param" => P[Name(p[i])] = <<path[i]>>
      /\ p[n] = Star => P["*"] = SubSeq(path, n, Len(path))
  BY ParamsIs DEF Unfixed
<1> HIDE DEF P
<1>3. /\ \A i \in 1 .. n - 1 : i <= Len(path) /\ (p[i][1] = "lit" => Name(p[i]) = path[i])
      /\ \/ p[n] = Star
         \/ Len(path) = n /\ (p[n][1] = "lit" => Name(p[n]) = path[n])
  BY DEF Fits
<1>4. p[n] = Star => Len(path) >= n - 1
  <2>1. CASE n = 1
    BY <1>1, <2>1
  <2>2. CASE n # 1
    <3>1. n - 1 \in 1 .. n - 1
      BY <1>1, <2>2
    <3> QED
      BY <1>3, <3>1
  <2> QED
    BY <2>1, <2>2
<1>5. ASSUME NEW i \in 1 .. n, p[i] # Star PROVE i \in 1 .. Len(path) /\ path[i] \in QSegs
  <2>1. i \in 1 .. Len(path)
    <3>1. CASE i = n
      BY <1>1, <1>3, <1>5, <3>1
    <3>2. CASE i # n
      <4>1. i \in 1 .. n - 1
        BY <1>0, <3>2
      <4> QED
        BY <1>1, <1>3, <4>1
    <3> QED
      BY <3>1, <3>2
  <2> QED
    BY <2>1, ElementOfSeq
<1>6. ASSUME NEW i \in 1 .. n, p[i][1] = "lit" PROVE Name(p[i]) = path[i] /\ p[i] # Star
  <2>1. p[i] # Star
    BY <1>6, SegmentIs
  <2>2. CASE i = n
    BY <1>3, <1>6, <2>1, <2>2
  <2>3. CASE i # n
    <3>1. i \in 1 .. n - 1
      BY <1>0, <2>3
    <3> QED
      BY <1>3, <1>6, <2>1, <3>1
  <2> QED
    BY <2>1, <2>2, <2>3
<1>7. ASSUME NEW i \in 1 .. n, p[i] # Star
      PROVE  Piece(p, P, i) = <<path[i]>> /\ (p[i][1] # "lit" => P[Name(p[i])] = <<path[i]>>)
  <2>1. CASE p[i][1] = "lit"
    BY <1>6, <2>1 DEF Piece
  <2>2. CASE p[i][1] # "lit"
    <3>1. p[i][1] = "param"
      BY <1>7, <2>2, SegmentIs
    <3> QED
      BY <1>2, <2>2, <3>1 DEF Piece
  <2> QED
    BY <2>1, <2>2
<1>8. ASSUME p[n] = Star
      PROVE  /\ Piece(p, P, n) = SubSeq(path, n, Len(path)) /\ Piece(p, P, n) \in Seq(QSegs)
             /\ Len(Piece(p, P, n)) = Len(path) - (n - 1)
             /\ \A j \in 1 .. Len(path) - (n - 1) : Piece(p, P, n)[j] = path[n - 1 + j]
  <2>0. n \in 1 .. n
    BY <1>1
  <2>1. p[n][1] = "star" /\ Name(p[n]) = "*"
    BY <1>8, <2>0, SegmentIs
  <2>2. Piece(p, P, n) = SubSeq(path, n, Len(path))
    BY <1>2, <1>8, <2>1 DEF Piece
  <2>3. n \in Int /\ Len(path) \in Int /\ \A i \in n .. Len(path) : path[i] \in QSegs
    <3>1. \A i \in n .. Len(path) : i \in 1 .. Len(path)
      BY <1>1
    <3> QED
      BY <1>1, <3>1, ElementOfSeq
  <2>4. /\ SubSeq(path, n, Len(path)) \in Seq(QSegs)
        /\ Len(SubSeq(path, n, Len(path))) = IF n <= Len(path) THEN Len(path) - n + 1 ELSE 0
        /\ \A j \in 1 .. Len(path) - n + 1 : SubSeq(path, n, Len(path))[j] = path[n + j - 1]
    BY <2>3, SubSeqProperties
  <2>5. Len(Piece(p, P, n)) = Len(path) - (n - 1)
    BY <1>1, <1>4, <1>8, <2>2, <2>4
  <2>6. ASSUME NEW j \in 1 .. Len(path) - (n - 1) PROVE Piece(p, P, n)[j] = path[n - 1 + j]
    <3>1. j \in 1 .. Len(path) - n + 1 /\ n + j - 1 = n - 1 + j
      BY <1>1
    <3> QED
      BY <2>2, <2>4, <3>1
  <2> QED
    BY <2>2, <2>4, <2>5, <2>6
<1>9. ASSUME NEW i \in 1 .. n PROVE Piece(p, P, i) \in Seq(QSegs) /\ (p[i] # Star => Len(Piece(p, P, i)) = 1)
  <2>1. CASE p[i] = Star
    <3>1. i = n
      BY <2>1, SegmentIs
    <3> QED
      BY <1>8, <2>1, <3>1
  <2>2. CASE p[i] # Star
    <3>1. path[i] \in QSegs /\ Piece(p, P, i) = <<path[i]>>
      BY <1>5, <1>7, <2>2
    <3> QED
      BY <2>2, <3>1
  <2> QED
    BY <2>1, <2>2
<1>10. OneEach(p, P)
  <2>1. ASSUME NEW i \in 1 .. n - 1 PROVE Len(Piece(p, P, i)) = 1
    <3>1. i \in 1 .. n /\ i # n
      BY <1>0
    <3>2. p[i] # Star
      BY <3>1, SegmentIs
    <3> QED
      BY <1>9, <3>1, <3>2
  <2> QED
    BY <1>9, <2>1 DEF OneEach
<1>11. Spells(p, P, path)
  <2>1. ASSUME NEW i \in 1 .. n - 1 PROVE path[i] = Piece(p, P, i)[1]
    <3>1. i \in 1 .. n /\ i # n
      BY <1>0
    <3>2. p[i] # Star
      BY <3>1, SegmentIs
    <3> QED
      BY <1>7, <3>1, <3>2
  <2>2. CASE p[n] = Star
    <3>1. Len(path) = n - 1 + Len(Piece(p, P, n))
      BY <1>1, <1>8, <2>2
    <3>2. \A j \in 1 .. Len(Piece(p, P, n)) : path[n - 1 + j] = Piece(p, P, n)[j]
      BY <1>8, <2>2
    <3> QED
      BY <2>1, <3>1, <3>2 DEF Spells
  <2>3. CASE p[n] # Star
    <3>1. n \in 1 .. n
      BY <1>1
    <3>2. Piece(p, P, n) = <<path[n]>> /\ Len(path) = n
      BY <1>3, <1>7, <2>3, <3>1
    <3>3. Len(Piece(p, P, n)) = 1 /\ Piece(p, P, n)[1] = path[n]
      BY <3>2
    <3>4. Len(path) = n - 1 + Len(Piece(p, P, n))
      BY <1>1, <3>2, <3>3
    <3>5. \A j \in 1 .. Len(Piece(p, P, n)) : j = 1 /\ n - 1 + j = n
      BY <1>1, <3>3
    <3> QED
      BY <2>1, <3>3, <3>4, <3>5 DEF Spells
  <2> QED
    BY <2>2, <2>3
<1>12. URL(p, P) = path
  BY <1>10, <1>11, URLIs
<1>13. ASSUME NEW m \in Unfixed(p)
       PROVE  P[m] \in ParamValues(QLongest) /\ (m # "*" => Len(P[m]) = 1)
  <2>1. PICK i \in 1 .. n : p[i][1] # "lit" /\ m = Name(p[i])
    BY <1>1 DEF Unfixed
  <2>2. P[m] = Piece(p, P, i) /\ P[m] \in Seq(QSegs)
    BY <1>9, <2>1 DEF Piece
  <2>3. CASE p[i] = Star
    <3>1. i = n /\ m = "*"
      BY <2>1, <2>3, SegmentIs
    <3>2. Len(P[m]) <= QLongest
      BY <1>1, <1>8, <2>2, <2>3, <3>1
    <3> QED
      BY <2>2, <3>1, <3>2, ShortPaths
  <2>4. CASE p[i] # Star
    <3>1. Len(P[m]) = 1 /\ i \in 1 .. Len(path)
      BY <1>5, <1>9, <2>2, <2>4
    <3>2. Len(P[m]) <= QLongest
      BY <1>1, <3>1
    <3> QED
      BY <2>2, <3>1, <3>2, ShortPaths
  <2> QED
    BY <2>3, <2>4
<1>14. P = [m \in Unfixed(p) |-> P[m]]
  BY <1>2 DEF P, Params
<1>15. AreParams(p, P)
  BY <1>13, <1>14 DEF AreParams
<1> QED
  BY <1>12, <1>15 DEF P

\* A URL of a pattern is matched by it.
LEMMA URLsMatch ==
  ASSUME NEW p \in Patterns, Len(p) >= 1, NEW path \in Seq(QSegs), NEW params,
         AreParams(p, params), URL(p, params) = path
  PROVE  Fits(p, path)
<1> DEFINE n == Len(p)
<1>0. n \in Nat
  BY SegmentIs
<1>1. n \in Nat /\ DOMAIN p = 1 .. n /\ Len(path) \in Nat /\ n \in 1 .. n /\ QLongest \in Nat
  BY SegmentIs, LenProperties, RequestsBasics
<1>2. ParamValues(QLongest) \subseteq Seq(QSegs)
  BY <1>1 DEF ParamValues
<1>3. ASSUME NEW i \in 1 .. n
      PROVE  /\ Piece(p, params, i) \in Seq(QSegs)
             /\ p[i][1] = "lit" => Piece(p, params, i) = <<Name(p[i])>>
             /\ p[i] # Star => Len(Piece(p, params, i)) = 1
  <2>1. CASE p[i][1] = "lit"
    <3>1. Name(p[i]) \in QSegs /\ Piece(p, params, i) = <<Name(p[i])>>
      BY <2>1, SegmentIs DEF Piece
    <3> QED
      BY <3>1
  <2>2. CASE p[i][1] # "lit"
    <3>1. Name(p[i]) \in Unfixed(p) /\ Piece(p, params, i) = params[Name(p[i])]
      BY <1>1, <2>2 DEF Piece, Unfixed
    <3>2. params[Name(p[i])] \in Seq(QSegs)
      BY <1>2, <3>1 DEF AreParams
    <3>3. p[i] # Star => Name(p[i]) # "*"
      BY <2>2, SegmentIs
    <3> QED
      BY <2>2, <3>1, <3>2, <3>3 DEF AreParams
  <2> QED
    BY <2>1, <2>2
<1>4. \A i \in 1 .. n - 1 : i \in 1 .. n /\ p[i] # Star
  <2>1. \A i \in 1 .. n - 1 : i \in 1 .. n /\ i # n
    BY <1>0
  <2> QED
    BY <2>1, SegmentIs
<1>5. OneEach(p, params)
  BY <1>3, <1>4 DEF OneEach
<1>6. Spells(p, params, path)
  BY <1>5, URLIs
<1>7. Len(Piece(p, params, n)) \in Nat
  BY <1>1, <1>3, LenProperties
<1>8. ASSUME NEW i \in 1 .. n - 1 PROVE i <= Len(path) /\ (p[i][1] = "lit" => Name(p[i]) = path[i])
  <2>1. i <= Len(path)
    BY <1>1, <1>6, <1>7 DEF Spells
  <2>2. p[i][1] = "lit" => Piece(p, params, i)[1] = Name(p[i])
    BY <1>3, <1>4
  <2> QED
    BY <1>6, <2>1, <2>2 DEF Spells
<1>9. ASSUME p[n] # Star PROVE Len(path) = n /\ (p[n][1] = "lit" => Name(p[n]) = path[n])
  <2>1. Len(Piece(p, params, n)) = 1
    BY <1>1, <1>3, <1>9
  <2>2. Len(path) = n
    BY <1>1, <1>6, <2>1 DEF Spells
  <2>3. path[n] = Piece(p, params, n)[1]
    <3>1. 1 \in 1 .. Len(Piece(p, params, n)) /\ n - 1 + 1 = n
      BY <1>1, <2>1
    <3> QED
      BY <1>6, <3>1 DEF Spells
  <2> QED
    BY <1>1, <1>3, <2>2, <2>3
<1> QED
  BY <1>8, <1>9 DEF Fits

\* The empty pattern, of the path `/'.
LEMMA EmptyPattern ==
  ASSUME NEW p \in Patterns, Len(p) = 0, NEW path \in Seq(QSegs), NEW params
  PROVE  /\ matchRoute(p, path) <=> path = <<>>
         /\ URL(p, params) = <<>>
         /\ Unfixed(p) = {} /\ ~HasParams(p) /\ Literals(p) = <<>>
<1>0. Len(path) \in Nat /\ (path = <<>> <=> Len(path) = 0)
  BY LenProperties, EmptySeq
<1>1. DOMAIN p = {} /\ p = <<>>
  <2>1. p \in Seq({Lit(s) : s \in QSegs} \cup {Param(n) : n \in QNames} \cup {Star})
    BY DEF Patterns
  <2>2. p = <<>>
    BY <2>1, EmptySeq
  <2> QED
    BY <2>2
<1>2. FirstStar(p) = 1
  BY <1>1 DEF FirstStar
<1>3. matchRoute(p, path) <=> path = <<>>
  BY <1>0, <1>1, <1>2 DEF matchRoute
<1>4. ASSUME NEW f, DOMAIN f = {}, f = [i \in {} |-> f[i]] PROVE f = <<>>
  <2>1. f \in [1 .. 0 -> QSegs]
    BY <1>4
  <2>2. f \in Seq(QSegs) /\ Len(f) = 0
    BY <2>1
  <2> QED
    BY <2>2, EmptySeq
<1>5. URL(p, params) = <<>>
  <2> DEFINE s == [i \in DOMAIN p |-> IF p[i][1] = "lit" THEN <<Name(p[i])>> ELSE params[Name(p[i])]]
  <2>1. DOMAIN s = {} /\ s = [i \in {} |-> s[i]]
    BY <1>1
  <2>2. URL(p, params) = FlattenSeq(s)
    BY DEF URL
  <2> HIDE DEF s
  <2>3. s = <<>>
    BY <1>4, <2>1
  <2> QED
    BY <2>2, <2>3 DEF FlattenSeq
<1>6. Literals(p) = <<>>
  <2>1. DOMAIN Literals(p) = {} /\ Literals(p) = [i \in {} |-> Literals(p)[i]]
    BY <1>1 DEF Literals
  <2> QED
    BY <1>4, <2>1
<1>7. Unfixed(p) = {} /\ ~HasParams(p)
  BY <1>1 DEF Unfixed, HasParams
<1> QED
  BY <1>3, <1>5, <1>6, <1>7

\* A route matches the paths that are URLs of its pattern, and those only; and what it
\* puts in the parameters builds the path again.
LEMMA MatchesAreURLs ==
  ASSUME NEW p \in Patterns, NEW path \in Seq(QSegs), Len(path) <= QLongest
  PROVE  /\ matchRoute(p, path) <=> IsURLOf(p, path, QSegs, QLongest)
         /\ matchRoute(p, path) => URL(p, Params(p, path)) = path
<1>0. Len(p) \in Nat
  BY SegmentIs
<1>1. IsURLOf(p, path, QSegs, QLongest) <=> \E params : AreParams(p, params) /\ URL(p, params) = path
  BY DEF IsURLOf, AreParams, Unfixed, ParamValues
<1>2. CASE Len(p) = 0
  <2>1. AreParams(p, [n \in {} |-> <<>>])
    <3>1. Unfixed(p) = {}
      BY <1>2, EmptyPattern
    <3> QED
      BY <3>1 DEF AreParams
  <2>2. \A params : URL(p, params) = <<>>
    BY <1>2, EmptyPattern
  <2>3. matchRoute(p, path) <=> path = <<>>
    BY <1>2, EmptyPattern
  <2> QED
    BY <1>1, <2>1, <2>2, <2>3
<1>3. CASE Len(p) >= 1
  <2>1. matchRoute(p, path) <=> Fits(p, path)
    BY <1>3, MatchIs
  <2>2. Fits(p, path) => AreParams(p, Params(p, path)) /\ URL(p, Params(p, path)) = path
    BY <1>3, FittedParams
  <2>3. ASSUME NEW params, AreParams(p, params), URL(p, params) = path PROVE Fits(p, path)
    BY <1>3, <2>3, URLsMatch
  <2> QED
    BY <1>1, <2>1, <2>2, <2>3
<1> QED
  BY <1>0, <1>2, <1>3

\* The exact paths of the map are those that match a pattern without parameters.
LEMMA ExactMatches ==
  ASSUME NEW p \in Patterns, ~HasParams(p), NEW path \in Seq(QSegs)
  PROVE  Literals(p) = path <=> matchRoute(p, path)
<1>0. Len(p) \in Nat /\ Len(path) \in Nat
  BY SegmentIs, LenProperties
<1>1. CASE Len(p) = 0
  BY <1>1, EmptyPattern
<1>2. CASE Len(p) >= 1
  <2>1. DOMAIN p = 1 .. Len(p)
    BY SegmentIs
  <2>2. \A i \in 1 .. Len(p) : p[i][1] = "lit"
    BY <2>1 DEF HasParams
  <2>3. \A i \in 1 .. Len(p) : Name(p[i]) \in QSegs /\ p[i] # Star
    BY <2>2, SegmentIs
  <2>4. Len(p) \in 1 .. Len(p)
    BY <1>0, <1>2
  <2>5. Fits(p, path) <=> Len(path) = Len(p) /\ \A i \in 1 .. Len(p) : Name(p[i]) = path[i]
    <3>1. \A i : i \in 1 .. Len(p) <=> i \in 1 .. Len(p) - 1 \/ i = Len(p)
      BY <1>0, <1>2
    <3>2. Len(path) = Len(p) => \A i \in 1 .. Len(p) - 1 : i <= Len(path)
      BY <1>0
    <3> QED
      BY <2>2, <2>3, <2>4, <3>1, <3>2 DEF Fits
  <2>6. Literals(p) = [i \in 1 .. Len(p) |-> Name(p[i])]
    BY <2>1 DEF Literals
  <2>7. Literals(p) \in Seq(QSegs) /\ Len(Literals(p)) = Len(p)
    BY <1>0, <2>3, <2>6
  <2>8. \A i \in 1 .. Len(p) : Literals(p)[i] = Name(p[i])
    BY <2>6
  <2>9. Literals(p) = path <=> Len(path) = Len(p) /\ \A i \in 1 .. Len(p) : Literals(p)[i] = path[i]
    BY <2>7, SeqEqual
  <2> QED
    BY <1>2, <2>5, <2>8, <2>9, MatchIs
<1> QED
  BY <1>0, <1>1, <1>2

\* A request runs the handler that is meant for it, or is answered 404 or 405.
LEMMA Dispatches ==
  ASSUME NEW routes \in Seq([method : QMethods, pattern : Patterns, slash : BOOLEAN]),
         NEW method, NEW path, path.segs \in Seq(QSegs), Len(path.segs) <= QLongest
  PROVE  DispatchSound(routes, method, path, QSegs, QLongest)
<1> DEFINE out == ServeHTTP(routes, method, path)
           has == {i \in DOMAIN routes : IsURLOf(routes[i].pattern, path.segs, QSegs, QLongest)}
           own == {i \in has : routes[i].method = method}
           same == {i \in own : ~HasParams(routes[i].pattern) /\ routes[i].slash = path.slash}
           exact == Exact(routes, method, path)
           match == Match(routes, method, path)
<1>1. Len(routes) \in Nat /\ DOMAIN routes = 1 .. Len(routes)
  BY LenProperties
<1>2. \A i \in DOMAIN routes : routes[i].pattern \in Patterns
  <2>1. \A i \in 1 .. Len(routes) : routes[i] \in [method : QMethods, pattern : Patterns, slash : BOOLEAN]
    BY ElementOfSeq
  <2>2. \A i \in 1 .. Len(routes) : routes[i].pattern \in Patterns
    BY <2>1
  <2> QED
    BY <1>1, <2>2
<1>3. has = Matching(routes, path)
  BY <1>2, MatchesAreURLs DEF Matching
<1>4. own = match
  BY <1>3 DEF Match
<1>5. same = exact
  <2>1. \A i \in DOMAIN routes : ~HasParams(routes[i].pattern) =>
          (Literals(routes[i].pattern) = path.segs <=> IsURLOf(routes[i].pattern, path.segs, QSegs, QLongest))
    BY <1>2, ExactMatches, MatchesAreURLs
  <2> QED
    BY <2>1 DEF Exact
<1>6. exact \in SUBSET (1 .. Len(routes)) /\ match \in SUBSET (1 .. Len(routes)) /\ exact \subseteq match
  <2>1. same \subseteq own /\ own \subseteq DOMAIN routes
    OBVIOUS
  <2> QED
    BY <1>1, <1>4, <1>5, <2>1
<1>7. \A i \in match : URL(routes[i].pattern, Params(routes[i].pattern, path.segs)) = path.segs
  <2>1. \A i \in match : i \in DOMAIN routes /\ matchRoute(routes[i].pattern, path.segs)
    BY DEF Match, Matching
  <2> QED
    BY <1>2, <2>1, MatchesAreURLs
<1>8. DispatchSound(routes, method, path, QSegs, QLongest) <=>
        /\ out.status = IF own # {} THEN 200 ELSE IF has # {} THEN 405 ELSE 404
        /\ own # {} =>
             /\ IF same # {} THEN out.route = Max(same)
                ELSE out.route \in own /\ SameRoute(routes[out.route], routes[Min(own)])
             /\ out.route \in same \/ URL(routes[out.route].pattern, out.params) = path.segs
  BY DEF DispatchSound
<1> HIDE DEF own, same, has
<1>9. CASE exact # {}
  <2>1. out = [status |-> 200, route |-> Max(exact), params |-> <<>>]
    BY <1>9 DEF ServeHTTP
  <2> HIDE DEF exact, match, out
  <2>2. Max(exact) \in exact
    BY <1>1, <1>6, <1>9, MaxOfSome
  <2>3. own # {}
    BY <1>4, <1>6, <1>9
  <2> QED
    BY <1>5, <1>8, <1>9, <2>1, <2>2, <2>3
<1>10. CASE exact = {} /\ match # {}
  <2>1. out = [status |-> 200, route |-> Min(match),
               params |-> Params(routes[Min(match)].pattern, path.segs)]
    BY <1>10 DEF ServeHTTP
  <2> HIDE DEF exact, match, out
  <2>2. match \in SUBSET Nat
    BY <1>6
  <2>3. Min(match) \in match
    BY <1>10, <2>2, MinIs
  <2>4. out.status = 200 /\ out.route = Min(match) /\ out.params = Params(routes[out.route].pattern, path.segs)
    BY <2>1
  <2>5. SameRoute(routes[out.route], routes[Min(match)])
    BY <2>4 DEF SameRoute
  <2> QED
    BY <1>4, <1>5, <1>7, <1>8, <1>10, <2>3, <2>4, <2>5
<1>11. CASE exact = {} /\ match = {}
  <2>1. out = [status |-> IF Matching(routes, path) # {} THEN 405 ELSE 404]
    BY <1>11 DEF ServeHTTP
  <2> HIDE DEF exact, match, out
  <2> QED
    BY <1>3, <1>4, <1>8, <1>11, <2>1
<1> QED
  BY <1>9, <1>10, <1>11

-----------------------------------------------------------------------------
(* Validation *)

\* The error map has the fields that break a rule, or are missing.
Breaks(body, set, f) ==
  f \notin DOMAIN body \/ \E i \in DOMAIN set[f] : ~Passes(set[f][i], Coerced(body[f]))

LEMMA RulesReport ==
  ASSUME NEW body, NEW set
  PROVE  /\ DOMAIN Rules(body, set) = {f \in DOMAIN set : Breaks(body, set, f)}
         /\ Rules(body, set) = <<>> <=> \A f \in DOMAIN set : ~Breaks(body, set, f)
         /\ \A f \in DOMAIN Rules(body, set) : f \in DOMAIN body =>
              Rules(body, set)[f] = set[f][Min(Failing(set[f], Coerced(body[f])))].name
<1> DEFINE fails(f) == IF f \notin DOMAIN body THEN {0} ELSE Failing(set[f], Coerced(body[f]))
           bad == {f \in DOMAIN set : fails(f) # {}}
<1>1. Rules(body, set) =
        [f \in bad |-> IF f \notin DOMAIN body THEN "unrecognised" ELSE set[f][Min(fails(f))].name]
  BY DEF Rules
<1>2. bad = {f \in DOMAIN set : Breaks(body, set, f)}
  <2>1. \A f \in DOMAIN set : fails(f) # {} <=> Breaks(body, set, f)
    BY DEF Breaks, Failing
  <2> QED
    BY <2>1
<1>3. DOMAIN Rules(body, set) = bad
  <2> HIDE DEF bad, fails
  <2> QED
    BY <1>1
<1>4. Rules(body, set) = <<>> <=> bad = {}
  <2>1. DOMAIN <<>> = {}
    OBVIOUS
  <2>2. ASSUME bad = {} PROVE Rules(body, set) = <<>>
    <3> DEFINE e == Rules(body, set)
    <3>1. e = [f \in DOMAIN e |-> e[f]]
      BY <1>1
    <3>2. DOMAIN e = 1 .. 0
      BY <1>3, <2>2
    <3> HIDE DEF e
    <3>3. e \in [1 .. 0 -> QSegs]
      BY <3>1, <3>2
    <3>4. e \in Seq(QSegs) /\ Len(e) = 0
      BY <3>3
    <3>5. e = <<>>
      BY <3>4, EmptySeq
    <3> QED
      BY <3>5 DEF e
  <2> QED
    BY <1>3, <2>1, <2>2
<1>5. ASSUME NEW f \in bad, f \in DOMAIN body
      PROVE  Rules(body, set)[f] = set[f][Min(Failing(set[f], Coerced(body[f])))].name
  <2>1. Rules(body, set)[f] = set[f][Min(fails(f))].name
    <3> HIDE DEF bad, fails
    <3> QED
      BY <1>1, <1>5
  <2>2. fails(f) = Failing(set[f], Coerced(body[f]))
    BY <1>5
  <2> QED
    BY <2>1, <2>2
<1> HIDE DEF bad
<1> QED
  BY <1>2, <1>3, <1>4, <1>5

LEMMA Validates ==
  ASSUME NEW decodes \in BOOLEAN, NEW body, NEW set, \A f \in DOMAIN set : set[f] \in Seq(QRules)
  PROVE  ValidationSound(decodes, body, set)
<1> DEFINE out == ValidateRequest(decodes, body, TRUE, set)
           errors == Rules(body, set)
           broken(f) == \E i \in DOMAIN set[f] : ~Passes(set[f][i], Coerced(body[f]))
<1>1. out.runs <=> decodes /\ errors = <<>>
  BY DEF ValidateRequest
<1>2. out.runs <=> decodes /\ \A f \in DOMAIN set : f \in DOMAIN body /\ ~broken(f)
  <2>1. \A f \in DOMAIN set : ~Breaks(body, set, f) <=> f \in DOMAIN body /\ ~broken(f)
    BY DEF Breaks
  <2>2. errors = <<>> <=> \A f \in DOMAIN set : ~Breaks(body, set, f)
    BY RulesReport
  <2> HIDE DEF out, errors, broken
  <2> QED
    BY <1>1, <2>1, <2>2
<1>3. ASSUME NEW f \in DOMAIN set \cap DOMAIN body
      PROVE  /\ f \in DOMAIN errors <=> broken(f)
             /\ f \in DOMAIN errors =>
                  \E i \in DOMAIN set[f] : /\ set[f][i].name = errors[f]
                                           /\ ~Passes(set[f][i], Coerced(body[f]))
                                           /\ \A j \in 1 .. i - 1 : Passes(set[f][j], Coerced(body[f]))
             /\ \A n \in 0 .. Len(set[f]) :
                  f \in DOMAIN Rules(body, [set EXCEPT ![f] = SubSeq(@, 1, n)]) => f \in DOMAIN errors
  <2> DEFINE failing == Failing(set[f], Coerced(body[f]))
  <2>1. Len(set[f]) \in Nat /\ DOMAIN set[f] = 1 .. Len(set[f])
    BY LenProperties
  <2>2. f \in DOMAIN errors <=> broken(f)
    <3>1. f \in DOMAIN errors <=> Breaks(body, set, f)
      BY RulesReport
    <3> QED
      BY <3>1 DEF Breaks
  <2>3. ASSUME f \in DOMAIN errors
        PROVE  \E i \in DOMAIN set[f] : /\ set[f][i].name = errors[f]
                                        /\ ~Passes(set[f][i], Coerced(body[f]))
                                        /\ \A j \in 1 .. i - 1 : Passes(set[f][j], Coerced(body[f]))
    <3>1. failing # {} /\ failing \in SUBSET Nat /\ failing \subseteq DOMAIN set[f]
      BY <2>1, <2>2, <2>3 DEF Failing
    <3>2. Min(failing) \in failing /\ \A u \in failing : Min(failing) <= u
      <4> HIDE DEF failing
      <4> QED
        BY <3>1, MinIs
    <3>3. errors[f] = set[f][Min(failing)].name
      BY <2>3, RulesReport
    <3> DEFINE i == Min(failing)
    <3>4. i \in DOMAIN set[f] /\ i \in 1 .. Len(set[f]) /\ ~Passes(set[f][i], Coerced(body[f]))
      BY <2>1, <3>2 DEF Failing
    <3>5. ASSUME NEW j \in 1 .. i - 1 PROVE Passes(set[f][j], Coerced(body[f]))
      <4>1. j \in 1 .. Len(set[f]) /\ ~(i <= j)
        BY <2>1, <3>4
      <4>2. j \notin failing
        BY <3>2, <4>1
      <4> QED
        BY <2>1, <4>1, <4>2 DEF Failing
    <3> QED
      BY <3>3, <3>4, <3>5
  <2>4. ASSUME NEW n \in 0 .. Len(set[f]),
               f \in DOMAIN Rules(body, [set EXCEPT ![f] = SubSeq(@, 1, n)])
        PROVE  f \in DOMAIN errors
    <3> DEFINE fewer == [set EXCEPT ![f] = SubSeq(@, 1, n)]
    <3>1. fewer[f] = SubSeq(set[f], 1, n)
      OBVIOUS
    <3>2. Breaks(body, fewer, f)
      <4> HIDE DEF fewer
      <4>1. f \in DOMAIN Rules(body, fewer)
        BY <2>4 DEF fewer
      <4> QED
        BY <4>1, RulesReport
    <3> HIDE DEF fewer
    <3>3. PICK i \in DOMAIN fewer[f] : ~Passes(fewer[f][i], Coerced(body[f]))
      BY <3>2 DEF Breaks
    <3>4. /\ SubSeq(set[f], 1, n) \in Seq(QRules) /\ Len(SubSeq(set[f], 1, n)) = n
          /\ \A j \in 1 .. n : SubSeq(set[f], 1, n)[j] = set[f][j]
      BY <2>1, SubSeqProperties, ElementOfSeq
    <3>5. i \in 1 .. n
      BY <3>1, <3>3, <3>4, LenProperties
    <3>6. i \in DOMAIN set[f] /\ ~Passes(set[f][i], Coerced(body[f]))
      BY <2>1, <3>1, <3>3, <3>4, <3>5
    <3>7. broken(f)
      BY <3>6
    <3> QED
      BY <2>2, <3>7
  <2> QED
    BY <2>2, <2>3, <2>4
<1> QED
  BY <1>2, <1>3 DEF ValidationSound

-----------------------------------------------------------------------------
(* The middleware *)

\* What nexter(index) answers, when the next one answers inner.
TraceEntries == Nat \cup {"handler"}
Handled == [trace |-> <<"handler">>, status |-> "200", err |-> FALSE]
Stopped(layers, i) ==
  [trace |-> <<i>>, status |-> IF layers[i] = "error" THEN "200" ELSE layers[i],
   err |-> layers[i] = "error"]
Passed(layers, i, inner) ==
  [trace |-> <<i>> \o inner.trace \o <<i>>, status |-> inner.status,
   err |-> inner.err /\ layers[i] # "wraps"]
Inside(layers, i, inner) ==
  IF Stops(layers[i]) THEN Stopped(layers, i) ELSE Passed(layers, i, inner)
Nexts(layers, f) ==
  f[Len(layers) + 1] = Handled /\ \A i \in 1 .. Len(layers) : f[i] = Inside(layers, i, f[i + 1])

\* Pipeline.Run is such a recursion from its first layer.
LEMMA RunIs ==
  ASSUME NEW layers \in Seq(QLayers)
  PROVE  \E f : Nexts(layers, f) /\ Run(layers) = f[1]
<1> DEFINE n == Len(layers)
           Answers == [trace : Seq(TraceEntries), status : QLayers \cup {"200"}, err : BOOLEAN]
           step == [p \in (1 .. n) \X Answers |-> Inside(layers, p[1], p[2])]
           Follows(f) == f = [index \in 1 .. n + 1 |->
                                IF index > n
                                THEN [trace |-> <<"handler">>, status |-> "200", err |-> FALSE]
                                ELSE IF Stops(layers[index])
                                THEN [trace |-> <<index>>,
                                      status |-> IF layers[index] = "error" THEN "200" ELSE layers[index],
                                      err |-> layers[index] = "error"]
                                ELSE LET inner == f[index + 1] IN
                                     [trace |-> <<index>> \o inner.trace \o <<index>>,
                                      status |-> inner.status,
                                      err |-> inner.err /\ layers[index] # "wraps"]]
           nexter == CHOOSE f : Follows(f)
<1>0. n \in Nat /\ \A i \in 1 .. n : layers[i] \in QLayers
  BY LenProperties, ElementOfSeq
<1>1. Handled \in Answers
  <2>1. <<"handler">> \in Seq(TraceEntries)
    BY DEF TraceEntries
  <2> QED
    BY <2>1 DEF Handled
<1>2. ASSUME NEW i \in 1 .. n, NEW inner \in Answers PROVE Inside(layers, i, inner) \in Answers
  <2>1. i \in TraceEntries /\ <<i>> \in Seq(TraceEntries) /\ inner.trace \in Seq(TraceEntries) /\ layers[i] \in QLayers
    BY <1>0 DEF TraceEntries
  <2>2. <<i>> \o inner.trace \in Seq(TraceEntries)
    BY <2>1, ConcatProperties
  <2>3. <<i>> \o inner.trace \o <<i>> \in Seq(TraceEntries)
    BY <2>1, <2>2, ConcatProperties
  <2> QED
    BY <2>1, <2>3 DEF Inside, Stopped, Passed
<1>3. step \in [(1 .. n) \X Answers -> Answers]
  <2> HIDE DEF Answers, n
  <2> QED
    BY <1>2
<1>4. RecursesDown(n, Answers, Handled, step)
  <2> HIDE DEF step, Answers, n
  <2> QED
    BY <1>0, <1>1, <1>3, RecursionDown
<1>5. PICK g \in [1 .. n + 1 -> Answers] :
        g[n + 1] = Handled /\ \A i \in 1 .. n : g[i] = step[<<i, g[i + 1]>>]
  <2> HIDE DEF step, Answers
  <2> QED
    BY <1>4 DEF RecursesDown
<1>6. \A i \in 1 .. n : g[i] = Inside(layers, i, g[i + 1])
  <2>1. \A i \in 1 .. n : i + 1 \in 1 .. n + 1
    BY <1>0
  <2>2. \A i \in 1 .. n : g[i + 1] \in Answers
    BY <1>5, <2>1
  <2> HIDE DEF Answers, n
  <2> QED
    BY <1>5, <2>2
<1> HIDE DEF step
<1>7. \A f : Follows(f) <=> f = [i \in 1 .. n + 1 |-> IF i > n THEN Handled ELSE Inside(layers, i, f[i + 1])]
  BY DEF Handled, Inside, Stopped, Passed
<1> HIDE DEF Follows
<1>8. Follows(g)
  <2>1. \A i \in 1 .. n + 1 : g[i] = IF i > n THEN Handled ELSE Inside(layers, i, g[i + 1])
    <3>1. \A i \in 1 .. n + 1 : (i > n /\ i = n + 1) \/ (~(i > n) /\ i \in 1 .. n)
      BY <1>0
    <3> QED
      BY <1>5, <1>6, <3>1, Zenon
  <2>2. g = [i \in 1 .. n + 1 |-> g[i]]
    BY <1>5
  <2>3. g = [i \in 1 .. n + 1 |-> IF i > n THEN Handled ELSE Inside(layers, i, g[i + 1])]
    BY <2>1, <2>2, Zenon
  <2> QED
    BY <1>7, <2>3
<1>9. Follows(nexter)
  BY <1>8
<1>10. Run(layers) = nexter[1]
  BY DEF Run, Follows
<1> HIDE DEF nexter
<1>11. nexter = [i \in 1 .. n + 1 |-> IF i > n THEN Handled ELSE Inside(layers, i, nexter[i + 1])]
  BY <1>7, <1>9
<1>12. \A i \in 1 .. n + 1 : nexter[i] = IF i > n THEN Handled ELSE Inside(layers, i, nexter[i + 1])
  BY <1>11, Zenon
<1>13. Nexts(layers, nexter)
  <2>1. n + 1 \in 1 .. n + 1 /\ n + 1 > n /\ \A i \in 1 .. n : i \in 1 .. n + 1 /\ ~(i > n)
    BY <1>0
  <2> QED
    BY <1>12, <2>1, Zenon DEF Nexts
<1> QED
  BY <1>10, <1>13

\* The layers from i to e that pass the request on, and what is inside of them: they are
\* entered in order, and left in the reverse order.
Trace(i, e, mid) ==
  [k \in 1 .. 2 * (e - i + 1) + 1 |->
     IF k <= e - i + 1 THEN i + k - 1
     ELSE IF k = e - i + 2 THEN mid ELSE 2 * e - i + 3 - k]
LEMMA TraceIs ==
  ASSUME NEW e \in Nat, NEW i \in 1 .. e + 1, NEW mid \in TraceEntries
  PROVE  /\ Trace(i, e, mid) \in Seq(TraceEntries) /\ Len(Trace(i, e, mid)) = 2 * (e - i + 1) + 1
         /\ \A k \in 1 .. 2 * (e - i + 1) + 1 :
              Trace(i, e, mid)[k] = IF k <= e - i + 1 THEN i + k - 1
                                    ELSE IF k = e - i + 2 THEN mid ELSE 2 * e - i + 3 - k
<1> DEFINE n == 2 * (e - i + 1) + 1
<1>1. n \in Nat
  OBVIOUS
<1>2. ASSUME NEW k \in 1 .. n
      PROVE  (IF k <= e - i + 1 THEN i + k - 1
              ELSE IF k = e - i + 2 THEN mid ELSE 2 * e - i + 3 - k) \in TraceEntries
  <2>1. k <= e - i + 1 => i + k - 1 \in Nat
    OBVIOUS
  <2>2. 2 * e - i + 3 - k \in Nat
    OBVIOUS
  <2> QED
    BY <2>1, <2>2 DEF TraceEntries
<1>3. Trace(i, e, mid) \in [1 .. n -> TraceEntries]
  BY <1>2 DEF Trace
<1>4. Trace(i, e, mid) \in Seq(TraceEntries) /\ Len(Trace(i, e, mid)) = n
  <2> HIDE DEF n, TraceEntries
  <2> QED
    BY <1>1, <1>3
<1> QED
  BY <1>4 DEF Trace

LEMMA TraceGrows ==
  ASSUME NEW e \in Nat, NEW i \in 1 .. e, NEW mid \in TraceEntries
  PROVE  <<i>> \o Trace(i + 1, e, mid) \o <<i>> = Trace(i, e, mid)
<1> DEFINE inner == Trace(i + 1, e, mid)
           n == 2 * (e - i) + 1
           left == <<i>> \o inner
           both == left \o <<i>>
<1>0. n \in Nat /\ i + 1 \in 1 .. e + 1 /\ i \in 1 .. e + 1 /\ <<i>> \in Seq(TraceEntries)
  BY DEF TraceEntries
<1>1. /\ inner \in Seq(TraceEntries) /\ Len(inner) = n
      /\ \A k \in 1 .. n : inner[k] = IF k <= e - i THEN i + k
                                      ELSE IF k = e - i + 1 THEN mid ELSE 2 * e - i + 2 - k
  <2>1. /\ inner \in Seq(TraceEntries) /\ Len(inner) = 2 * (e - (i + 1) + 1) + 1
        /\ \A k \in 1 .. 2 * (e - (i + 1) + 1) + 1 :
             inner[k] = IF k <= e - (i + 1) + 1 THEN (i + 1) + k - 1
                        ELSE IF k = e - (i + 1) + 2 THEN mid ELSE 2 * e - (i + 1) + 3 - k
    BY ZenonT(60), <1>0, TraceIs
  <2>2. 2 * (e - (i + 1) + 1) + 1 = n
    OBVIOUS
  <2> HIDE DEF inner
  <2> QED
    BY <2>1, <2>2
<1> HIDE DEF inner
<1>2. /\ left \in Seq(TraceEntries) /\ Len(left) = n + 1 /\ left[1] = i
      /\ \A k \in 2 .. n + 1 : left[k] = inner[k - 1]
  <2>1. /\ left \in Seq(TraceEntries) /\ Len(left) = Len(<<i>>) + Len(inner)
        /\ \A k \in 1 .. Len(<<i>>) + Len(inner) :
             left[k] = IF k <= Len(<<i>>) THEN <<i>>[k] ELSE inner[k - Len(<<i>>)]
    BY <1>0, <1>1, ConcatProperties
  <2>2. Len(<<i>>) = 1 /\ <<i>>[1] = i
    OBVIOUS
  <2> HIDE DEF left, n
  <2> QED
    BY <1>0, <1>1, <2>1, <2>2
<1> HIDE DEF left
<1>3. /\ both \in Seq(TraceEntries) /\ Len(both) = n + 2 /\ both[n + 2] = i
      /\ \A k \in 1 .. n + 1 : both[k] = left[k]
  <2>1. /\ both \in Seq(TraceEntries) /\ Len(both) = Len(left) + Len(<<i>>)
        /\ \A k \in 1 .. Len(left) + Len(<<i>>) :
             both[k] = IF k <= Len(left) THEN left[k] ELSE <<i>>[k - Len(left)]
    BY <1>0, <1>2, ConcatProperties
  <2>2. Len(<<i>>) = 1 /\ <<i>>[1] = i
    OBVIOUS
  <2> HIDE DEF both, n
  <2> QED
    BY <1>0, <1>2, <2>1, <2>2
<1> HIDE DEF both
<1> DEFINE outer == Trace(i, e, mid)
<1>4. /\ outer \in Seq(TraceEntries) /\ Len(outer) = n + 2
      /\ \A k \in 1 .. n + 2 : outer[k] = IF k <= e - i + 1 THEN i + k - 1
                                          ELSE IF k = e - i + 2 THEN mid ELSE 2 * e - i + 3 - k
  <2>1. 2 * (e - i + 1) + 1 = n + 2
    OBVIOUS
  <2> HIDE DEF outer, n
  <2> QED
    BY ZenonT(60), <1>0, <2>1, TraceIs DEF outer
<1> HIDE DEF outer
<1>5. ASSUME NEW k \in 1 .. n + 2 PROVE both[k] = outer[k]
  <2>1. CASE k = 1
    <3>1. both[k] = i
      BY <1>0, <1>2, <1>3, <2>1
    <3>2. outer[k] = i
      BY <1>4, <2>1
    <3> QED
      BY <3>1, <3>2
  <2>2. CASE k = n + 2
    <3>1. both[k] = i
      BY <1>3, <2>2
    <3>2. ~(k <= e - i + 1) /\ k # e - i + 2 /\ 2 * e - i + 3 - k = i
      BY <2>2
    <3> QED
      BY <1>4, <3>1, <3>2
  <2>3. CASE k # 1 /\ k # n + 2
    <3>1. k \in 2 .. n + 1 /\ k \in 1 .. n + 1 /\ k - 1 \in 1 .. n
      BY <1>0, <2>3
    <3>2. both[k] = inner[k - 1]
      BY <1>2, <1>3, <3>1
    <3>3. inner[k - 1] = IF k - 1 <= e - i THEN i + (k - 1)
                         ELSE IF k - 1 = e - i + 1 THEN mid ELSE 2 * e - i + 2 - (k - 1)
      BY <1>1, <3>1
    <3>4. CASE k <= e - i + 1
      <4>1. k - 1 <= e - i /\ i + (k - 1) = i + k - 1
        BY <3>4
      <4> QED
        BY <1>4, <3>2, <3>3, <3>4, <4>1
    <3>5. CASE k = e - i + 2
      <4>1. ~(k - 1 <= e - i) /\ k - 1 = e - i + 1 /\ ~(k <= e - i + 1)
        BY <3>5
      <4> QED
        BY <1>4, <3>2, <3>3, <3>5, <4>1
    <3>6. CASE ~(k <= e - i + 1) /\ k # e - i + 2
      <4>1. ~(k - 1 <= e - i) /\ k - 1 # e - i + 1 /\ 2 * e - i + 2 - (k - 1) = 2 * e - i + 3 - k
        BY <3>6
      <4> QED
        BY <1>4, <3>2, <3>3, <3>6, <4>1
    <3> QED
      BY <3>4, <3>5, <3>6
  <2> QED
    BY <2>1, <2>2, <2>3
<1>6. both = outer
  BY <1>3, <1>4, <1>5, SeqEqual
<1> QED
  BY <1>6 DEF both, left, inner, outer

\* Through e layers that pass it on: what the innermost answers comes out, and its error
\* unless a layer on the way takes it.
Through(layers, f, i, e, mid) ==
  /\ f[i].trace = Trace(i, e, mid)
  /\ f[i].status = f[e + 1].status
  /\ f[i].err = (f[e + 1].err /\ \A j \in i .. e : layers[j] # "wraps")

LEMMA Unwinds ==
  ASSUME NEW layers, NEW f, NEW e \in Nat, NEW mid \in TraceEntries,
         \A i \in 1 .. e : ~Stops(layers[i]) /\ f[i] = Inside(layers, i, f[i + 1]),
         f[e + 1].trace = <<mid>>, f[e + 1].err \in BOOLEAN
  PROVE  Through(layers, f, 1, e, mid)
<1> DEFINE Unwound(i) == Through(layers, f, i, e, mid)
           T == {m \in Nat : Unwound(e + 1 - m)}
<1>1. 0 \in T
  <2>1. e + 1 - 0 = e + 1 /\ \A j \in e + 1 .. e : FALSE
    OBVIOUS
  <2>2. Trace(e + 1, e, mid) = <<mid>>
    <3>1. e + 1 \in 1 .. e + 1 /\ 2 * (e - (e + 1) + 1) + 1 = 1
      OBVIOUS
    <3>2. Trace(e + 1, e, mid) \in Seq(TraceEntries) /\ Len(Trace(e + 1, e, mid)) = 1
      BY ZenonT(60), <3>1, TraceIs
    <3>3. Trace(e + 1, e, mid)[1] = mid
      <4>1. 1 \in 1 .. 2 * (e - (e + 1) + 1) + 1 /\ ~(1 <= e - (e + 1) + 1) /\ 1 = e - (e + 1) + 2
        OBVIOUS
      <4> QED
        BY <4>1 DEF Trace
    <3>4. <<mid>> \in Seq(TraceEntries) /\ Len(<<mid>>) = 1 /\ <<mid>>[1] = mid
      OBVIOUS
    <3> QED
      BY <3>2, <3>3, <3>4, SeqEqual
  <2>3. Unwound(e + 1)
    BY <2>1, <2>2 DEF Through
  <2> QED
    BY <2>1, <2>3
<1>2. ASSUME NEW m \in 0 .. e - 1, m \in T PROVE m + 1 \in T
  <2> DEFINE i == e + 1 - (m + 1)
  <2>1. i \in 1 .. e /\ e + 1 - m = i + 1 /\ m + 1 \in Nat
    OBVIOUS
  <2>2. Unwound(i + 1)
    BY <1>2, <2>1
  <2>3. f[i] = Passed(layers, i, f[i + 1])
    BY <2>1 DEF Inside
  <2> HIDE DEF i
  <2>4. f[i].trace = <<i>> \o f[i + 1].trace \o <<i>>
    BY <2>3 DEF Passed
  <2>5. f[i].trace = Trace(i, e, mid)
    BY <2>1, <2>2, <2>4, TraceGrows DEF Through
  <2>6. f[i].status = f[e + 1].status
    BY <2>2, <2>3 DEF Passed, Through
  <2>7. f[i].err = (f[i + 1].err /\ layers[i] # "wraps")
    BY <2>3 DEF Passed
  <2>8. \A j : j \in i .. e <=> j = i \/ j \in i + 1 .. e
    BY <2>1
  <2>9. f[i].err = (f[e + 1].err /\ \A j \in i .. e : layers[j] # "wraps")
    BY <2>2, <2>7, <2>8 DEF Through
  <2>10. Unwound(i)
    BY <2>5, <2>6, <2>9 DEF Through
  <2> QED
    BY <2>1, <2>10 DEF i
<1>3. e \in T
  <2> HIDE DEF T
  <2>1. \A m \in 0 .. e : m \in T
    BY <1>1, <1>2, BoundedInduction
  <2> QED
    BY <2>1
<1>4. Unwound(e + 1 - e) /\ e + 1 - e = 1
  BY <1>3
<1> QED
  BY <1>4

\* A request goes through the layers as an onion's.
LEMMA Onion ==
  ASSUME NEW group \in Seq(QLayers), NEW extra \in Seq(QLayers)
  PROVE  OnionSound(group, extra)
<1> DEFINE layers == GroupLayers(group, extra)
           n == Len(layers)
           stop == {i \in DOMAIN layers : Stops(layers[i])}
           depth == IF stop = {} THEN n ELSE Min(stop)
           down == [i \in 1 .. depth |-> i]
           out == Run(layers)
<1>1. layers \in Seq(QLayers)
  BY ConcatProperties DEF GroupLayers
<1>2. n \in Nat /\ DOMAIN layers = 1 .. n
  BY <1>1, LenProperties
<1>3. stop # {} => depth \in stop /\ \A i \in stop : depth <= i
  <2>1. stop \in SUBSET Nat
    BY <1>2
  <2> HIDE DEF stop
  <2> QED
    BY <2>1, MinIs
<1>4. stop = {} => depth = n
  OBVIOUS
<1>5. OnionSound(group, extra) <=>
        /\ out.trace = IF stop = {} THEN down \o <<"handler">> \o Reverse(down)
                       ELSE down \o Tail(Reverse(down))
        /\ out.err = /\ stop # {} /\ layers[depth] = "error"
                     /\ \A i \in 1 .. depth : layers[i] # "wraps"
        /\ stop # {} /\ layers[depth] # "error" => out.status = layers[depth]
  BY DEF OnionSound
<1>6. \A i \in 1 .. n : Stops(layers[i]) <=> i \in stop
  BY <1>2
<1>7. PICK f : Nexts(layers, f) /\ Run(layers) = f[1]
  <2> HIDE DEF layers
  <2> QED
    BY <1>1, RunIs
<1>8. depth \in Nat /\ depth \in 0 .. n
  <2>1. stop \subseteq 1 .. n
    BY <1>2
  <2>2. n \in Nat
    BY <1>2
  <2> HIDE DEF stop, depth, n
  <2>3. stop # {} => depth \in 1 .. n
    BY <1>3, <2>1
  <2> QED
    BY <1>4, <2>2, <2>3
<1> HIDE DEF stop, depth, layers
<1>9. f[n + 1] = Handled /\ \A i \in 1 .. n : f[i] = Inside(layers, i, f[i + 1])
  BY <1>7 DEF Nexts
<1>10. /\ down \in Seq(TraceEntries) /\ Len(down) = depth /\ \A i \in 1 .. depth : down[i] = i
       /\ Reverse(down) \in Seq(TraceEntries) /\ Len(Reverse(down)) = depth
       /\ \A i \in 1 .. depth : Reverse(down)[i] = depth - i + 1
  <2>1. down \in [1 .. depth -> TraceEntries]
    BY <1>8 DEF TraceEntries
  <2>2. down \in Seq(TraceEntries) /\ Len(down) = depth
    BY <1>8, <2>1
  <2>3. \A i \in 1 .. depth : down[i] = i
    OBVIOUS
  <2> HIDE DEF down
  <2>4. Reverse(down) = [i \in 1 .. depth |-> down[(depth - i) + 1]]
    BY <2>2 DEF Reverse
  <2>5. \A i \in 1 .. depth : (depth - i) + 1 \in 1 .. depth /\ (depth - i) + 1 = depth - i + 1
    BY <1>8
  <2>6. \A i \in 1 .. depth : down[(depth - i) + 1] = depth - i + 1 /\ depth - i + 1 \in TraceEntries
    BY <1>8, <2>3, <2>5 DEF TraceEntries
  <2>7. Reverse(down) \in [1 .. depth -> TraceEntries]
    BY <2>4, <2>6
  <2>8. Reverse(down) \in Seq(TraceEntries) /\ Len(Reverse(down)) = depth
    BY <1>8, <2>7
  <2> QED
    BY <2>2, <2>3, <2>4, <2>6, <2>8
<1> HIDE DEF down
<1>11. CASE stop = {}
  <2>1. depth = n /\ \A i \in 1 .. n : ~Stops(layers[i])
    BY <1>4, <1>6, <1>11
  <2>2. f[n + 1].trace = <<"handler">> /\ f[n + 1].err = FALSE /\ "handler" \in TraceEntries
    BY <1>9 DEF Handled, TraceEntries
  <2>3. f[1].trace = Trace(1, n, "handler") /\ f[1].err = FALSE
    <3>1. \A i \in 1 .. n : ~Stops(layers[i]) /\ f[i] = Inside(layers, i, f[i + 1])
      BY <1>9, <2>1
    <3>2. n \in Nat /\ f[n + 1].err \in BOOLEAN
      BY <1>2, <2>2
    <3> HIDE DEF n
    <3>3. Through(layers, f, 1, n, "handler")
      BY <2>2, <3>1, <3>2, Unwinds
    <3> QED
      BY <2>2, <3>3 DEF Through
  <2>4. Trace(1, n, "handler") = down \o <<"handler">> \o Reverse(down)
    <3> DEFINE left == down \o <<"handler">>
               both == left \o Reverse(down)
    <3>1. <<"handler">> \in Seq(TraceEntries) /\ Len(<<"handler">>) = 1 /\ <<"handler">>[1] = "handler"
      BY DEF TraceEntries
    <3>2. /\ left \in Seq(TraceEntries) /\ Len(left) = n + 1
          /\ \A k \in 1 .. n + 1 : left[k] = IF k <= n THEN k ELSE "handler"
      <4>1. /\ left \in Seq(TraceEntries) /\ Len(left) = Len(down) + Len(<<"handler">>)
            /\ \A k \in 1 .. Len(down) + Len(<<"handler">>) :
                 left[k] = IF k <= Len(down) THEN down[k] ELSE <<"handler">>[k - Len(down)]
        BY <1>10, <3>1, ConcatProperties
      <4> HIDE DEF left
      <4>2. Len(left) = n + 1
        BY <1>10, <2>1, <3>1, <4>1
      <4>3. ASSUME NEW k \in 1 .. n + 1 PROVE left[k] = IF k <= n THEN k ELSE "handler"
        <5>1. left[k] = IF k <= n THEN down[k] ELSE <<"handler">>[k - n]
          BY <1>10, <2>1, <3>1, <4>1
        <5>2. k <= n => down[k] = k
          BY <1>2, <1>10, <2>1
        <5>3. ~(k <= n) => k - n = 1
          BY <1>2
        <5> QED
          BY <3>1, <5>1, <5>2, <5>3
      <4> QED
        BY <4>1, <4>2, <4>3
    <3> HIDE DEF left
    <3>3. /\ both \in Seq(TraceEntries) /\ Len(both) = 2 * n + 1
          /\ \A k \in 1 .. 2 * n + 1 : both[k] = IF k <= n + 1 THEN left[k] ELSE Reverse(down)[k - (n + 1)]
      <4>1. /\ both \in Seq(TraceEntries) /\ Len(both) = Len(left) + Len(Reverse(down))
            /\ \A k \in 1 .. Len(left) + Len(Reverse(down)) :
                 both[k] = IF k <= Len(left) THEN left[k] ELSE Reverse(down)[k - Len(left)]
        BY <1>10, <3>2, ConcatProperties
      <4>2. Len(left) = n + 1 /\ Len(Reverse(down)) = n /\ (n + 1) + n = 2 * n + 1
        BY <1>2, <1>10, <2>1, <3>2
      <4> HIDE DEF both
      <4> QED
        BY <4>1, <4>2
    <3> HIDE DEF both
    <3>4. /\ Trace(1, n, "handler") \in Seq(TraceEntries) /\ Len(Trace(1, n, "handler")) = 2 * n + 1
          /\ \A k \in 1 .. 2 * n + 1 :
               Trace(1, n, "handler")[k] = IF k <= n THEN k
                                           ELSE IF k = n + 1 THEN "handler" ELSE 2 * n + 2 - k
      <4>1. 1 \in 1 .. n + 1 /\ 2 * (n - 1 + 1) + 1 = 2 * n + 1
        BY <1>2
      <4>2. Trace(1, n, "handler") \in Seq(TraceEntries) /\ Len(Trace(1, n, "handler")) = 2 * n + 1
        BY <1>2, <2>2, <4>1, TraceIs
      <4>3. Trace(1, n, "handler") =
              [k \in 1 .. 2 * (n - 1 + 1) + 1 |->
                 IF k <= n - 1 + 1 THEN 1 + k - 1
                 ELSE IF k = n - 1 + 2 THEN "handler" ELSE 2 * n - 1 + 3 - k]
        BY DEF Trace
      <4>4. ASSUME NEW k \in 1 .. 2 * n + 1
            PROVE  Trace(1, n, "handler")[k] = IF k <= n THEN k
                                               ELSE IF k = n + 1 THEN "handler" ELSE 2 * n + 2 - k
        <5>1. /\ n - 1 + 1 = n /\ 1 + k - 1 = k /\ n - 1 + 2 = n + 1
              /\ 2 * n - 1 + 3 - k = 2 * n + 2 - k
          BY <1>2
        <5> QED
          BY <4>1, <4>3, <5>1
      <4> QED
        BY <4>2, <4>4
    <3>5. ASSUME NEW k \in 1 .. 2 * n + 1 PROVE both[k] = Trace(1, n, "handler")[k]
      <4>1. CASE k <= n + 1
        <5>1. k \in 1 .. n + 1 /\ (~(k <= n) => k = n + 1)
          BY <1>2, <4>1
        <5> QED
          BY <3>2, <3>3, <3>4, <4>1, <5>1
      <4>2. CASE ~(k <= n + 1)
        <5>1. /\ k - (n + 1) \in 1 .. n /\ n - (k - (n + 1)) + 1 = 2 * n + 2 - k
              /\ ~(k <= n) /\ k # n + 1
          BY <1>2, <4>2
        <5>2. Reverse(down)[k - (n + 1)] = n - (k - (n + 1)) + 1
          BY <1>10, <2>1, <5>1
        <5> QED
          BY <3>3, <3>4, <4>2, <5>1, <5>2
      <4> QED
        BY <4>1, <4>2
    <3>6. both = Trace(1, n, "handler")
      BY <3>3, <3>4, <3>5, SeqEqual
    <3> QED
      BY <3>6 DEF both, left
  <2>5. out.err = FALSE
    BY <1>7, <2>3
  <2> QED
    BY <1>5, <1>7, <1>11, <2>3, <2>4, <2>5
<1>12. CASE stop # {}
  <2> DEFINE e == depth - 1
             down2 == down \o Tail(Reverse(down))
  <2>1. depth \in 1 .. n /\ Stops(layers[depth]) /\ \A i \in 1 .. n : i < depth => ~Stops(layers[i])
    <3>1. depth \in stop /\ \A i \in stop : ~(i < depth)
      <4>1. depth \in stop /\ \A i \in stop : depth <= i
        BY <1>3, <1>12
      <4>2. stop \subseteq Nat
        BY <1>2 DEF stop
      <4> QED
        BY <1>8, <4>1, <4>2
    <3>2. depth \in 1 .. n
      BY <1>2, <3>1 DEF stop
    <3> QED
      BY <1>6, <3>1, <3>2
  <2>2. e \in Nat /\ e + 1 = depth /\ \A i \in 1 .. e : i \in 1 .. n /\ i < depth
    BY <1>2, <2>1
  <2>3. \A i \in 1 .. e : ~Stops(layers[i]) /\ f[i] = Inside(layers, i, f[i + 1])
    BY <1>9, <2>1, <2>2
  <2>4. f[depth] = Stopped(layers, depth)
    BY <1>9, <2>1 DEF Inside
  <2>5. /\ f[depth].trace = <<depth>> /\ f[depth].err = (layers[depth] = "error")
        /\ f[depth].status = IF layers[depth] = "error" THEN "200" ELSE layers[depth]
    BY <2>4 DEF Stopped
  <2>6. depth \in TraceEntries
    BY <1>8 DEF TraceEntries
  <2>7. /\ f[1].trace = Trace(1, e, depth) /\ f[1].status = f[depth].status
        /\ f[1].err = (layers[depth] = "error" /\ \A i \in 1 .. e : layers[i] # "wraps")
    <3>1. /\ f[e + 1].trace = <<depth>> /\ f[e + 1].err = (layers[depth] = "error")
          /\ f[e + 1].err \in BOOLEAN
      BY <2>2, <2>5
    <3> HIDE DEF e
    <3>2. Through(layers, f, 1, e, depth)
      BY <2>2, <2>3, <2>6, <3>1, Unwinds
    <3> QED
      BY <2>2, <3>1, <3>2 DEF Through
  <2>8. out.err = (stop # {} /\ layers[depth] = "error" /\ \A i \in 1 .. depth : layers[i] # "wraps")
    <3>1. \A i : i \in 1 .. depth <=> i \in 1 .. e \/ i = depth
      BY <2>1, <2>2
    <3>2. (layers[depth] = "error" /\ \A i \in 1 .. e : layers[i] # "wraps")
            <=> (stop # {} /\ layers[depth] = "error" /\ \A i \in 1 .. depth : layers[i] # "wraps")
      BY <1>12, <3>1
    <3> QED
      BY <1>7, <2>7, <3>2
  <2>9. layers[depth] # "error" => out.status = layers[depth]
    BY <1>7, <2>5, <2>7
  <2>10. Trace(1, e, depth) = down2
    <3>1. Reverse(down) # <<>> /\ Tail(Reverse(down)) \in Seq(TraceEntries) /\ Len(Tail(Reverse(down))) = e
          /\ \A k \in 1 .. e : Tail(Reverse(down))[k] = depth - k
      <4>1. Reverse(down) # <<>>
        BY <1>10, <2>1, EmptySeq
      <4>2. /\ Tail(Reverse(down)) \in Seq(TraceEntries) /\ Len(Tail(Reverse(down))) = Len(Reverse(down)) - 1
            /\ \A k \in 1 .. Len(Tail(Reverse(down))) : Tail(Reverse(down))[k] = Reverse(down)[k + 1]
        BY <1>10, <4>1, HeadTailProperties
      <4>3. Len(Tail(Reverse(down))) = e
        BY <1>10, <4>2
      <4>4. \A k \in 1 .. e : k + 1 \in 1 .. depth /\ depth - (k + 1) + 1 = depth - k
        BY <1>8, <2>2
      <4> QED
        BY <1>10, <4>1, <4>2, <4>3, <4>4
    <3>2. /\ down2 \in Seq(TraceEntries) /\ Len(down2) = 2 * e + 1
          /\ \A k \in 1 .. 2 * e + 1 : down2[k] = IF k <= depth THEN k ELSE Tail(Reverse(down))[k - depth]
      <4>1. /\ down2 \in Seq(TraceEntries) /\ Len(down2) = Len(down) + Len(Tail(Reverse(down)))
            /\ \A k \in 1 .. Len(down) + Len(Tail(Reverse(down))) :
                 down2[k] = IF k <= Len(down) THEN down[k] ELSE Tail(Reverse(down))[k - Len(down)]
        BY <1>10, <3>1, ConcatProperties
      <4>2. Len(down) = depth /\ Len(Tail(Reverse(down))) = e /\ depth + e = 2 * e + 1
        BY <1>8, <1>10, <2>2, <3>1
      <4> HIDE DEF down2, e
      <4>3. ASSUME NEW k \in 1 .. 2 * e + 1
            PROVE  down2[k] = IF k <= depth THEN k ELSE Tail(Reverse(down))[k - depth]
        <5>1. down2[k] = IF k <= depth THEN down[k] ELSE Tail(Reverse(down))[k - depth]
          BY <4>1, <4>2
        <5>2. k <= depth => down[k] = k
          BY <1>8, <1>10, <2>2
        <5> QED
          BY <5>1, <5>2
      <4> QED
        BY <4>1, <4>2, <4>3
    <3> HIDE DEF down2
    <3>3. /\ Trace(1, e, depth) \in Seq(TraceEntries) /\ Len(Trace(1, e, depth)) = 2 * e + 1
          /\ \A k \in 1 .. 2 * e + 1 :
               Trace(1, e, depth)[k] = IF k <= e THEN k ELSE IF k = e + 1 THEN depth ELSE 2 * e + 2 - k
      <4> HIDE DEF e
      <4>1. 1 \in 1 .. e + 1 /\ 2 * (e - 1 + 1) + 1 = 2 * e + 1
        BY <2>2
      <4>2. Trace(1, e, depth) \in Seq(TraceEntries) /\ Len(Trace(1, e, depth)) = 2 * e + 1
        BY <2>2, <2>6, <4>1, TraceIs
      <4>3. Trace(1, e, depth) =
              [k \in 1 .. 2 * (e - 1 + 1) + 1 |->
                 IF k <= e - 1 + 1 THEN 1 + k - 1
                 ELSE IF k = e - 1 + 2 THEN depth ELSE 2 * e - 1 + 3 - k]
        BY DEF Trace
      <4>4. ASSUME NEW k \in 1 .. 2 * e + 1
            PROVE  Trace(1, e, depth)[k] = IF k <= e THEN k
                                           ELSE IF k = e + 1 THEN depth ELSE 2 * e + 2 - k
        <5>1. /\ e - 1 + 1 = e /\ 1 + k - 1 = k /\ e - 1 + 2 = e + 1
              /\ 2 * e - 1 + 3 - k = 2 * e + 2 - k
          BY <2>2
        <5> QED
          BY <4>1, <4>3, <5>1
      <4> QED
        BY <4>2, <4>4
    <3>4. ASSUME NEW k \in 1 .. 2 * e + 1 PROVE down2[k] = Trace(1, e, depth)[k]
      <4>1. CASE k <= depth
        <5>1. k <= e \/ k = e + 1
          BY <1>8, <2>2, <4>1
        <5> QED
          BY <2>2, <3>2, <3>3, <4>1, <5>1
      <4>2. CASE ~(k <= depth)
        <5>1. k - depth \in 1 .. e /\ depth - (k - depth) = 2 * e + 2 - k /\ ~(k <= e) /\ k # e + 1
          BY <1>8, <2>2, <4>2
        <5>2. Tail(Reverse(down))[k - depth] = depth - (k - depth)
          BY <3>1, <5>1
        <5> QED
          BY <3>2, <3>3, <4>2, <5>1, <5>2
      <4> QED
        BY <4>1, <4>2
    <3>5. down2 = Trace(1, e, depth)
      <4> HIDE DEF e
      <4> QED
        BY <3>2, <3>3, <3>4, SeqEqual
    <3> QED
      BY <3>5
  <2> QED
    BY <1>5, <1>7, <1>12, <2>7, <2>8, <2>9, <2>10
<1> QED
  BY <1>11, <1>12

-----------------------------------------------------------------------------
\* Whatever the table of routes, the path, the layers and the form of a request: it runs a
\* handler whose pattern its path fits, through all of its layers, on data that broke no
\* rule, or is answered and runs none.
THEOREM RequestsAreServed == QSpec => []RequestsReachTheirHandlers
<1> DEFINE Asked == \/ Asks("none")
                    \/ /\ Asks("route") /\ qAsked.routes \in QTables /\ qAsked.path \in QPaths
                    \/ Asks("layers") /\ qAsked.stack \in QStacks
                    \/ Asks("form") /\ qAsked.form \in QForms
<1>1. QInit => Asked
  BY DEF QInit, Asks
<1>2. Asked /\ [QNext]_qAsked => Asked'
  <2> SUFFICES ASSUME Asked, [QNext]_qAsked PROVE Asked'
    OBVIOUS
  <2>1. CASE AskRoute
    BY <2>1 DEF AskRoute, Asks
  <2>2. CASE AskLayers
    BY <2>2 DEF AskLayers, Asks
  <2>3. CASE AskForm
    BY <2>3 DEF AskForm, Asks
  <2>4. CASE UNCHANGED qAsked
    BY <2>4 DEF Asks
  <2> QED
    BY <2>1, <2>2, <2>3, <2>4 DEF QNext
<1>3. Asked => RequestsReachTheirHandlers
  <2> SUFFICES ASSUME Asked PROVE RequestsReachTheirHandlers
    OBVIOUS
  <2>1. Asks("route") => DispatchSound(qAsked.routes, qAsked.method, qAsked.path, QSegs, QLongest)
    <3> SUFFICES ASSUME Asks("route") PROVE DispatchSound(qAsked.routes, qAsked.method, qAsked.path, QSegs, QLongest)
      OBVIOUS
    <3>1. qAsked.routes \in QTables /\ qAsked.path \in QPaths
      BY DEF Asks
    <3>2. qAsked.routes \in Seq([method : QMethods, pattern : Patterns, slash : BOOLEAN])
      BY <3>1, RequestsBasics
    <3>3. qAsked.path.segs \in Seq(QSegs) /\ Len(qAsked.path.segs) <= QLongest
      BY <3>1, RequestsBasics
    <3> QED
      BY <3>2, <3>3, Dispatches
  <2>2. Asks("layers") => OnionSound(qAsked.stack.group, qAsked.stack.extra)
    <3> SUFFICES ASSUME Asks("layers") PROVE OnionSound(qAsked.stack.group, qAsked.stack.extra)
      OBVIOUS
    <3>1. qAsked.stack \in QStacks
      BY DEF Asks
    <3>2. qAsked.stack.group \in Seq(QLayers) /\ qAsked.stack.extra \in Seq(QLayers)
      <4>1. qAsked.stack \in [group : Seq(QLayers), extra : Seq(QLayers)]
        BY <3>1, RequestsBasics
      <4> QED
        BY <4>1
    <3> QED
      BY <3>2, Onion
  <2>3. Asks("form") => ValidationSound(qAsked.form.decodes, qAsked.form.body, qAsked.form.set)
    <3> SUFFICES ASSUME Asks("form") PROVE ValidationSound(qAsked.form.decodes, qAsked.form.body, qAsked.form.set)
      OBVIOUS
    <3>1. qAsked.form \in QForms
      BY DEF Asks
    <3>2. qAsked.form.decodes \in BOOLEAN /\ \A f \in DOMAIN qAsked.form.set : qAsked.form.set[f] \in Seq(QRules)
      BY <3>1, RequestsBasics
    <3> QED
      BY <3>2, Validates
  <2> QED
    BY <2>1, <2>2, <2>3 DEF RequestsReachTheirHandlers
<1> QED
  BY <1>1, <1>2, <1>3, PTL DEF QSpec

-----------------------------------------------------------------------------
(* The statements of the query builder *)

\* The flattened sequence is what the sequences make when each is put behind those before it.
LEMMA FlattenIs ==
  ASSUME NEW E, NEW s \in Seq(Seq(E)), NEW g,
         g[0] = <<>>, \A i \in 1 .. Len(s) : g[i] \in Seq(E) /\ g[i] = g[i - 1] \o s[i]
  PROVE  FlattenSeq(s) = g[Len(s)]
<1>0. Len(s) \in Nat /\ \A i \in 1 .. Len(s) : s[i] \in Seq(E)
  BY LenProperties, ElementOfSeq
<1>1. CASE Len(s) = 0
  <2>1. s = <<>>
    BY <1>1, EmptySeq
  <2> QED
    BY <1>1, <2>1 DEF FlattenSeq
<1>2. CASE Len(s) # 0
  <2> DEFINE Follows(f) == f = [i \in 1 .. Len(s) |-> IF i = 1 THEN s[i] ELSE f[i - 1] \o s[i]]
             flat == CHOOSE f : Follows(f)
             h == [i \in 1 .. Len(s) |-> g[i]]
  <2>1. g[1] = s[1]
    <3>1. 1 \in 1 .. Len(s) /\ 1 - 1 = 0
      BY <1>0, <1>2
    <3>2. g[1] = <<>> \o s[1]
      BY <3>1
    <3> QED
      BY <1>0, <3>1, <3>2, ConcatEmptySeq
  <2>2. Follows(h)
    <3>1. ASSUME NEW i \in 1 .. Len(s) PROVE h[i] = IF i = 1 THEN s[i] ELSE h[i - 1] \o s[i]
      <4>1. CASE i = 1
        BY <2>1, <4>1
      <4>2. CASE i # 1
        <5>1. i - 1 \in 1 .. Len(s)
          BY <1>0, <4>2
        <5> QED
          BY <4>2, <5>1
      <4> QED
        BY <4>1, <4>2
    <3>2. h = [i \in 1 .. Len(s) |-> h[i]]
      OBVIOUS
    <3> HIDE DEF h
    <3> QED
      BY <3>1, <3>2, Zenon
  <2>3. Follows(flat)
    <3> HIDE DEF Follows, h
    <3> QED
      BY <2>2
  <2>4. FlattenSeq(s) = flat[Len(s)]
    BY <1>0, <1>2 DEF FlattenSeq
  <2>5. \A i \in 1 .. Len(s) : flat[i] = IF i = 1 THEN s[i] ELSE flat[i - 1] \o s[i]
    <3> HIDE DEF flat
    <3> QED
      BY <2>3
  <2> HIDE DEF flat, Follows, h
  <2> DEFINE T == {k \in Nat : k >= 1 => flat[k] = g[k]}
  <2>6. 0 \in T
    OBVIOUS
  <2>7. ASSUME NEW k \in 0 .. Len(s) - 1, k \in T PROVE k + 1 \in T
    <3>1. k + 1 \in Nat /\ k + 1 \in 1 .. Len(s) /\ (k + 1) - 1 = k
      BY <1>0
    <3>2. CASE k = 0
      BY <2>1, <2>5, <3>1, <3>2
    <3>3. CASE k # 0
      <4>1. k >= 1 /\ k + 1 # 1
        BY <3>3
      <4>2. flat[k + 1] = flat[k] \o s[k + 1]
        BY <2>5, <3>1, <4>1
      <4>3. g[k + 1] = g[k] \o s[k + 1]
        BY <3>1
      <4>4. flat[k] = g[k]
        BY <2>7, <4>1
      <4> QED
        BY <3>1, <4>2, <4>3, <4>4
    <3> QED
      BY <3>2, <3>3
  <2>8. Len(s) \in T
    <3> HIDE DEF T
    <3>1. \A k \in 0 .. Len(s) : k \in T
      BY <1>0, <2>6, <2>7, BoundedInduction
    <3> QED
      BY <1>0, <3>1
  <2> QED
    BY <1>0, <1>2, <2>4, <2>8
<1> QED
  BY <1>1, <1>2

\* The calls of a chain, on the columns C, with the operators O and the values V: each takes
\* as many values as its name says.
Called(C, O, V) ==
  {c \in [name : {"Where", "OrWhere", "WhereNull", "WhereNotNull", "WhereBetween", "WhereLike",
                  "WhereIn"},
          col : C, op : O, vals : Seq(V)] :
     /\ c.name \in {"Where", "OrWhere", "WhereLike"} => Len(c.vals) = 1
     /\ c.name \in {"WhereNull", "WhereNotNull"} => Len(c.vals) = 0
     /\ c.name = "WhereBetween" => Len(c.vals) = 2}

\* The operator that is written for a call.
Written(call) == IF call.name = "WhereIn" /\ call.vals = <<>> THEN "1 = 0" ELSE OpOf(call)

\* Every call is a filter on its own values.
LEMMA EveryCallFilters ==
  ASSUME NEW C, NEW O, NEW V, NEW call \in Called(C, O, V), NEW qb
  PROVE  Apply(qb, call) =
           Filter(qb, call.name = "OrWhere" /\ qb.where # <<>>, call.col, Written(call), call.vals)
<1>0. call.vals \in Seq(V) /\ Len(call.vals) \in Nat
  BY LenProperties DEF Called
<1>1. ASSUME Len(call.vals) = 1 PROVE <<call.vals[1]>> = call.vals
  BY <1>0, <1>1
<1>2. ASSUME Len(call.vals) = 2 PROVE <<call.vals[1], call.vals[2]>> = call.vals
  BY <1>0, <1>2
<1>3. ASSUME Len(call.vals) = 0 PROVE <<>> = call.vals
  BY <1>0, <1>3
<1> HIDE DEF Filter
<1>4. CASE call.name = "Where"
  <2>1. Len(call.vals) = 1
    BY <1>4 DEF Called
  <2> QED
    BY <1>1, <1>4, <2>1 DEF Apply, Where, Written, OpOf
<1>5. CASE call.name = "OrWhere"
  <2>1. Len(call.vals) = 1
    BY <1>5 DEF Called
  <2>2. Apply(qb, call) = Filter(qb, qb.where # <<>>, call.col, call.op, call.vals)
    BY <1>1, <1>5, <2>1 DEF Apply, OrWhere
  <2>3. (call.name = "OrWhere" /\ qb.where # <<>>) = (qb.where # <<>>)
    BY <1>5
  <2>4. Written(call) = call.op
    BY <1>5 DEF Written, OpOf
  <2> QED
    BY <2>2, <2>3, <2>4
<1>6. CASE call.name = "WhereNull"
  <2>1. Len(call.vals) = 0
    BY <1>6 DEF Called
  <2> QED
    BY <1>3, <1>6, <2>1 DEF Apply, WhereNull, Written, OpOf
<1>7. CASE call.name = "WhereNotNull"
  <2>1. Len(call.vals) = 0
    BY <1>7 DEF Called
  <2> QED
    BY <1>3, <1>7, <2>1 DEF Apply, WhereNotNull, Written, OpOf
<1>8. CASE call.name = "WhereBetween"
  <2>1. Len(call.vals) = 2
    BY <1>8 DEF Called
  <2> QED
    BY <1>2, <1>8, <2>1 DEF Apply, WhereBetween, Written, OpOf
<1>9. CASE call.name = "WhereLike"
  <2>1. Len(call.vals) = 1
    BY <1>9 DEF Called
  <2> QED
    BY <1>1, <1>9, <2>1 DEF Apply, WhereLike, Written, OpOf
<1>10. CASE call.name = "WhereIn"
  BY <1>10 DEF Apply, WhereIn, Written, OpOf
<1> QED
  BY <1>4, <1>5, <1>6, <1>7, <1>8, <1>9, <1>10 DEF Called

\* g puts the values of the calls one behind the other.
Bound(calls, V, g) ==
  /\ g \in [0 .. Len(calls) -> Seq(V)] /\ g[0] = <<>>
  /\ \A i \in 1 .. Len(calls) : g[i] = g[i - 1] \o calls[i].vals

LEMMA SomeBound ==
  ASSUME NEW C, NEW O, NEW V, NEW calls \in Seq(Called(C, O, V))
  PROVE  \E g : Bound(calls, V, g)
<1> DEFINE step == [p \in (1 .. Len(calls)) \X Seq(V) |-> p[2] \o calls[p[1]].vals]
<1>1. Len(calls) \in Nat /\ \A i \in 1 .. Len(calls) : calls[i].vals \in Seq(V)
  BY LenProperties, ElementOfSeq DEF Called
<1>2. step \in [(1 .. Len(calls)) \X Seq(V) -> Seq(V)]
  <2>1. ASSUME NEW p \in (1 .. Len(calls)) \X Seq(V) PROVE p[2] \o calls[p[1]].vals \in Seq(V)
    <3>1. p[1] \in 1 .. Len(calls) /\ p[2] \in Seq(V)
      OBVIOUS
    <3> QED
      BY <1>1, <3>1, ConcatProperties
  <2> QED
    BY <2>1
<1>3. <<>> \in Seq(V)
  OBVIOUS
<1> HIDE DEF step
<1>4. RecursesUp(Len(calls), Seq(V), <<>>, step)
  BY <1>1, <1>2, <1>3, RecursionUp
<1>5. PICK g \in [0 .. Len(calls) -> Seq(V)] :
        g[0] = <<>> /\ \A i \in 1 .. Len(calls) : g[i] = step[<<i, g[i - 1]>>]
  BY <1>4 DEF RecursesUp
<1>6. ASSUME NEW i \in 1 .. Len(calls) PROVE g[i] = g[i - 1] \o calls[i].vals
  <2>1. i - 1 \in 0 .. Len(calls)
    BY <1>1
  <2>2. <<i, g[i - 1]>> \in (1 .. Len(calls)) \X Seq(V)
    BY <1>5, <2>1
  <2> QED
    BY <1>5, <2>2 DEF step
<1> QED
  BY <1>5, <1>6 DEF Bound

\* What a chain has built after n calls.
Clause(driver, calls, g, i) ==
  [or |-> calls[i].name = "OrWhere" /\ i > 1, col |-> calls[i].col, op |-> Written(calls[i]),
   marks |-> [k \in DOMAIN calls[i].vals |-> Placeholder(driver, Len(g[i - 1]) + k)]]
Clauses(driver, calls, g, n) == [i \in 1 .. n |-> Clause(driver, calls, g, i)]
Built(driver, calls, g, n) ==
  [driver |-> driver, where |-> Clauses(driver, calls, g, n), bindings |-> g[n],
   orderBy |-> "none", limit |-> 0, offset |-> 0]

\* One more call.
LEMMA BuiltNext ==
  ASSUME NEW C, NEW O, NEW V, NEW calls \in Seq(Called(C, O, V)), NEW driver, NEW g,
         Bound(calls, V, g), NEW n \in 1 .. Len(calls)
  PROVE  Built(driver, calls, g, n) = Apply(Built(driver, calls, g, n - 1), calls[n])
<1> DEFINE qb == Built(driver, calls, g, n - 1)
           clause == Clause(driver, calls, g, n)
           call == calls[n]
<1>0. /\ Len(calls) \in Nat /\ n \in Nat /\ n - 1 \in Nat /\ n - 1 \in 0 .. Len(calls)
      /\ call \in Called(C, O, V)
  BY LenProperties, ElementOfSeq
<1>1. /\ qb.driver = driver /\ qb.where = Clauses(driver, calls, g, n - 1) /\ qb.bindings = g[n - 1]
      /\ qb.orderBy = "none" /\ qb.limit = 0 /\ qb.offset = 0
      /\ DOMAIN qb = {"driver", "where", "bindings", "orderBy", "limit", "offset"}
  BY DEF Built
<1>2. (qb.where # <<>>) = (n > 1)
  <2>1. DOMAIN Clauses(driver, calls, g, n - 1) = 1 .. n - 1
    BY DEF Clauses
  <2>2. CASE n > 1
    <3>1. 1 \in 1 .. n - 1
      BY <1>0, <2>2
    <3> QED
      BY <1>1, <2>1, <2>2, <3>1
  <2>3. CASE ~(n > 1)
    <3>1. 1 .. n - 1 = {} /\ n = 1
      BY <1>0, <2>3
    <3>2. Clauses(driver, calls, g, n - 1) = <<>>
      BY <3>1 DEF Clauses
    <3> QED
      BY <1>1, <2>3, <3>2
  <2> QED
    BY <2>2, <2>3
<1>3. Append(Clauses(driver, calls, g, n - 1), clause) = Clauses(driver, calls, g, n)
  <2> DEFINE E == {Clause(driver, calls, g, i) : i \in 1 .. n}
  <2>1. /\ Clauses(driver, calls, g, n - 1) \in Seq(E) /\ Len(Clauses(driver, calls, g, n - 1)) = n - 1
        /\ clause \in E
    <3>1. Clauses(driver, calls, g, n - 1) \in [1 .. n - 1 -> E]
      BY <1>0 DEF Clauses
    <3> QED
      BY <1>0, <3>1
  <2>2. Clauses(driver, calls, g, n) \in Seq(E) /\ Len(Clauses(driver, calls, g, n)) = n
    <3>1. Clauses(driver, calls, g, n) \in [1 .. n -> E]
      BY <1>0 DEF Clauses
    <3> HIDE DEF E
    <3> QED
      BY <1>0, <3>1
  <2>3. \A i \in 1 .. n : Clauses(driver, calls, g, n)[i] = Clause(driver, calls, g, i)
    BY DEF Clauses
  <2>4. \A i \in 1 .. n - 1 : Clauses(driver, calls, g, n - 1)[i] = Clause(driver, calls, g, i)
    BY DEF Clauses
  <2> DEFINE a == Clauses(driver, calls, g, n - 1)
             b == Clauses(driver, calls, g, n)
  <2> HIDE DEF E, a, b, clause
  <2>5. /\ Append(a, clause) \in Seq(E) /\ Len(Append(a, clause)) = n /\ Append(a, clause)[n] = clause
        /\ \A i \in 1 .. n - 1 : Append(a, clause)[i] = a[i]
    <3>1. a \in Seq(E) /\ Len(a) = n - 1 /\ clause \in E
      BY <2>1 DEF a
    <3> QED
      BY <1>0, <3>1, AppendProperties
  <2>6. ASSUME NEW i \in 1 .. n PROVE Append(a, clause)[i] = b[i]
    <3>1. CASE i = n
      BY <2>3, <2>5, <3>1 DEF b, clause
    <3>2. CASE i # n
      <4>1. i \in 1 .. n - 1
        BY <1>0, <3>2
      <4> QED
        BY <2>3, <2>4, <2>5, <4>1 DEF a, b
    <3> QED
      BY <3>1, <3>2
  <2>7. Append(a, clause) = b
    BY <2>2, <2>5, <2>6, SeqEqual DEF b
  <2> QED
    BY <2>7 DEF a, b
<1>4. g[n] = g[n - 1] \o call.vals
  BY DEF Bound
<1>5. clause = [or |-> call.name = "OrWhere" /\ qb.where # <<>>, col |-> call.col, op |-> Written(call),
                marks |-> [k \in DOMAIN call.vals |-> Placeholder(qb.driver, Len(qb.bindings) + k)]]
  BY <1>1, <1>2 DEF Clause
<1>6. Apply(qb, call) = Filter(qb, call.name = "OrWhere" /\ qb.where # <<>>, call.col, Written(call), call.vals)
  BY <1>0, EveryCallFilters
<1>7. Apply(qb, call) = [qb EXCEPT !.where = Append(@, clause), !.bindings = @ \o call.vals]
  <2> HIDE DEF qb, call, clause
  <2> QED
    BY <1>5, <1>6 DEF Filter
<1>8. Apply(qb, call) = [qb EXCEPT !.where = Clauses(driver, calls, g, n), !.bindings = g[n]]
  <2> HIDE DEF qb, call, clause
  <2> QED
    BY <1>1, <1>3, <1>4, <1>7
<1>9. [qb EXCEPT !.where = Clauses(driver, calls, g, n), !.bindings = g[n]] = Built(driver, calls, g, n)
  <2> DEFINE b == Clauses(driver, calls, g, n)
             new == [qb EXCEPT !.where = b]
  <2>1. new = [driver |-> driver, where |-> b, bindings |-> g[n - 1], orderBy |-> "none",
               limit |-> 0, offset |-> 0]
    <3> HIDE DEF b
    <3> QED
      BY DEF Built
  <2>2. [qb EXCEPT !.where = b, !.bindings = g[n]] = [new EXCEPT !.bindings = g[n]]
    <3> HIDE DEF qb, b
    <3> QED
      OBVIOUS
  <2>3. [new EXCEPT !.bindings = g[n]] = Built(driver, calls, g, n)
    <3> HIDE DEF new
    <3> QED
      BY <2>1 DEF Built
  <2> QED
    BY <2>2, <2>3
<1> QED
  BY <1>8, <1>9

LEMMA ChainIs ==
  ASSUME NEW C, NEW O, NEW V, NEW calls \in Seq(Called(C, O, V)), NEW driver, NEW g,
         Bound(calls, V, g)
  PROVE  Chain(driver, calls) = Built(driver, calls, g, Len(calls))
<1> DEFINE Follows(f) ==
             f = [n \in 0 .. Len(calls) |-> IF n = 0 THEN New(driver) ELSE Apply(f[n - 1], calls[n])]
           built == CHOOSE f : Follows(f)
           h == [n \in 0 .. Len(calls) |-> Built(driver, calls, g, n)]
<1>0. Len(calls) \in Nat
  BY LenProperties
<1>1. Built(driver, calls, g, 0) = New(driver)
  <2>1. Clauses(driver, calls, g, 0) = <<>>
    BY DEF Clauses
  <2>2. g[0] = <<>>
    BY DEF Bound
  <2> QED
    BY <2>1, <2>2 DEF Built, New
<1>2. Follows(h)
  <2>1. ASSUME NEW n \in 0 .. Len(calls)
        PROVE  h[n] = IF n = 0 THEN New(driver) ELSE Apply(h[n - 1], calls[n])
    <3>1. CASE n = 0
      BY <1>1, <3>1
    <3>2. CASE n # 0
      <4>1. n \in 1 .. Len(calls) /\ n - 1 \in 0 .. Len(calls)
        BY <1>0, <3>2
      <4>2. h[n] = Built(driver, calls, g, n) /\ h[n - 1] = Built(driver, calls, g, n - 1)
        BY <4>1
      <4> HIDE DEF h
      <4> QED
        BY <3>2, <4>1, <4>2, BuiltNext
    <3> QED
      BY <3>1, <3>2
  <2>2. h = [n \in 0 .. Len(calls) |-> h[n]]
    OBVIOUS
  <2> HIDE DEF h
  <2> QED
    BY <2>1, <2>2, Zenon
<1>3. Follows(built)
  <2> HIDE DEF Follows, h
  <2> QED
    BY <1>2
<1>4. Chain(driver, calls) = built[Len(calls)]
  BY DEF Chain
<1>5. \A n \in 0 .. Len(calls) : built[n] = IF n = 0 THEN New(driver) ELSE Apply(built[n - 1], calls[n])
  <2> HIDE DEF built
  <2> QED
    BY <1>3
<1> HIDE DEF built, Follows, h
<1> DEFINE T == {n \in Nat : built[n] = Built(driver, calls, g, n)}
<1>6. 0 \in T
  <2>1. 0 \in 0 .. Len(calls)
    BY <1>0
  <2> QED
    BY <1>1, <1>5, <2>1
<1>7. ASSUME NEW n \in 0 .. Len(calls) - 1, n \in T PROVE n + 1 \in T
  <2>1. n + 1 \in Nat /\ n + 1 \in 1 .. Len(calls) /\ n + 1 \in 0 .. Len(calls) /\ n + 1 # 0 /\ (n + 1) - 1 = n
    BY <1>0
  <2>2. built[n + 1] = Apply(built[n], calls[n + 1])
    BY <1>5, <2>1
  <2>3. built[n] = Built(driver, calls, g, n)
    BY <1>7
  <2>4. Built(driver, calls, g, n + 1) = Apply(Built(driver, calls, g, n), calls[n + 1])
    <3>1. \A k \in 1 .. Len(calls) :
            Built(driver, calls, g, k) = Apply(Built(driver, calls, g, k - 1), calls[k])
      BY BuiltNext
    <3> QED
      BY <2>1, <3>1
  <2> QED
    BY <2>1, <2>2, <2>3, <2>4
<1>8. Len(calls) \in T
  <2> HIDE DEF T
  <2>1. \A n \in 0 .. Len(calls) : n \in T
    BY <1>0, <1>6, <1>7, BoundedInduction
  <2> QED
    BY <1>0, <2>1
<1> QED
  BY <1>4, <1>8

\* What was bound stays where it is.
BoundLater(g, i, j) ==
  Len(g[i]) <= Len(g[j]) /\ \A q \in 1 .. Len(g[i]) : g[j][q] = g[i][q]

\* What a call adds, and what it takes.
Takes(calls, V, i) ==
  /\ calls[i].vals \in Seq(V) /\ Len(calls[i].vals) \in Nat
  /\ DOMAIN calls[i].vals = 1 .. Len(calls[i].vals)
Puts(calls, g, i) ==
  /\ i - 1 \in 0 .. Len(calls) /\ Len(g[i - 1]) \in Nat /\ Len(calls[i].vals) \in Nat
  /\ Len(g[i]) = Len(g[i - 1]) + Len(calls[i].vals)
  /\ \A q \in 1 .. Len(g[i - 1]) : g[i][q] = g[i - 1][q]
  /\ \A k \in 1 .. Len(calls[i].vals) : g[i][Len(g[i - 1]) + k] = calls[i].vals[k]

LEMMA BoundBasics ==
  ASSUME NEW C, NEW O, NEW V, NEW calls \in Seq(Called(C, O, V)), NEW g, Bound(calls, V, g)
  PROVE  /\ Len(calls) \in Nat
         /\ \A i \in 0 .. Len(calls) : g[i] \in Seq(V) /\ Len(g[i]) \in Nat
         /\ \A i \in 1 .. Len(calls) : Takes(calls, V, i) /\ Puts(calls, g, i)
<1>1. Len(calls) \in Nat
  BY LenProperties
<1>2. ASSUME NEW i \in 0 .. Len(calls) PROVE g[i] \in Seq(V) /\ Len(g[i]) \in Nat
  <2>1. g[i] \in Seq(V)
    BY DEF Bound
  <2> QED
    BY <2>1, LenProperties
<1>3. ASSUME NEW i \in 1 .. Len(calls)
      PROVE  Takes(calls, V, i) /\ Puts(calls, g, i)
  <2> DEFINE a == g[i - 1]
             b == calls[i].vals
  <2>1. calls[i] \in Called(C, O, V) /\ i - 1 \in 0 .. Len(calls)
    BY <1>1, ElementOfSeq
  <2>2. b \in Seq(V) /\ Len(b) \in Nat /\ DOMAIN b = 1 .. Len(b)
    <3>1. b \in Seq(V)
      BY <2>1 DEF Called
    <3> QED
      BY <3>1, LenProperties
  <2>3. a \in Seq(V) /\ Len(a) \in Nat
    BY <1>2, <2>1
  <2>4. g[i] = a \o b
    BY DEF Bound
  <2> HIDE DEF a, b
  <2>5. /\ Len(g[i]) = Len(a) + Len(b)
        /\ \A q \in 1 .. Len(a) + Len(b) : g[i][q] = IF q <= Len(a) THEN a[q] ELSE b[q - Len(a)]
    BY <2>2, <2>3, <2>4, ConcatProperties
  <2>6. ASSUME NEW q \in 1 .. Len(a) PROVE g[i][q] = a[q]
    <3>0. Len(a) \in Nat /\ Len(b) \in Nat
      BY <2>2, <2>3
    <3>1. q \in 1 .. Len(a) + Len(b) /\ q <= Len(a)
      BY <3>0
    <3> QED
      BY <2>5, <3>1
  <2>7. ASSUME NEW k \in 1 .. Len(b) PROVE g[i][Len(a) + k] = b[k]
    <3>0. Len(a) \in Nat /\ Len(b) \in Nat
      BY <2>2, <2>3
    <3>1. Len(a) + k \in 1 .. Len(a) + Len(b) /\ ~(Len(a) + k <= Len(a)) /\ (Len(a) + k) - Len(a) = k
      BY <3>0
    <3> QED
      BY <2>5, <3>1
  <2> QED
    BY <2>1, <2>2, <2>3, <2>5, <2>6, <2>7 DEF a, b, Takes, Puts
<1> QED
  BY <1>1, <1>2, <1>3

LEMMA BoundStays ==
  ASSUME NEW C, NEW O, NEW V, NEW calls \in Seq(Called(C, O, V)), NEW g, Bound(calls, V, g),
         NEW i \in 0 .. Len(calls)
  PROVE  \A j \in i .. Len(calls) : BoundLater(g, i, j)
<1> DEFINE T == {j \in Nat : j >= i => BoundLater(g, i, j)}
<1>0. /\ Len(calls) \in Nat /\ i \in Nat
      /\ \A n \in 0 .. Len(calls) : Len(g[n]) \in Nat
  BY BoundBasics
<1>1. BoundLater(g, i, i)
  BY <1>0 DEF BoundLater
<1>2. 0 \in T
  BY <1>0, <1>1
<1>3. ASSUME NEW j \in 0 .. Len(calls) - 1, j \in T PROVE j + 1 \in T
  <2>1. j \in Nat /\ j + 1 \in Nat /\ j + 1 \in 1 .. Len(calls) /\ (j + 1) - 1 = j /\ j \in 0 .. Len(calls)
        /\ j + 1 \in 0 .. Len(calls)
    BY <1>0
  <2>2. CASE j + 1 = i
    BY <1>1, <2>1, <2>2
  <2>3. CASE j + 1 > i
    <3>1. BoundLater(g, i, j)
      BY <1>0, <1>3, <2>1, <2>3
    <3>2. /\ Len(g[j + 1]) = Len(g[j]) + Len(calls[j + 1].vals) /\ Len(calls[j + 1].vals) \in Nat
          /\ \A q \in 1 .. Len(g[j]) : g[j + 1][q] = g[j][q]
      <4>1. \A n \in 1 .. Len(calls) : Puts(calls, g, n)
        BY BoundBasics
      <4>2. Puts(calls, g, j + 1)
        BY <2>1, <4>1
      <4> QED
        BY <2>1, <4>2 DEF Puts
    <3>3. Len(g[i]) \in Nat /\ Len(g[j]) \in Nat
      BY <1>0, <2>1
    <3>4. Len(g[i]) <= Len(g[j + 1])
      <4>1. Len(g[i]) <= Len(g[j])
        BY <3>1 DEF BoundLater
      <4> DEFINE a == Len(g[i])
                 b == Len(g[j])
                 c == Len(g[j + 1])
                 w == Len(calls[j + 1].vals)
      <4>2. a \in Nat /\ b \in Nat /\ w \in Nat /\ c = b + w /\ a <= b
        BY <3>2, <3>3, <4>1
      <4> HIDE DEF a, b, c, w
      <4>3. a <= c
        BY <4>2
      <4> QED
        BY <4>3 DEF a, c
    <3>5. ASSUME NEW q \in 1 .. Len(g[i]) PROVE g[j + 1][q] = g[i][q]
      <4>1. q \in 1 .. Len(g[j])
        BY <3>1, <3>3 DEF BoundLater
      <4> QED
        BY <3>1, <3>2, <4>1 DEF BoundLater
    <3> QED
      BY <2>1, <3>4, <3>5 DEF BoundLater
  <2>4. CASE j + 1 < i
    BY <1>0, <2>1, <2>4
  <2> QED
    BY <1>0, <2>1, <2>2, <2>3, <2>4
<1> HIDE DEF T
<1>4. \A j \in 0 .. Len(calls) : j \in T
  BY <1>0, <1>2, <1>3, BoundedInduction
<1>5. ASSUME NEW j \in i .. Len(calls) PROVE BoundLater(g, i, j)
  <2>1. j \in 0 .. Len(calls) /\ j >= i
    BY <1>0
  <2> QED
    BY <1>4, <2>1 DEF T
<1> QED
  BY <1>5

\* A value is bound where its call put it.
LEMMA BoundThere ==
  ASSUME NEW C, NEW O, NEW V, NEW calls \in Seq(Called(C, O, V)), NEW g, Bound(calls, V, g),
         NEW i \in 1 .. Len(calls), NEW k \in 1 .. Len(calls[i].vals)
  PROVE  /\ Len(g[i - 1]) + k \in 1 .. Len(g[Len(calls)])
         /\ g[Len(calls)][Len(g[i - 1]) + k] = calls[i].vals[k]
<1>1. /\ Len(calls) \in Nat /\ Len(g[Len(calls)]) \in Nat
      /\ Len(g[i - 1]) \in Nat /\ Len(g[i]) = Len(g[i - 1]) + Len(calls[i].vals)
      /\ Len(calls[i].vals) \in Nat
      /\ g[i][Len(g[i - 1]) + k] = calls[i].vals[k]
  <2>1. Len(calls) \in Nat /\ \A n \in 0 .. Len(calls) : Len(g[n]) \in Nat
    BY BoundBasics
  <2>2. Len(calls) \in 0 .. Len(calls) /\ i - 1 \in 0 .. Len(calls)
    BY <2>1
  <2>3. Puts(calls, g, i)
    BY BoundBasics
  <2> QED
    BY <2>1, <2>2, <2>3 DEF Puts
<1>2. BoundLater(g, i, Len(calls))
  <2>1. i \in 0 .. Len(calls) /\ Len(calls) \in i .. Len(calls)
    BY <1>1
  <2> QED
    BY <2>1, BoundStays
<1> DEFINE m == Len(g[i - 1])
           w == Len(calls[i].vals)
<1>3. m + k \in 1 .. Len(g[i])
  <2>1. m \in Nat /\ w \in Nat /\ k \in 1 .. w /\ Len(g[i]) = m + w
    BY <1>1
  <2> HIDE DEF m, w
  <2> QED
    BY <2>1
<1>4. m + k \in 1 .. Len(g[Len(calls)])
  <2>1. Len(g[i]) <= Len(g[Len(calls)]) /\ Len(g[Len(calls)]) \in Nat /\ Len(g[i]) \in Nat
    <3>1. i \in 0 .. Len(calls)
      BY <1>1
    <3>2. \A n \in 0 .. Len(calls) : Len(g[n]) \in Nat
      BY BoundBasics
    <3> QED
      BY <1>1, <1>2, <3>1, <3>2 DEF BoundLater
  <2> HIDE DEF m
  <2> QED
    BY <1>3, <2>1
<1>5. g[Len(calls)][m + k] = g[i][m + k]
  <2> HIDE DEF m
  <2> QED
    BY <1>2, <1>3 DEF BoundLater
<1> QED
  BY <1>1, <1>4, <1>5

\* The placeholders of a statement, one after another.
InOrder(driver, n) == [k \in 1 .. n |-> Placeholder(driver, k)]

LEMMA MarksAre ==
  ASSUME NEW C, NEW O, NEW V, NEW calls \in Seq(Called(C, O, V)), NEW driver, NEW g,
         Bound(calls, V, g), NEW n \in 0 .. Len(calls)
  PROVE  Marks(Clauses(driver, calls, g, n)) = InOrder(driver, Len(g[n]))
<1> DEFINE s == [i \in 1 .. n |-> Clause(driver, calls, g, i).marks]
           h == [i \in 0 .. n |-> InOrder(driver, Len(g[i]))]
<1>0. n \in Nat /\ Len(calls) \in Nat /\ \A i \in 0 .. Len(calls) : Len(g[i]) \in Nat
  BY BoundBasics
<1>1. ASSUME NEW i \in 1 .. n
      PROVE  /\ s[i] \in Seq(Nat) /\ Len(s[i]) = Len(calls[i].vals)
             /\ \A k \in 1 .. Len(calls[i].vals) : s[i][k] = Placeholder(driver, Len(g[i - 1]) + k)
  <2>1. i \in 1 .. Len(calls) /\ i - 1 \in 0 .. Len(calls)
    BY <1>0
  <2>2. Len(calls[i].vals) \in Nat /\ DOMAIN calls[i].vals = 1 .. Len(calls[i].vals)
    <3>1. Takes(calls, V, i)
      BY <2>1, BoundBasics
    <3> QED
      BY <3>1 DEF Takes
  <2>3. s[i] = [k \in 1 .. Len(calls[i].vals) |-> Placeholder(driver, Len(g[i - 1]) + k)]
    BY <2>2 DEF Clause
  <2>4. ASSUME NEW k \in 1 .. Len(calls[i].vals) PROVE Placeholder(driver, Len(g[i - 1]) + k) \in Nat
    <3>1. Len(g[i - 1]) \in Nat /\ k \in Nat
      BY <1>0, <2>1
    <3> QED
      BY <3>1 DEF Placeholder
  <2> DEFINE w == Len(calls[i].vals)
  <2> HIDE DEF s
  <2>5. s[i] \in [1 .. w -> Nat]
    BY <2>3, <2>4
  <2>6. w \in Nat
    BY <2>2
  <2>7. s[i] \in Seq(Nat) /\ Len(s[i]) = w
    <3> HIDE DEF w
    <3> QED
      BY <2>5, <2>6
  <2> QED
    BY <2>3, <2>7
<1>2. s \in Seq(Seq(Nat)) /\ Len(s) = n
  <2>1. s \in [1 .. n -> Seq(Nat)]
    BY <1>1
  <2> HIDE DEF s
  <2> QED
    BY <1>0, <2>1
<1>3. ASSUME NEW i \in 0 .. n PROVE h[i] \in Seq(Nat) /\ Len(h[i]) = Len(g[i])
  <2>1. i \in 0 .. Len(calls)
    BY <1>0
  <2>2. Len(g[i]) \in Nat
    BY <1>0, <2>1
  <2>3. h[i] \in [1 .. Len(g[i]) -> Nat]
    BY <2>2 DEF InOrder, Placeholder
  <2> QED
    BY <2>2, <2>3
<1>4. h[0] = <<>>
  <2>1. 0 \in 0 .. n
    BY <1>0
  <2>2. g[0] = <<>>
    BY DEF Bound
  <2>3. h[0] \in Seq(Nat) /\ Len(h[0]) = 0
    <3> HIDE DEF h
    <3> QED
      BY <1>3, <2>1, <2>2
  <2> HIDE DEF h
  <2> QED
    BY <2>3, EmptySeq
<1>5. ASSUME NEW i \in 1 .. n PROVE h[i] = h[i - 1] \o s[i]
  <2>1. i \in 1 .. Len(calls) /\ i - 1 \in 0 .. n /\ i \in 0 .. n
    BY <1>0
  <2>2. Len(g[i]) = Len(g[i - 1]) + Len(calls[i].vals) /\ Len(calls[i].vals) \in Nat /\ Len(g[i - 1]) \in Nat
    <3>1. Puts(calls, g, i)
      BY <2>1, BoundBasics
    <3> QED
      BY <3>1 DEF Puts
  <2> DEFINE a == h[i - 1]
             b == s[i]
             m == Len(g[i - 1])
             w == Len(calls[i].vals)
  <2>3. a \in Seq(Nat) /\ Len(a) = m /\ \A q \in 1 .. m : a[q] = Placeholder(driver, q)
    <3>1. \A q \in 1 .. m : a[q] = Placeholder(driver, q)
      BY <2>1 DEF InOrder
    <3> HIDE DEF h
    <3> QED
      BY <1>3, <2>1, <3>1
  <2>4. b \in Seq(Nat) /\ Len(b) = w /\ \A k \in 1 .. w : b[k] = Placeholder(driver, m + k)
    <3> HIDE DEF s
    <3> QED
      BY <1>1
  <2>5. h[i] \in Seq(Nat) /\ Len(h[i]) = m + w /\ \A q \in 1 .. m + w : h[i][q] = Placeholder(driver, q)
    <3>1. \A q \in 1 .. m + w : h[i][q] = Placeholder(driver, q)
      BY <2>1, <2>2 DEF InOrder
    <3> HIDE DEF h
    <3> QED
      BY <1>3, <2>1, <2>2, <3>1
  <2>m. m \in Nat /\ w \in Nat
    BY <2>2
  <2> HIDE DEF h, s, a, b, m, w
  <2>6. /\ a \o b \in Seq(Nat) /\ Len(a \o b) = m + w
        /\ \A q \in 1 .. m + w : (a \o b)[q] = IF q <= m THEN a[q] ELSE b[q - m]
    BY <2>3, <2>4, ConcatProperties
  <2>7. ASSUME NEW q \in 1 .. m + w PROVE (a \o b)[q] = h[i][q]
    <3>1. CASE q <= m
      <4>1. q \in 1 .. m
        BY <2>m, <3>1
      <4> QED
        BY <2>3, <2>5, <2>6, <3>1, <4>1
    <3>2. CASE ~(q <= m)
      <4>1. q - m \in 1 .. w /\ m + (q - m) = q
        BY <2>m, <3>2
      <4>2. b[q - m] = Placeholder(driver, m + (q - m))
        BY <2>4, <4>1
      <4> QED
        BY <2>5, <2>6, <3>2, <4>1, <4>2
    <3> QED
      BY <3>1, <3>2
  <2>8. a \o b = h[i]
    BY <2>5, <2>6, <2>7, SeqEqual
  <2> QED
    BY <2>8 DEF a, b
<1>6. FlattenSeq(s) = h[n]
  <2>1. \A i \in 1 .. Len(s) : h[i] \in Seq(Nat) /\ h[i] = h[i - 1] \o s[i]
    <3> HIDE DEF h, s
    <3>1. \A i \in 1 .. n : i \in 0 .. n
      BY <1>0
    <3> QED
      BY <1>2, <1>3, <1>5, <3>1
  <2> HIDE DEF h, s
  <2>2. FlattenSeq(s) = h[Len(s)]
    BY <1>2, <1>4, <2>1, FlattenIs
  <2> QED
    BY <1>2, <2>2
<1>7. Marks(Clauses(driver, calls, g, n)) = FlattenSeq(s)
  BY DEF Marks, Clauses
<1>8. h[n] = InOrder(driver, Len(g[n]))
  <2>1. n \in 0 .. n
    BY <1>0
  <2> QED
    BY <2>1
<1> QED
  BY <1>6, <1>7, <1>8

\* The clauses of a chain, one after another.
LEMMA ClausesAre ==
  ASSUME NEW driver, NEW calls, NEW g, NEW n \in Nat
  PROVE  /\ DOMAIN Clauses(driver, calls, g, n) = 1 .. n /\ Len(Clauses(driver, calls, g, n)) = n
         /\ \A i \in 1 .. n : Clauses(driver, calls, g, n)[i] = Clause(driver, calls, g, i)
<1> DEFINE E == {Clause(driver, calls, g, i) : i \in 1 .. n}
           s == Clauses(driver, calls, g, n)
<1>1. s \in [1 .. n -> E] /\ \A i \in 1 .. n : s[i] = Clause(driver, calls, g, i)
  BY DEF Clauses
<1> HIDE DEF E, s
<1>2. DOMAIN s = 1 .. n /\ Len(s) = n
  BY <1>1
<1> QED
  BY <1>1, <1>2 DEF s

\* The statement has the clauses that were built.
LEMMA WhereIs ==
  ASSUME NEW driver, NEW calls, NEW g, NEW n \in Nat
  PROVE  whereSQL(Built(driver, calls, g, n)) = Clauses(driver, calls, g, n)
<1> DEFINE s == Clauses(driver, calls, g, n)
           sql == whereSQL(Built(driver, calls, g, n))
<1>1. sql = [i \in DOMAIN s |-> [s[i] EXCEPT !.or = i > 1 /\ @]]
  BY DEF whereSQL, Built
<1>2. DOMAIN s = 1 .. n /\ \A i \in 1 .. n : s[i] = Clause(driver, calls, g, i)
  BY ClausesAre
<1>3. ASSUME NEW i \in 1 .. n
      PROVE  [Clause(driver, calls, g, i) EXCEPT !.or = i > 1 /\ @] = Clause(driver, calls, g, i)
  <2> DEFINE marks == [k \in DOMAIN calls[i].vals |-> Placeholder(driver, Len(g[i - 1]) + k)]
             or == calls[i].name = "OrWhere" /\ i > 1
             op == Written(calls[i])
             c == [or |-> or, col |-> calls[i].col, op |-> op, marks |-> marks]
  <2>1. Clause(driver, calls, g, i) = c
    BY DEF Clause
  <2>2. (i > 1 /\ or) = or
    OBVIOUS
  <2> HIDE DEF marks, or, op
  <2>3. [c EXCEPT !.or = i > 1 /\ @] = [c EXCEPT !.or = or]
    BY <2>2
  <2>4. [c EXCEPT !.or = or] = c
    OBVIOUS
  <2> QED
    BY <2>1, <2>3, <2>4
<1>4. \A i \in 1 .. n : sql[i] = s[i]
  <2> HIDE DEF s, sql
  <2> QED
    BY <1>1, <1>2, <1>3
<1>5. DOMAIN sql = 1 .. n
  BY <1>1, <1>2
<1>6. sql = [i \in 1 .. n |-> sql[i]] /\ s = [i \in 1 .. n |-> s[i]]
  <2>1. s = [i \in 1 .. n |-> s[i]]
    BY DEF Clauses
  <2>2. sql = [i \in DOMAIN sql |-> sql[i]]
    BY <1>1
  <2> QED
    BY <1>5, <2>1, <2>2
<1> HIDE DEF s, sql
<1>7. sql = s
  BY <1>4, <1>6, Zenon
<1> QED
  BY <1>7 DEF s, sql

\* args has the values of the chain behind `before' others, which a driver that numbers its
\* placeholders does not allow.
Supplies(driver, calls, g, args, before) ==
  /\ \A q \in 1 .. Len(g[Len(calls)]) : args[before + q] = g[Len(calls)][q]
  /\ Numbered(driver) => before = 0

\* A clause takes the values of its own call.
LEMMA TakenIs ==
  ASSUME NEW C, NEW O, NEW V, NEW calls \in Seq(Called(C, O, V)), NEW driver, NEW g,
         Bound(calls, V, g), NEW args, NEW before \in Nat, Supplies(driver, calls, g, args, before),
         NEW i \in 1 .. Len(calls)
  PROVE  Taken(Clauses(driver, calls, g, Len(calls)), i, args, before) = calls[i].vals
<1> DEFINE s == Clauses(driver, calls, g, Len(calls))
           m == Len(g[i - 1])
           vals == calls[i].vals
           first == before + Len(Marks(SubSeq(s, 1, i - 1)))
<1>0. /\ Len(calls) \in Nat /\ i \in Nat /\ i - 1 \in Nat /\ i - 1 \in 0 .. Len(calls)
      /\ m \in Nat /\ Len(vals) \in Nat /\ vals \in Seq(V)
  <2>1. Len(calls) \in Nat /\ Takes(calls, V, i) /\ Puts(calls, g, i)
    BY BoundBasics
  <2> QED
    BY <2>1 DEF Takes, Puts
<1>1. DOMAIN vals = 1 .. Len(vals) /\ vals = [k \in 1 .. Len(vals) |-> vals[k]]
  <2> HIDE DEF vals
  <2> QED
    BY <1>0
<1>2. s[i] = Clause(driver, calls, g, i)
  BY <1>0, ClausesAre
<1>3. SubSeq(s, 1, i - 1) = Clauses(driver, calls, g, i - 1)
  <2> DEFINE a == SubSeq(s, 1, i - 1)
             b == Clauses(driver, calls, g, i - 1)
             E == {Clause(driver, calls, g, j) : j \in 1 .. Len(calls)}
  <2>1. \A j \in 1 .. Len(calls) : s[j] = Clause(driver, calls, g, j)
    BY <1>0, ClausesAre
  <2>2. b = [j \in 1 .. i - 1 |-> Clause(driver, calls, g, j)]
    BY DEF Clauses
  <2>3. a = [j \in 1 .. i - 1 |-> s[j]]
    <3>1. s \in Seq(E) /\ Len(s) = Len(calls)
      <4>1. s \in [1 .. Len(calls) -> E]
        BY DEF Clauses
      <4>2. Len(s) = Len(calls)
        BY <1>0, ClausesAre
      <4> HIDE DEF E, s
      <4> QED
        BY <1>0, <4>1, <4>2
    <3> HIDE DEF s, E
    <3>2. a \in Seq(E) /\ Len(a) = i - 1 /\ \A j \in 1 .. i - 1 : a[j] = s[j]
      BY <1>0, <3>1
    <3> HIDE DEF a
    <3> QED
      BY <1>0, <3>2
  <2>4. \A j \in 1 .. i - 1 : j \in 1 .. Len(calls)
    BY <1>0
  <2>5. \A j \in 1 .. i - 1 : s[j] = Clause(driver, calls, g, j)
    BY <2>1, <2>4
  <2> HIDE DEF a, b, s
  <2>6. a = b
    BY <2>2, <2>3, <2>5, Zenon
  <2> QED
    BY <2>6 DEF a, b
<1>4. first = before + m
  <2>1. Marks(Clauses(driver, calls, g, i - 1)) = InOrder(driver, m)
    BY <1>0, MarksAre
  <2>2. Len(InOrder(driver, m)) = m
    <3> HIDE DEF m
    <3>1. InOrder(driver, m) \in [1 .. m -> Nat]
      BY <1>0 DEF InOrder, Placeholder
    <3> QED
      BY <1>0, <3>1
  <2> HIDE DEF s, m
  <2> QED
    BY <1>3, <2>1, <2>2
<1>5. s[i].marks = [k \in 1 .. Len(vals) |-> Placeholder(driver, m + k)]
  BY <1>1, <1>2 DEF Clause
<1>6. \A k \in 1 .. Len(vals) : m + k \in 1 .. Len(g[Len(calls)]) /\ g[Len(calls)][m + k] = vals[k]
  BY BoundThere
<1>7. ASSUME NEW k \in 1 .. Len(vals)
      PROVE  args[IF s[i].marks[k] = 0 THEN first + k ELSE s[i].marks[k]] = vals[k]
  <2>1. args[before + (m + k)] = vals[k]
    BY <1>6 DEF Supplies
  <2>2. s[i].marks[k] = Placeholder(driver, m + k)
    BY <1>5
  <2> HIDE DEF s, m, vals, first
  <2>3. CASE Numbered(driver)
    <3>1. s[i].marks[k] = m + k /\ m + k # 0 /\ before + (m + k) = m + k
      BY <1>0, <2>2, <2>3 DEF Placeholder, Supplies
    <3> QED
      BY <2>1, <3>1
  <2>4. CASE ~Numbered(driver)
    <3>1. s[i].marks[k] = 0 /\ first + k = before + (m + k)
      BY <1>0, <1>4, <2>2, <2>4 DEF Placeholder
    <3> QED
      BY <2>1, <3>1
  <2> QED
    BY <2>3, <2>4
<1>8. Taken(s, i, args, before)
        = [k \in DOMAIN s[i].marks |-> args[IF s[i].marks[k] = 0 THEN first + k ELSE s[i].marks[k]]]
  BY DEF Taken
<1>9. DOMAIN s[i].marks = 1 .. Len(vals)
  BY <1>5
<1> HIDE DEF s, m, vals, first
<1> QED
  BY <1>1, <1>7, <1>8, <1>9, Zenon DEF s, vals

\* The OR of the first condition says nothing.
Conditions(n, or, holds) == [i \in 1 .. n |-> [or |-> or[i], holds |-> holds[i]]]

LEMMA FirstOrIsIdle ==
  ASSUME NEW n \in Nat, NEW p, NEW q, NEW h, \A i \in 1 .. n : i > 1 => p[i] = q[i]
  PROVE  Disjunction(Conditions(n, p, h)) = Disjunction(Conditions(n, q, h))
<1> DEFINE a == Conditions(n, p, h)
           b == Conditions(n, q, h)
           E == [or : {p[i] : i \in 1 .. n} \cup {q[i] : i \in 1 .. n}, holds : {h[i] : i \in 1 .. n}]
<1>1. /\ DOMAIN a = 1 .. n /\ Len(a) = n /\ DOMAIN b = 1 .. n /\ Len(b) = n
      /\ \A i \in 1 .. n : a[i].holds = h[i] /\ b[i].holds = h[i] /\ a[i].or = p[i] /\ b[i].or = q[i]
      /\ a = <<>> <=> n = 0
      /\ b = <<>> <=> n = 0
  <2>1. a \in [1 .. n -> E] /\ b \in [1 .. n -> E]
    BY DEF Conditions
  <2>2. \A i \in 1 .. n : a[i].holds = h[i] /\ b[i].holds = h[i] /\ a[i].or = p[i] /\ b[i].or = q[i]
    BY DEF Conditions
  <2> HIDE DEF E, a, b
  <2>3. a \in Seq(E) /\ Len(a) = n /\ b \in Seq(E) /\ Len(b) = n
    BY <2>1
  <2>4. DOMAIN a = 1 .. n /\ DOMAIN b = 1 .. n
    BY <2>1
  <2> QED
    BY <2>2, <2>3, <2>4, EmptySeq
<1> HIDE DEF a, b, E
<1> DEFINE A(i) == \A j \in i .. n : a[j].holds \/ \E k \in i + 1 .. j : a[k].or
           B(i) == \A j \in i .. n : b[j].holds \/ \E k \in i + 1 .. j : b[k].or
<1>2. ASSUME NEW i \in 1 .. n PROVE A(i) <=> B(i)
  <2>1. ASSUME NEW j \in i .. n
        PROVE  /\ a[j].holds <=> b[j].holds
               /\ \A k \in i + 1 .. j : a[k].or <=> b[k].or
    <3>1. j \in 1 .. n /\ \A k \in i + 1 .. j : k \in 1 .. n /\ k > 1
      OBVIOUS
    <3> QED
      BY <1>1, <3>1
  <2> QED
    BY <2>1
<1>3. \A i \in 1 .. n : (i = 1 \/ a[i].or) <=> (i = 1 \/ b[i].or)
  BY <1>1
<1>4. Disjunction(a) <=> (a = <<>> \/ \E i \in 1 .. n : (i = 1 \/ a[i].or) /\ A(i))
  BY <1>1 DEF Disjunction
<1>5. Disjunction(b) <=> (b = <<>> \/ \E i \in 1 .. n : (i = 1 \/ b[i].or) /\ B(i))
  BY <1>1 DEF Disjunction
<1>6. (a = <<>>) <=> (b = <<>>)
  BY <1>1
<1> HIDE DEF A, B
<1>7. Disjunction(a) <=> Disjunction(b)
  BY <1>2, <1>3, <1>4, <1>5, <1>6
<1>8. Disjunction(a) \in BOOLEAN /\ Disjunction(b) \in BOOLEAN
  BY DEF Disjunction
<1> QED
  BY <1>7, <1>8 DEF a, b

\* What a chain means, as conditions.
Ors(calls, n) == [i \in 1 .. n |-> calls[i].name = "OrWhere"]
Held(calls, n, row) == [i \in 1 .. n |-> Holds(row[calls[i].col], OpOf(calls[i]), calls[i].vals)]

LEMMA MeantIs ==
  ASSUME NEW calls, NEW n \in Nat, DOMAIN calls = 1 .. n, NEW row
  PROVE  Meant(calls, row) = Disjunction(Conditions(n, Ors(calls, n), Held(calls, n, row)))
<1> DEFINE q == Ors(calls, n)
           h == Held(calls, n, row)
           c == [i \in DOMAIN calls |->
                   [or |-> calls[i].name = "OrWhere",
                    holds |-> Holds(row[calls[i].col], OpOf(calls[i]), calls[i].vals)]]
<1>1. c = Conditions(n, q, h)
  <2>1. ASSUME NEW i \in 1 .. n PROVE c[i] = [or |-> q[i], holds |-> h[i]]
    BY DEF Ors, Held
  <2>2. c = [i \in 1 .. n |-> c[i]]
    OBVIOUS
  <2> HIDE DEF c, q, h
  <2> QED
    BY <2>1, <2>2, Zenon DEF Conditions
<1>2. Meant(calls, row) = Disjunction(c)
  BY DEF Meant
<1> QED
  BY <1>1, <1>2

\* A row matches the clauses of a chain when the chain means it.
LEMMA MatchesMeant ==
  ASSUME NEW C, NEW O, NEW V, NEW calls \in Seq(Called(C, O, V)), NEW driver, NEW g,
         Bound(calls, V, g), NEW args, NEW before \in Nat, Supplies(driver, calls, g, args, before),
         NEW row
  PROVE  Matches(Clauses(driver, calls, g, Len(calls)), args, before, row) = Meant(calls, row)
<1> DEFINE n == Len(calls)
           s == Clauses(driver, calls, g, n)
           h == [i \in 1 .. n |-> Holds(row[calls[i].col], OpOf(calls[i]), calls[i].vals)]
           p == [i \in 1 .. n |-> calls[i].name = "OrWhere" /\ i > 1]
           q == [i \in 1 .. n |-> calls[i].name = "OrWhere"]
<1>1. n \in Nat /\ DOMAIN calls = 1 .. n
  BY LenProperties
<1>2. DOMAIN s = 1 .. n /\ \A i \in 1 .. n : s[i] = Clause(driver, calls, g, i)
  BY <1>1, ClausesAre
<1>3. ASSUME NEW i \in 1 .. n
      PROVE  Holds(row[s[i].col], s[i].op, Taken(s, i, args, before))
               = Holds(row[calls[i].col], OpOf(calls[i]), calls[i].vals)
  <2>1. s[i].col = calls[i].col /\ s[i].op = Written(calls[i])
    <3>1. s[i] = Clause(driver, calls, g, i)
      BY <1>2
    <3> QED
      BY <3>1 DEF Clause
  <2>2. Taken(s, i, args, before) = calls[i].vals
    BY TakenIs
  <2>3. ASSUME NEW x PROVE Holds(x, Written(calls[i]), calls[i].vals) = Holds(x, OpOf(calls[i]), calls[i].vals)
    <3>1. CASE calls[i].name = "WhereIn" /\ calls[i].vals = <<>>
      <4>1. Written(calls[i]) = "1 = 0" /\ OpOf(calls[i]) = "in"
        BY <3>1 DEF Written, OpOf
      <4>2. Holds(x, "1 = 0", <<>>) = FALSE
        BY DEF Holds
      <4>3. Holds(x, "in", <<>>) = (x # NULL /\ x \in ToSet(<<>>))
        BY DEF Holds
      <4>4. ToSet(<<>>) = {}
        BY DEF ToSet
      <4> QED
        BY <3>1, <4>1, <4>2, <4>3, <4>4
    <3>2. CASE ~(calls[i].name = "WhereIn" /\ calls[i].vals = <<>>)
      BY <3>2 DEF Written
    <3> QED
      BY <3>1, <3>2
  <2> HIDE DEF s
  <2> QED
    BY <2>1, <2>2, <2>3
<1>4. ASSUME NEW i \in 1 .. n PROVE s[i].or = (calls[i].name = "OrWhere" /\ i > 1)
  <2>1. s[i] = Clause(driver, calls, g, i)
    BY <1>2
  <2> HIDE DEF s
  <2> QED
    BY <2>1 DEF Clause
<1>5. Matches(s, args, before, row) = Disjunction(Conditions(n, p, h))
  <2> DEFINE c == [i \in DOMAIN s |->
                     [or |-> s[i].or, holds |-> Holds(row[s[i].col], s[i].op, Taken(s, i, args, before))]]
  <2>1. c = Conditions(n, p, h)
    <3> HIDE DEF s
    <3>1. DOMAIN c = 1 .. n
      BY <1>2
    <3>2. ASSUME NEW i \in 1 .. n PROVE c[i] = [or |-> p[i], holds |-> h[i]]
      BY <1>2, <1>3, <1>4
    <3>3. c = [i \in 1 .. n |-> c[i]]
      BY <3>1
    <3> HIDE DEF c, p, h, n
    <3> QED
      BY <3>2, <3>3, Zenon DEF Conditions
  <2>2. Matches(s, args, before, row) = Disjunction(c)
    BY DEF Matches
  <2> QED
    BY <2>1, <2>2
<1>6. Meant(calls, row) = Disjunction(Conditions(n, q, h))
  BY <1>1, MeantIs DEF Ors, Held
<1>7. Disjunction(Conditions(n, p, h)) = Disjunction(Conditions(n, q, h))
  <2>1. \A i \in 1 .. n : i > 1 => p[i] = q[i]
    BY <1>1
  <2> HIDE DEF p, q, h, n
  <2> QED
    BY <1>1, <2>1, FirstOrIsIdle
<1> QED
  BY <1>5, <1>6, <1>7 DEF s

\* The bindings of a chain supply its own placeholders.
LEMMA OwnBindings ==
  ASSUME NEW driver, NEW calls, NEW g PROVE Supplies(driver, calls, g, g[Len(calls)], 0)
<1>1. \A q \in 1 .. Len(g[Len(calls)]) : 0 + q = q
  <2> DEFINE m == Len(g[Len(calls)])
  <2> HIDE DEF m
  <2> QED
    OBVIOUS
<1> QED
  BY <1>1 DEF Supplies

\* What a database finds for a chain are the rows it means.
LEMMA FoundAreMeant ==
  ASSUME NEW C, NEW O, NEW V, NEW calls \in Seq(Called(C, O, V)), NEW driver, NEW table
  PROVE  LET qb == Chain(driver, calls)
         IN Found(whereSQL(qb), qb.bindings, 0, table) = MeantOf(calls, table)
<1>1. PICK g : Bound(calls, V, g)
  BY SomeBound
<1> DEFINE n == Len(calls)
           qb == Chain(driver, calls)
<1>2. qb = Built(driver, calls, g, n) /\ n \in Nat
  BY <1>1, ChainIs, LenProperties
<1>3. whereSQL(qb) = Clauses(driver, calls, g, n) /\ qb.bindings = g[n]
  <2>1. whereSQL(Built(driver, calls, g, n)) = Clauses(driver, calls, g, n)
    BY <1>2, WhereIs
  <2>2. Built(driver, calls, g, n).bindings = g[n]
    BY DEF Built
  <2> QED
    BY <1>2, <2>1, <2>2
<1>4. ASSUME NEW row
      PROVE  Matches(Clauses(driver, calls, g, n), g[n], 0, row) = Meant(calls, row)
  <2>1. Supplies(driver, calls, g, g[n], 0)
    BY OwnBindings
  <2>2. 0 \in Nat
    OBVIOUS
  <2> QED
    BY <1>1, <2>1, <2>2, MatchesMeant
<1>5. Found(Clauses(driver, calls, g, n), g[n], 0, table) = MeantOf(calls, table)
  BY <1>4, Zenon DEF Found, MeantOf
<1> QED
  BY <1>3, <1>5

\* A chain's statement is not refused.
LEMMA NeverRefused ==
  ASSUME NEW C, NEW O, NEW V, NEW calls \in Seq(Called(C, O, V)), NEW driver
  PROVE  ~Refused(Marks(whereSQL(Chain(driver, calls))), Chain(driver, calls).bindings)
<1>1. PICK g : Bound(calls, V, g)
  BY SomeBound
<1> DEFINE n == Len(calls)
           args == g[n]
           m == Len(args)
           marks == InOrder(driver, m)
<1>2. n \in Nat /\ n \in 0 .. n /\ args \in Seq(V) /\ m \in Nat
  <2>1. Len(calls) \in Nat /\ \A i \in 0 .. Len(calls) : g[i] \in Seq(V) /\ Len(g[i]) \in Nat
    BY <1>1, BoundBasics
  <2> QED
    BY <2>1
<1>3. Marks(whereSQL(Chain(driver, calls))) = marks /\ Chain(driver, calls).bindings = args
  <2>1. Chain(driver, calls) = Built(driver, calls, g, n)
    BY <1>1, ChainIs
  <2>2. whereSQL(Built(driver, calls, g, n)) = Clauses(driver, calls, g, n)
    BY <1>2, WhereIs
  <2>3. Marks(Clauses(driver, calls, g, n)) = marks
    BY <1>1, <1>2, MarksAre
  <2>4. Built(driver, calls, g, n).bindings = args
    BY DEF Built
  <2> QED
    BY <2>1, <2>2, <2>3, <2>4
<1>4. DOMAIN args = 1 .. m
  <2> HIDE DEF args
  <2> QED
    BY <1>2
<1> HIDE DEF args, m
<1>5. DOMAIN marks = 1 .. m /\ Len(marks) = m /\ \A k \in 1 .. m : marks[k] = Placeholder(driver, k)
  <2>1. marks \in [1 .. m -> Nat] /\ \A k \in 1 .. m : marks[k] = Placeholder(driver, k)
    BY <1>2 DEF InOrder, Placeholder
  <2> HIDE DEF marks
  <2> QED
    BY <1>2, <2>1
<1> HIDE DEF marks
<1>6. CASE Numbered(driver)
  <2>1. \A k \in 1 .. m : marks[k] = k
    BY <1>5, <1>6 DEF Placeholder
  <2>2. ToSet(marks) = 1 .. m
    BY <1>5, <2>1 DEF ToSet
  <2> QED
    BY <1>3, <1>4, <1>5, <2>2 DEF Refused, m
<1>7. CASE ~Numbered(driver)
  <2>1. \A k \in 1 .. m : marks[k] = 0
    BY <1>5, <1>7 DEF Placeholder
  <2> QED
    BY <1>3, <1>5, <2>1 DEF Refused, m
<1> QED
  BY <1>6, <1>7

\* All rows, and the first.
LEMMA WholeWindow == ASSUME NEW E, NEW rows \in Seq(E) PROVE Window(rows, 0, 0) = rows
<1>1. Window(rows, 0, 0) = SubSeq(rows, 1, Len(rows))
  BY DEF Window
<1> QED
  BY <1>1

LEMMA FirstWindow ==
  ASSUME NEW E, NEW rows \in Seq(E)
  PROVE  Window(rows, 1, 0) = SubSeq(rows, 1, Min({1, Len(rows)}))
BY DEF Window

\* A statement finds the rows its chain of calls means: on every driver, for every chain and
\* every table, each placeholder takes the value of its own call, no statement is refused, and
\* First returns the first of the rows that Get returns.
THEOREM EveryChainFindsItsRows ==
  ASSUME NEW C, NEW O, NEW V, NEW calls \in Seq(Called(C, O, V)), NEW driver,
         NEW E, NEW table \in Seq(E)
  PROVE  SelectSound(driver, calls, table)
<1> DEFINE qb == Chain(driver, calls)
           meant == Keep(table, MeantOf(calls, table))
<1>1. ~Refused(Marks(whereSQL(qb)), qb.bindings)
  BY NeverRefused
<1>2. qb.orderBy = "none" /\ qb.limit = 0 /\ qb.offset = 0
  <2>1. PICK g : Bound(calls, V, g)
    BY SomeBound
  <2>2. qb = Built(driver, calls, g, Len(calls))
    BY <2>1, ChainIs
  <2> QED
    BY <2>2 DEF Built
<1>3. Selected(qb, table) = meant
  <2>1. Found(whereSQL(qb), qb.bindings, 0, table) = MeantOf(calls, table)
    BY FoundAreMeant
  <2> HIDE DEF qb
  <2> QED
    BY <1>2, <2>1 DEF Selected, Sorted
<1>4. meant \in Seq(E)
  BY KeepType
<1>5. Get(qb, table) = meant
  <2> HIDE DEF qb, meant
  <2>1. Get(qb, table) = Window(meant, 0, 0)
    BY <1>2, <1>3 DEF Get
  <2> QED
    BY <1>4, <2>1, WholeWindow
<1>6. First(qb, table) = SubSeq(meant, 1, Min({1, Len(meant)}))
  <2> HIDE DEF qb, meant
  <2>1. First(qb, table) = Window(meant, 1, 0)
    BY <1>3 DEF First
  <2> QED
    BY <1>4, <2>1, FirstWindow
<1> QED
  BY <1>1, <1>5, <1>6 DEF SelectSound

\* Nothing is written when the hook that runs first or the statement fails, and the hook that
\* runs last runs only after the write: what an insert or a delete reports as an error wrote
\* nothing or is an error of the hook that ran last, and a delete without an error left exactly
\* the rows that its chain does not mean.
THEOREM HooksGuardWrites ==
  ASSUME NEW C, NEW O, NEW V, NEW calls \in Seq(Called(C, O, V)), NEW driver,
         NEW E, NEW table \in Seq(E), NEW row \in E, NEW fails \in BOOLEAN,
         NEW hooks \in [before : {"none", "ok", "err"}, after : {"none", "ok", "err"}]
  PROVE  HooksSound(driver, calls, table, row, hooks, fails)
<1> DEFINE qb == Chain(driver, calls)
           inserted == InsertModel(table, row, hooks, fails)
           deleted == DeleteModel(qb, table, hooks, fails)
           more == table \o (IF row = <<>> THEN <<>> ELSE <<row>>)
           fewer == Keep(table, ToSet(table) \ MeantOf(calls, table))
           stopped == hooks.before = "err" \/ fails
<1>1. Found(whereSQL(qb), qb.bindings, 0, table) = MeantOf(calls, table)
  BY FoundAreMeant
<1>2. deleted = IF stopped THEN Left(table, TRUE) ELSE Wrote(fewer, hooks)
  <2> HIDE DEF qb
  <2> QED
    BY <1>1 DEF DeleteModel
<1>3. /\ row = <<>> => inserted = Left(table, FALSE) /\ more = table
      /\ row # <<>> => inserted = IF stopped THEN Left(table, TRUE) ELSE Wrote(more, hooks)
  <2>1. table \o <<>> = table /\ Append(table, row) = table \o <<row>>
    BY ConcatEmptySeq
  <2> QED
    BY <2>1 DEF InsertModel
<1> HIDE DEF qb, inserted, deleted, more, fewer, stopped
<1>4. /\ stopped => inserted.table = table /\ deleted.table = table
      /\ inserted.after => row # <<>> /\ inserted.table = more
      /\ deleted.after => deleted.table = fewer
      /\ inserted.err => inserted.table = table \/ (inserted.after /\ hooks.after = "err")
      /\ deleted.err => deleted.table = table \/ (deleted.after /\ hooks.after = "err")
      /\ ~inserted.err => inserted.table = more
      /\ ~deleted.err => deleted.table = fewer
  <2>1. ASSUME NEW t
        PROVE  /\ Left(t, TRUE).table = t /\ Left(t, TRUE).err /\ ~Left(t, TRUE).after
               /\ Left(t, FALSE).table = t /\ ~Left(t, FALSE).err /\ ~Left(t, FALSE).after
    BY DEF Left
  <2>2. ASSUME NEW t
        PROVE  /\ Wrote(t, hooks).table = t
               /\ Wrote(t, hooks).err <=> hooks.after = "err"
               /\ Wrote(t, hooks).after <=> hooks.after # "none"
    BY DEF Wrote
  <2>3. hooks.after = "err" => hooks.after # "none"
    OBVIOUS
  <2>4. CASE stopped
    BY <1>2, <1>3, <2>1, <2>4
  <2>5. CASE ~stopped
    <3>1. deleted = Wrote(fewer, hooks) /\ (row # <<>> => inserted = Wrote(more, hooks))
      BY <1>2, <1>3, <2>5
    <3>2. CASE row = <<>>
      BY <1>3, <2>1, <2>2, <2>3, <2>5, <3>1, <3>2
    <3>3. CASE row # <<>>
      BY <2>2, <2>3, <2>5, <3>1, <3>3
    <3> QED
      BY <3>2, <3>3
  <2> QED
    BY <2>4, <2>5
<1> QED
  BY <1>4 DEF HooksSound, qb, inserted, deleted, more, fewer, stopped

\* What an update does to its data and its filters, whose placeholders are `?'.
Pairs(C, V) == [col : C, val : V]
Data(data) == [i \in DOMAIN data |-> data[i].val]

LEMMA DataFirst ==
  ASSUME NEW C, NEW V, NEW data \in Seq(Pairs(C, V)), NEW rest \in Seq(V)
  PROVE  /\ Len(data) \in Nat /\ DOMAIN data = 1 .. Len(data) /\ Len(rest) \in Nat
         /\ Len(Data(data) \o rest) = Len(data) + Len(rest)
         /\ \A q \in 1 .. Len(rest) : (Data(data) \o rest)[Len(data) + q] = rest[q]
<1> DEFINE a == Data(data)
           d == Len(data)
           m == Len(rest)
<1>1. d \in Nat /\ m \in Nat /\ DOMAIN data = 1 .. d /\ \A i \in 1 .. d : data[i] \in Pairs(C, V)
  BY LenProperties, ElementOfSeq
<1>2. a \in Seq(V) /\ Len(a) = d
  <2>1. a \in [1 .. d -> V]
    BY <1>1 DEF Data, Pairs
  <2> HIDE DEF a, d
  <2> QED
    BY <1>1, <2>1
<1> HIDE DEF a, d, m
<1>3. /\ Len(a \o rest) = d + m
      /\ \A k \in 1 .. d + m : (a \o rest)[k] = IF k <= d THEN a[k] ELSE rest[k - d]
  BY <1>1, <1>2, ConcatProperties DEF m
<1>4. ASSUME NEW q \in 1 .. m PROVE (a \o rest)[d + q] = rest[q]
  <2>1. d + q \in 1 .. d + m /\ ~(d + q <= d) /\ (d + q) - d = q
    BY <1>1
  <2> QED
    BY <1>3, <2>1
<1> QED
  BY <1>1, <1>3, <1>4 DEF a, d, m

\* Without numbers a statement is refused only for the number of its arguments.
LEMMA UnnumberedUpdate ==
  ASSUME NEW C, NEW O, NEW V, NEW calls \in Seq(Called(C, O, V)), NEW driver, ~Numbered(driver),
         NEW g, Bound(calls, V, g), NEW data \in Seq(Pairs(C, V))
  PROVE  ~Refused([i \in DOMAIN data |-> Placeholder(driver, i)]
                    \o Marks(Clauses(driver, calls, g, Len(calls))), Data(data) \o g[Len(calls)])
<1> DEFINE set == [i \in DOMAIN data |-> Placeholder(driver, i)]
           rest == g[Len(calls)]
           d == Len(data)
           m == Len(rest)
           filters == InOrder(driver, m)
           marks == set \o filters
<1>1. rest \in Seq(V) /\ Marks(Clauses(driver, calls, g, Len(calls))) = filters
  <2>1. Len(calls) \in Nat /\ \A i \in 0 .. Len(calls) : g[i] \in Seq(V)
    BY BoundBasics
  <2>2. Len(calls) \in 0 .. Len(calls)
    BY <2>1
  <2>3. Marks(Clauses(driver, calls, g, Len(calls))) = filters
    BY <2>2, MarksAre
  <2> QED
    BY <2>1, <2>2, <2>3
<1> HIDE DEF rest
<1>2. d \in Nat /\ m \in Nat /\ DOMAIN data = 1 .. d /\ Len(Data(data) \o rest) = d + m
  BY <1>1, DataFirst
<1> HIDE DEF d, m
<1>3. set \in Seq({0}) /\ Len(set) = d
  <2>1. set \in [1 .. d -> {0}]
    BY <1>2 DEF Placeholder
  <2> HIDE DEF set
  <2> QED
    BY <1>2, <2>1
<1>4. filters \in Seq({0}) /\ Len(filters) = m
  <2>1. filters \in [1 .. m -> {0}]
    BY <1>2 DEF InOrder, Placeholder
  <2> HIDE DEF filters
  <2> QED
    BY <1>2, <2>1
<1> HIDE DEF set, filters
<1>5. marks \in Seq({0}) /\ Len(marks) = d + m
  BY <1>2, <1>3, <1>4, ConcatProperties
<1> HIDE DEF marks
<1>6. \A k \in DOMAIN marks : marks[k] = 0
  BY <1>5, ElementOfSeq, LenProperties
<1>7. ~Refused(marks, Data(data) \o rest)
  BY <1>2, <1>5, <1>6 DEF Refused
<1> QED
  BY <1>1, <1>7 DEF marks, set, rest

\* An update without columns is no update.
LEMMA NothingAssigned ==
  ASSUME NEW C, NEW V, NEW row \in [C -> V] PROVE Assign(row, <<>>) = row
<1>1. DOMAIN row = C /\ row = [c \in C |-> row[c]]
  OBVIOUS
<1>2. Assign(row, <<>>) = [c \in C |-> row[c]]
  BY <1>1 DEF Assign
<1> QED
  BY <1>1, <1>2

\* An update changes the rows its chain means, in the columns of its data, and no other, on
\* every driver whose placeholders carry no number; where they do, UpdatesMeanTheirChain.
THEOREM EveryUpdateMeansItsChain ==
  ASSUME NEW C, NEW O, NEW V, NEW calls \in Seq(Called(C, O, V)), NEW driver, ~Numbered(driver),
         NEW data \in Seq(Pairs(C, V)), NEW table \in Seq([C -> V])
  PROVE  UpdateSound(driver, calls, table, data)
<1>1. PICK g : Bound(calls, V, g)
  BY SomeBound
<1> DEFINE n == Len(calls)
           qb == Chain(driver, calls)
           args == Data(data) \o g[n]
           s == Clauses(driver, calls, g, n)
           changed == [i \in DOMAIN table |-> IF Meant(calls, table[i]) THEN Assign(table[i], data)
                                              ELSE table[i]]
<1>2. n \in Nat /\ g[n] \in Seq(V)
  <2>1. n \in Nat /\ \A i \in 0 .. n : g[i] \in Seq(V)
    BY <1>1, BoundBasics
  <2> QED
    BY <2>1
<1>3. qb.driver = driver /\ qb.where = s /\ qb.bindings = g[n] /\ whereSQL(qb) = s
  <2>1. qb = Built(driver, calls, g, n)
    BY <1>1, ChainIs
  <2>2. whereSQL(Built(driver, calls, g, n)) = s
    BY <1>2, WhereIs
  <2>3. LET b == Built(driver, calls, g, n) IN b.driver = driver /\ b.where = s /\ b.bindings = g[n]
    BY DEF Built
  <2> QED
    BY <2>1, <2>2, <2>3
<1>4. CASE data = <<>>
  <2>1. UpdateModel(qb, table, data) = [err |-> FALSE, table |-> table]
    BY <1>4 DEF UpdateModel
  <2>2. \A i \in DOMAIN table : table[i] \in [C -> V]
    BY ElementOfSeq, LenProperties
  <2>3. \A i \in DOMAIN table : Assign(table[i], data) = table[i]
    BY <1>4, <2>2, NothingAssigned
  <2>4. table = [i \in DOMAIN table |-> table[i]]
    BY LenProperties
  <2>5. changed = table
    BY <2>3, <2>4, Zenon
  <2> QED
    BY <2>1, <2>5 DEF UpdateSound
<1>5. CASE data # <<>>
  <2>1. ~Refused([i \in DOMAIN data |-> Placeholder(driver, i)] \o Marks(s), args)
    BY <1>1, UnnumberedUpdate
  <2>2. Supplies(driver, calls, g, args, Len(data)) /\ Len(data) \in Nat
    BY <1>2, DataFirst DEF Supplies
  <2>3. ASSUME NEW row PROVE Matches(s, args, Len(data), row) = Meant(calls, row)
    BY <1>1, <2>2, MatchesMeant
  <2>4. UpdateModel(qb, table, data)
          = [err |-> FALSE,
             table |-> [i \in DOMAIN table |-> IF Matches(s, args, Len(data), table[i])
                                               THEN Assign(table[i], data) ELSE table[i]]]
    <3> HIDE DEF s, qb
    <3> QED
      BY <1>3, <1>5, <2>1 DEF UpdateModel, Data
  <2>5. [i \in DOMAIN table |-> IF Matches(s, args, Len(data), table[i])
                                THEN Assign(table[i], data) ELSE table[i]] = changed
    BY <2>3, Zenon
  <2> QED
    BY <2>4, <2>5 DEF UpdateSound
<1> QED
  BY <1>4, <1>5

-----------------------------------------------------------------------------
(* Records *)

\* Two sequences keep the same when they agree on what is kept.
LEMMA KeepSame ==
  ASSUME NEW E, NEW s \in Seq(E), NEW F, NEW t \in Seq(F), Len(s) = Len(t), NEW S, NEW R,
         \A i \in 1 .. Len(s) : (s[i] \in S <=> t[i] \in R) /\ (s[i] \in S => s[i] = t[i])
  PROVE  Keep(s, S) = Keep(t, R)
<1>1. PICK f \in [0 .. Len(s) -> Seq(S \cap E)] : Upto(f, s, S, Len(s))
  BY SomeUpto
<1>2. Keep(s, S) = f[Len(s)]
  BY <1>1, KeepIs
<1>3. Upto(f, t, R, Len(t))
  <2>1. f[0] = <<>>
    BY <1>1 DEF Upto
  <2>2. ASSUME NEW i \in 1 .. Len(t)
        PROVE  f[i] = IF t[i] \in R THEN Append(f[i - 1], t[i]) ELSE f[i - 1]
    <3>1. f[i] = IF s[i] \in S THEN Append(f[i - 1], s[i]) ELSE f[i - 1]
      BY <1>1 DEF Upto
    <3> QED
      BY <3>1
  <2> QED
    BY <2>1, <2>2 DEF Upto
<1>4. Keep(t, R) = f[Len(t)]
  BY <1>3, KeepIs
<1> QED
  BY <1>2, <1>4

\* The finders' chains: of all records, and of the one with an ID.
NotDeleted == [name |-> "WhereNull", col |-> "deleted_at", op |-> "", vals |-> <<>>]
WithId(id) == [name |-> "Where", col |-> "id", op |-> "=", vals |-> <<id>>]
Scoped(soft) == IF soft THEN <<NotDeleted>> ELSE <<>>
One(soft, id) == IF soft THEN <<NotDeleted, WithId(id)>> ELSE <<WithId(id)>>

FinderOps == {"", "="}

LEMMA FinderCalls ==
  ASSUME NEW C, {"id", "deleted_at"} \subseteq C, NEW V, NEW id \in V, NEW soft \in BOOLEAN
  PROVE  /\ Scoped(soft) \in Seq(Called(C, FinderOps, V))
         /\ One(soft, id) \in Seq(Called(C, FinderOps, V))
<1> DEFINE D == Called(C, FinderOps, V)
<1>1. NotDeleted \in D
  <2>1. <<>> \in Seq(V) /\ Len(<<>>) = 0
    OBVIOUS
  <2> QED
    BY <2>1 DEF Called, NotDeleted, FinderOps
<1>2. WithId(id) \in D
  <2>1. <<id>> \in Seq(V) /\ Len(<<id>>) = 1
    OBVIOUS
  <2> QED
    BY <2>1 DEF Called, WithId, FinderOps
<1> HIDE DEF D
<1>3. <<>> \in Seq(D) /\ <<NotDeleted>> \in Seq(D) /\ <<WithId(id)>> \in Seq(D)
      /\ <<NotDeleted, WithId(id)>> \in Seq(D)
  BY <1>1, <1>2
<1> QED
  BY <1>3 DEF Scoped, One, D

\* Short chains, call by call.
LEMMA NoChain ==
  ASSUME NEW driver
  PROVE  Chain(driver, <<>>) = New(driver)
<1> DEFINE Follows(f) ==
             f = [n \in 0 .. Len(<<>>) |-> IF n = 0 THEN New(driver) ELSE Apply(f[n - 1], <<>>[n])]
           built == CHOOSE f : Follows(f)
           h == [n \in {0} |-> New(driver)]
<1>1. 0 .. Len(<<>>) = {0}
  <2>1. Len(<<>>) = 0
    OBVIOUS
  <2>2. 0 .. 0 = {0}
    OBVIOUS
  <2> QED
    BY <2>1, <2>2
<1>2. Follows(h)
  <2>1. h = [n \in {0} |-> IF n = 0 THEN New(driver) ELSE Apply(h[n - 1], <<>>[n])]
    OBVIOUS
  <2> HIDE DEF h
  <2> QED
    BY <1>1, <2>1
<1> HIDE DEF h
<1>3. Follows(built)
  BY <1>2
<1> HIDE DEF built
<1>4. built[0] = New(driver)
  BY <1>1, <1>3
<1>5. Len(<<>>) = 0
  OBVIOUS
<1> QED
  BY <1>4, <1>5 DEF Chain, built

LEMMA ShortChains ==
  ASSUME NEW C, NEW O, NEW V, NEW calls \in Seq(Called(C, O, V)), NEW driver
  PROVE  /\ Len(calls) = 1 => Chain(driver, calls) = Apply(New(driver), calls[1])
         /\ Len(calls) = 2 => Chain(driver, calls) = Apply(Apply(New(driver), calls[1]), calls[2])
<1>1. PICK g : Bound(calls, V, g)
  BY SomeBound
<1> DEFINE built(n) == Built(driver, calls, g, n)
<1>2. Chain(driver, calls) = built(Len(calls))
  BY <1>1, ChainIs
<1>3. built(0) = New(driver)
  <2>1. Clauses(driver, calls, g, 0) = <<>>
    BY DEF Clauses
  <2>2. g[0] = <<>>
    BY <1>1 DEF Bound
  <2> QED
    BY <2>1, <2>2 DEF Built, New
<1>4. ASSUME NEW n \in 1 .. Len(calls) PROVE built(n) = Apply(built(n - 1), calls[n])
  BY <1>1, BuiltNext
<1> HIDE DEF built
<1>6. CASE Len(calls) = 1
  <2>1. 1 \in 1 .. Len(calls) /\ 1 - 1 = 0
    BY <1>6
  <2> QED
    BY <1>2, <1>3, <1>4, <1>6, <2>1
<1>7. CASE Len(calls) = 2
  <2>1. 1 \in 1 .. Len(calls) /\ 1 - 1 = 0 /\ 2 \in 1 .. Len(calls) /\ 2 - 1 = 1
    BY <1>7
  <2>2. built(1) = Apply(New(driver), calls[1])
    BY <1>3, <1>4, <2>1
  <2>3. built(2) = Apply(built(1), calls[2])
    BY <1>4, <2>1
  <2> QED
    BY <1>2, <1>7, <2>2, <2>3
<1> QED
  BY <1>6, <1>7

\* They are what the active record asks the builder.
LEMMA FindersAreChains ==
  ASSUME NEW C, {"id", "deleted_at"} \subseteq C, NEW V, NEW id \in V, NEW soft \in BOOLEAN,
         NEW driver
  PROVE  /\ Scope(driver, soft) = Chain(driver, Scoped(soft))
         /\ ById(Scope(driver, soft), id) = Chain(driver, One(soft, id))
<1>1. /\ Scoped(soft) \in Seq(Called(C, FinderOps, V))
      /\ One(soft, id) \in Seq(Called(C, FinderOps, V))
  BY FinderCalls
<1>2. Apply(New(driver), NotDeleted) = WhereNull(New(driver), "deleted_at")
  BY DEF Apply, NotDeleted
<1>3. ASSUME NEW qb PROVE Apply(qb, WithId(id)) = ById(qb, id)
  BY DEF Apply, WithId, ById
<1>4. CASE soft
  <2>1. /\ Len(Scoped(soft)) = 1 /\ Scoped(soft)[1] = NotDeleted
        /\ Len(One(soft, id)) = 2 /\ One(soft, id)[1] = NotDeleted /\ One(soft, id)[2] = WithId(id)
    BY <1>4 DEF Scoped, One
  <2>2. Chain(driver, Scoped(soft)) = Apply(New(driver), NotDeleted)
    BY <1>1, <2>1, ShortChains
  <2>3. Chain(driver, One(soft, id)) = Apply(Apply(New(driver), NotDeleted), WithId(id))
    BY <1>1, <2>1, ShortChains
  <2> QED
    BY <1>2, <1>3, <1>4, <2>2, <2>3 DEF Scope
<1>5. CASE ~soft
  <2>1. /\ Len(Scoped(soft)) = 0
        /\ Len(One(soft, id)) = 1 /\ One(soft, id)[1] = WithId(id)
    <3>1. Scoped(soft) = <<>> /\ Len(<<>>) = 0 /\ One(soft, id) = <<WithId(id)>>
      BY <1>5 DEF Scoped, One
    <3> QED
      BY <3>1
  <2>2. Chain(driver, Scoped(soft)) = New(driver)
    <3>1. Scoped(soft) = <<>>
      BY <1>5 DEF Scoped
    <3> QED
      BY <3>1, NoChain
  <2>3. Chain(driver, One(soft, id)) = Apply(New(driver), WithId(id))
    BY <1>1, <2>1, ShortChains
  <2> QED
    BY <1>3, <1>5, <2>2, <2>3 DEF Scope
<1> QED
  BY <1>4, <1>5

\* Few conditions.
LEMMA FewConditions ==
  ASSUME NEW or, NEW h
  PROVE  /\ Disjunction(Conditions(0, or, h))
         /\ Disjunction(Conditions(1, or, h)) <=> h[1]
         /\ ~or[2] => (Disjunction(Conditions(2, or, h)) <=> h[1] /\ h[2])
<1>1. Conditions(0, or, h) = <<>>
  BY DEF Conditions
<1>2. Disjunction(Conditions(0, or, h))
  BY <1>1 DEF Disjunction
<1>3. ASSUME NEW n \in {1, 2}
      PROVE  Disjunction(Conditions(n, or, h)) <=>
               \E i \in 1 .. n : (i = 1 \/ or[i]) /\ \A j \in i .. n : h[j] \/ \E k \in i + 1 .. j : or[k]
  <2> DEFINE c == Conditions(n, or, h)
             E == [or : {or[i] : i \in 1 .. n}, holds : {h[i] : i \in 1 .. n}]
  <2>1. c \in [1 .. n -> E] /\ \A i \in 1 .. n : c[i].or = or[i] /\ c[i].holds = h[i]
    BY DEF Conditions
  <2> HIDE DEF c, E
  <2>2. DOMAIN c = 1 .. n /\ Len(c) = n /\ c # <<>>
    BY <2>1
  <2>3. Disjunction(c) <=>
          \E i \in 1 .. n : (i = 1 \/ c[i].or) /\ \A j \in i .. n : c[j].holds \/ \E k \in i + 1 .. j : c[k].or
    BY <2>2 DEF Disjunction
  <2>4. \A i \in 1 .. n : \A j \in i .. n : j \in 1 .. n /\ \A k \in i + 1 .. j : k \in 1 .. n
    OBVIOUS
  <2> QED
    BY <2>1, <2>3, <2>4 DEF c
<1>4. 1 .. 1 = {1} /\ 1 .. 2 = {1, 2} /\ 2 .. 2 = {2} /\ 1 + 1 = 2 /\ 2 .. 1 = {}
  OBVIOUS
<1>5. Disjunction(Conditions(1, or, h)) <=> h[1]
  BY <1>3, <1>4
<1>6. ASSUME ~or[2] PROVE Disjunction(Conditions(2, or, h)) <=> h[1] /\ h[2]
  BY <1>3, <1>4, <1>6
<1> QED
  BY <1>2, <1>5, <1>6

\* The rows they mean.
LEMMA FindersMean ==
  ASSUME NEW id, id # NULL, NEW soft \in BOOLEAN, NEW row
  PROVE  /\ Meant(Scoped(soft), row) <=> (soft => row["deleted_at"] = NULL)
         /\ Meant(One(soft, id), row) <=> (row["id"] = id /\ (soft => row["deleted_at"] = NULL))
<1>1. /\ Holds(row["deleted_at"], "is null", <<>>) <=> row["deleted_at"] = NULL
      /\ Holds(row["id"], "=", <<id>>) <=> row["id"] = id
  BY DEF Holds
<1>2. /\ NotDeleted.col = "deleted_at" /\ OpOf(NotDeleted) = "is null" /\ NotDeleted.vals = <<>>
      /\ WithId(id).col = "id" /\ OpOf(WithId(id)) = "=" /\ WithId(id).vals = <<id>>
      /\ WithId(id).name # "OrWhere"
  BY DEF OpOf, NotDeleted, WithId
<1> DEFINE holds(c) == Holds(row[c.col], OpOf(c), c.vals)
<1>3. (holds(NotDeleted) <=> row["deleted_at"] = NULL) /\ (holds(WithId(id)) <=> row["id"] = id)
  BY <1>1, <1>2
<1>4. ASSUME NEW calls, NEW n \in Nat, DOMAIN calls = 1 .. n
      PROVE  /\ n = 0 => Meant(calls, row)
             /\ n = 1 => (Meant(calls, row) <=> holds(calls[1]))
             /\ n = 2 /\ calls[2].name # "OrWhere" => (Meant(calls, row) <=> holds(calls[1]) /\ holds(calls[2]))
  <2> DEFINE q == Ors(calls, n)
             h == Held(calls, n, row)
  <2>1. Meant(calls, row) = Disjunction(Conditions(n, q, h))
    BY <1>4, MeantIs
  <2>2. \A i \in 1 .. n : q[i] = (calls[i].name = "OrWhere") /\ h[i] = holds(calls[i])
    BY DEF Ors, Held
  <2> HIDE DEF q, h, holds
  <2>3. CASE n = 0
    BY <2>1, <2>3, FewConditions
  <2>4. CASE n = 1
    BY <2>1, <2>2, <2>4, FewConditions
  <2>5. CASE n = 2
    <3>1. q[2] = (calls[2].name = "OrWhere") /\ h[1] = holds(calls[1]) /\ h[2] = holds(calls[2])
      BY <2>2, <2>5
    <3>2. ~q[2] => (Disjunction(Conditions(2, q, h)) <=> h[1] /\ h[2])
      BY FewConditions
    <3>3. ASSUME calls[2].name # "OrWhere"
          PROVE  Meant(calls, row) <=> holds(calls[1]) /\ holds(calls[2])
      <4>1. ~q[2]
        BY <3>1, <3>3
      <4>2. Disjunction(Conditions(2, q, h)) <=> h[1] /\ h[2]
        BY <3>2, <4>1
      <4> QED
        BY <2>1, <2>5, <3>1, <4>2
    <3> QED
      BY <2>5, <3>3
  <2> QED
    BY <2>3, <2>4, <2>5
<1> HIDE DEF holds
<1>5. CASE soft
  <2>1. /\ DOMAIN Scoped(soft) = 1 .. 1 /\ Scoped(soft)[1] = NotDeleted
        /\ DOMAIN One(soft, id) = 1 .. 2 /\ One(soft, id)[1] = NotDeleted /\ One(soft, id)[2] = WithId(id)
    BY <1>5 DEF Scoped, One
  <2>2. Meant(Scoped(soft), row) <=> holds(NotDeleted)
    BY <1>4, <2>1
  <2>3. Meant(One(soft, id), row) <=> (holds(NotDeleted) /\ holds(WithId(id)))
    BY <1>2, <1>4, <2>1
  <2> QED
    BY <1>3, <1>5, <2>2, <2>3
<1>6. CASE ~soft
  <2>1. /\ DOMAIN Scoped(soft) = 1 .. 0
        /\ DOMAIN One(soft, id) = 1 .. 1 /\ One(soft, id)[1] = WithId(id)
    BY <1>6 DEF Scoped, One
  <2>2. Meant(Scoped(soft), row)
    BY <1>4, <2>1
  <2>3. Meant(One(soft, id), row) <=> holds(WithId(id))
    BY <1>4, <2>1
  <2> QED
    BY <1>3, <1>6, <2>2, <2>3
<1> QED
  BY <1>5, <1>6

\* What a deletion must leave: no row with the ID that a finder looks at.
Gone(rows, soft, id) ==
  \A i \in 1 .. Len(rows) : rows[i]["id"] = id => soft /\ rows[i]["deleted_at"] # NULL
Others(rows, id) == Keep(rows, {row \in ToSet(rows) : row["id"] # id})
Rename == <<[col |-> "v", val |-> 9]>>
Columns == {"id", "v", "deleted_at"}

Deletes(driver, soft, table, id, E) ==
  LET rows == DeleteRecord(driver, soft, table, id, 9).table
  IN /\ rows \in Seq(E) /\ Gone(rows, soft, id) /\ Others(rows, id) = Others(table, id)
     /\ soft => Len(rows) = Len(table)
Unseen(driver, soft, rows, id) ==
  /\ Find(driver, soft, rows, id) = <<>>
  /\ \A i \in DOMAIN All(driver, soft, rows) : All(driver, soft, rows)[i]["id"] # id
  /\ UpdateRecord(driver, soft, rows, id, Rename).table = rows

\* What is gone is not found, not listed and not changed.
LEMMA GoneIsNotFound ==
  ASSUME NEW C, Columns \subseteq C, NEW V, 9 \in V, NEW id \in V, id # NULL,
         NEW soft \in BOOLEAN, NEW driver, ~Numbered(driver),
         NEW rows \in Seq([C -> V]), Gone(rows, soft, id)
  PROVE  Unseen(driver, soft, rows, id)
<1>1. /\ Scoped(soft) \in Seq(Called(C, FinderOps, V)) /\ One(soft, id) \in Seq(Called(C, FinderOps, V))
      /\ Scope(driver, soft) = Chain(driver, Scoped(soft))
      /\ ById(Scope(driver, soft), id) = Chain(driver, One(soft, id))
  BY FinderCalls, FindersAreChains DEF Columns
<1> DEFINE all == Scoped(soft)
           one == One(soft, id)
<1>2. ASSUME NEW i \in 1 .. Len(rows) PROVE ~Meant(one, rows[i])
  BY FindersMean DEF Gone
<1>3. ASSUME NEW row \in ToSet(rows), Meant(all, row) PROVE row["id"] # id
  <2>1. PICK i \in 1 .. Len(rows) : rows[i] = row
    BY LenProperties DEF ToSet
  <2>2. soft => row["deleted_at"] = NULL
    BY <1>3, FindersMean
  <2> QED
    BY <2>1, <2>2 DEF Gone
<1> HIDE DEF all, one
<1>4. MeantOf(one, rows) = {}
  <2>1. \A row \in ToSet(rows) : \E i \in 1 .. Len(rows) : rows[i] = row
    BY LenProperties DEF ToSet
  <2> QED
    BY <1>2, <2>1 DEF MeantOf
<1>5. Find(driver, soft, rows, id) = <<>>
  <2> DEFINE meant == Keep(rows, MeantOf(one, rows))
  <2>1. SelectSound(driver, one, rows)
    BY <1>1, EveryChainFindsItsRows DEF one
  <2>2. First(Chain(driver, one), rows) = SubSeq(meant, 1, Min({1, Len(meant)}))
    BY <2>1 DEF SelectSound
  <2>3. meant = <<>> /\ Len(meant) = 0
    <3>1. meant \in Seq({})
      BY <1>4, KeepType
    <3> HIDE DEF meant
    <3> QED
      BY <3>1, EmptySeq
  <2> HIDE DEF meant
  <2>4. Min({1, Len(meant)}) = 0
    <3>1. {1, Len(meant)} \in SUBSET Nat /\ {1, Len(meant)} # {} /\ 0 \in {1, Len(meant)}
      BY <2>3
    <3>2. Min({1, Len(meant)}) \in {1, Len(meant)} /\ Min({1, Len(meant)}) <= 0
      BY <3>1, MinIs
    <3> QED
      BY <2>3, <3>2
  <2>5. SubSeq(<<>>, 1, 0) = <<>>
    OBVIOUS
  <2> QED
    BY <1>1, <2>2, <2>3, <2>4, <2>5 DEF Find, one
<1>6. ASSUME NEW i \in DOMAIN All(driver, soft, rows) PROVE All(driver, soft, rows)[i]["id"] # id
  <2> DEFINE meant == Keep(rows, MeantOf(all, rows))
  <2>1. SelectSound(driver, all, rows)
    BY <1>1, EveryChainFindsItsRows DEF all
  <2>2. All(driver, soft, rows) = meant
    BY <1>1, <2>1 DEF SelectSound, All, all
  <2>3. meant \in Seq(MeantOf(all, rows))
    BY KeepType
  <2> HIDE DEF meant
  <2>4. meant[i] \in MeantOf(all, rows)
    BY <1>6, <2>2, <2>3, ElementOfSeq, LenProperties
  <2> QED
    BY <1>3, <2>2, <2>4 DEF MeantOf
<1>7. UpdateRecord(driver, soft, rows, id, Rename).table = rows
  <2>1. Rename \in Seq(Pairs(C, V))
    <3>1. [col |-> "v", val |-> 9] \in Pairs(C, V)
      BY DEF Pairs, Columns
    <3> QED
      BY <3>1 DEF Rename
  <2>2. UpdateSound(driver, one, rows, Rename)
    BY <1>1, <2>1, EveryUpdateMeansItsChain DEF one
  <2>3. UpdateModel(Chain(driver, one), rows, Rename).table
          = [i \in DOMAIN rows |-> IF Meant(one, rows[i]) THEN Assign(rows[i], Rename) ELSE rows[i]]
    BY <2>2 DEF UpdateSound
  <2>4. DOMAIN rows = 1 .. Len(rows) /\ rows = [i \in DOMAIN rows |-> rows[i]]
    BY LenProperties
  <2>5. [i \in DOMAIN rows |-> IF Meant(one, rows[i]) THEN Assign(rows[i], Rename) ELSE rows[i]] = rows
    BY <1>2, <2>4, Zenon
  <2> QED
    BY <1>1, <2>3, <2>5 DEF UpdateRecord, one
<1> QED
  BY <1>5, <1>6, <1>7 DEF Unseen

\* A hard deletion leaves the other rows.
LEMMA HardDelete ==
  ASSUME NEW C, Columns \subseteq C, NEW V, NEW id \in V, id # NULL, NEW driver,
         NEW table \in Seq([C -> V])
  PROVE  Deletes(driver, FALSE, table, id, [C -> V])
<1> DEFINE rows == DeleteRecord(driver, FALSE, table, id, 9).table
           one == One(FALSE, id)
           R == {row \in ToSet(table) : row["id"] # id}
<1>1. /\ one \in Seq(Called(C, FinderOps, V))
      /\ ById(Scope(driver, FALSE), id) = Chain(driver, one)
  BY FinderCalls, FindersAreChains DEF Columns
<1>2. Found(whereSQL(Chain(driver, one)), Chain(driver, one).bindings, 0, table) = MeantOf(one, table)
  <2> HIDE DEF one
  <2> QED
    BY <1>1, FoundAreMeant
<1>3. MeantOf(one, table) = {row \in ToSet(table) : row["id"] = id}
  <2>1. \A row : Meant(one, row) <=> row["id"] = id
    BY FindersMean
  <2> HIDE DEF one
  <2> QED
    BY <2>1 DEF MeantOf
<1>4. ToSet(table) \ MeantOf(one, table) = R
  BY <1>3
<1>5. ById(New(driver), id) = Chain(driver, one)
  BY <1>1 DEF Scope
<1> HIDE DEF one
<1>6. rows = Keep(table, R)
  BY <1>2, <1>4, <1>5 DEF DeleteRecord, DeleteModel, Wrote
<1> HIDE DEF rows
<1>7. rows \in Seq(R) /\ rows \in Seq([C -> V])
  BY <1>6, KeepType
<1>8. Len(rows) \in Nat /\ \A i \in 1 .. Len(rows) : rows[i] \in R
  BY <1>7, ElementOfSeq, LenProperties
<1>9. Gone(rows, FALSE, id)
  BY <1>8 DEF Gone
<1>10. Others(rows, id) = Keep(rows, R)
  <2> DEFINE S == {row \in ToSet(rows) : row["id"] # id}
  <2>1. \A i \in 1 .. Len(rows) : rows[i] \in S
    BY <1>7, <1>8, LenProperties DEF ToSet
  <2> HIDE DEF R, S
  <2>2. Keep(rows, S) = Keep(rows, R)
    BY <1>7, <1>8, <2>1, KeepSame
  <2> QED
    BY <2>2 DEF Others, S
<1>11. Keep(rows, R) = Keep(table, R)
  <2> HIDE DEF R
  <2> QED
    BY <1>6, KeepKeep
<1>12. Others(table, id) = Keep(table, R)
  BY DEF Others
<1> QED
  BY <1>7, <1>9, <1>10, <1>11, <1>12 DEF rows, Deletes

\* A soft deletion marks its row.
LEMMA SoftDelete ==
  ASSUME NEW C, Columns \subseteq C, NEW V, 9 \in V, NEW id \in V, id # NULL,
         NEW driver, ~Numbered(driver), NEW table \in Seq([C -> V])
  PROVE  Deletes(driver, TRUE, table, id, [C -> V])
<1> DEFINE rows == DeleteRecord(driver, TRUE, table, id, 9).table
           one == One(FALSE, id)
           now == [col |-> "deleted_at", val |-> 9]
           n == Len(table)
<1>1. /\ one \in Seq(Called(C, FinderOps, V))
      /\ ById(Scope(driver, FALSE), id) = Chain(driver, one)
  BY FinderCalls, FindersAreChains DEF Columns
<1>2. ById(New(driver), id) = Chain(driver, one)
  BY <1>1 DEF Scope
<1>3. \A row : Meant(one, row) <=> row["id"] = id
  BY FindersMean
<1>4. <<now>> \in Seq(Pairs(C, V))
  <2>1. now \in Pairs(C, V)
    BY DEF Pairs, Columns
  <2> HIDE DEF now
  <2> QED
    BY <2>1
<1> HIDE DEF one
<1>5. UpdateSound(driver, one, table, <<now>>)
  BY <1>1, <1>4, EveryUpdateMeansItsChain
<1>6. n \in Nat /\ DOMAIN table = 1 .. n /\ \A i \in 1 .. n : table[i] \in [C -> V]
  BY LenProperties, ElementOfSeq
<1>7. rows = [i \in 1 .. n |-> IF table[i]["id"] = id THEN Assign(table[i], <<now>>) ELSE table[i]]
  <2>1. UpdateModel(Chain(driver, one), table, <<now>>).table
          = [i \in DOMAIN table |-> IF Meant(one, table[i]) THEN Assign(table[i], <<now>>) ELSE table[i]]
    BY <1>5 DEF UpdateSound
  <2>2. rows = UpdateModel(Chain(driver, one), table, <<now>>).table
    BY <1>2 DEF DeleteRecord
  <2> HIDE DEF rows, n, now
  <2> QED
    BY <1>3, <1>6, <2>1, <2>2
<1>8. ASSUME NEW row \in [C -> V]
      PROVE  /\ Assign(row, <<now>>) \in [C -> V]
             /\ Assign(row, <<now>>)["deleted_at"] = 9 /\ Assign(row, <<now>>)["id"] = row["id"]
  <2>1. DOMAIN <<now>> = {1} /\ <<now>>[1] = now
    OBVIOUS
  <2>2. (CHOOSE i \in {1} : now.col = "deleted_at") = 1
    OBVIOUS
  <2>3. Assign(row, <<now>>) = [col \in C |-> IF col = "deleted_at" THEN 9 ELSE row[col]]
    <3> DEFINE assigned(col) == IF \E i \in DOMAIN <<now>> : <<now>>[i].col = col
                               THEN <<now>>[CHOOSE i \in DOMAIN <<now>> : <<now>>[i].col = col].val
                               ELSE row[col]
    <3>1. Assign(row, <<now>>) = [col \in DOMAIN row |-> assigned(col)]
      BY DEF Assign
    <3>2. ASSUME NEW col \in C
          PROVE  assigned(col) = IF col = "deleted_at" THEN 9 ELSE row[col]
      <4>1. CASE col = "deleted_at"
        <5>1. (CHOOSE i \in DOMAIN <<now>> : <<now>>[i].col = col) \in DOMAIN <<now>>
          BY <2>1, <4>1
        <5> QED
          BY <2>1, <4>1, <5>1
      <4>2. CASE col # "deleted_at"
        BY <2>1, <4>2
      <4> QED
        BY <4>1, <4>2
    <3>3. DOMAIN row = C
      OBVIOUS
    <3> HIDE DEF assigned, now
    <3> QED
      BY <3>1, <3>2, <3>3
  <2>4. "deleted_at" \in C /\ "id" \in C
    BY DEF Columns
  <2> QED
    BY <2>3, <2>4
<1> HIDE DEF now, rows
<1>9. /\ rows \in [1 .. n -> [C -> V]]
      /\ \A i \in 1 .. n : /\ rows[i]["id"] = table[i]["id"]
                           /\ rows[i]["id"] = id => rows[i]["deleted_at"] = 9
                           /\ rows[i]["id"] # id => rows[i] = table[i]
  <2>1. ASSUME NEW i \in 1 .. n
        PROVE  /\ rows[i] \in [C -> V] /\ rows[i]["id"] = table[i]["id"]
               /\ rows[i]["id"] = id => rows[i]["deleted_at"] = 9
               /\ rows[i]["id"] # id => rows[i] = table[i]
    <3>1. table[i] \in [C -> V] /\ rows[i] = IF table[i]["id"] = id THEN Assign(table[i], <<now>>) ELSE table[i]
      BY <1>6, <1>7
    <3>2. CASE table[i]["id"] = id
      <4>1. rows[i] = Assign(table[i], <<now>>)
        BY <3>1, <3>2
      <4> QED
        BY <1>8, <3>1, <3>2, <4>1
    <3>3. CASE table[i]["id"] # id
      BY <3>1, <3>3
    <3> QED
      BY <3>2, <3>3
  <2>2. DOMAIN rows = 1 .. n /\ rows = [i \in 1 .. n |-> rows[i]]
    BY <1>7
  <2> QED
    BY <2>1, <2>2
<1>10. rows \in Seq([C -> V]) /\ Len(rows) = n
  BY <1>6, <1>9
<1>11. Gone(rows, TRUE, id)
  <2>1. 9 # NULL
    BY DEF NULL
  <2> QED
    BY <1>9, <1>10, <2>1 DEF Gone
<1>12. Others(rows, id) = Others(table, id)
  <2> DEFINE S == {row \in ToSet(rows) : row["id"] # id}
             R == {row \in ToSet(table) : row["id"] # id}
  <2>1. \A i \in 1 .. n : rows[i] \in ToSet(rows) /\ table[i] \in ToSet(table)
    BY <1>6, <1>9 DEF ToSet
  <2>2. \A i \in 1 .. n : (rows[i] \in S <=> table[i] \in R) /\ (rows[i] \in S => rows[i] = table[i])
    BY <1>9, <2>1
  <2> HIDE DEF S, R, n
  <2>3. Keep(rows, S) = Keep(table, R)
    BY <1>10, <2>2, KeepSame DEF n
  <2> QED
    BY <2>3 DEF Others, S, R
<1> QED
  BY <1>10, <1>11, <1>12 DEF rows, n, Deletes

\* After a record is deleted, softly or not, no finder returns it and no update changes it, and
\* every other row is what it was, whatever the table, on every driver whose placeholders carry
\* no number.
THEOREM DeletedRecordsAreGone ==
  ASSUME NEW C, Columns \subseteq C, NEW V, 9 \in V, NEW id \in V, id # NULL,
         NEW soft \in BOOLEAN, NEW driver, ~Numbered(driver), NEW table \in Seq([C -> V])
  PROVE  RecordSound(driver, soft, table, id)
<1> DEFINE rows == DeleteRecord(driver, soft, table, id, 9).table
<1>1. Deletes(driver, soft, table, id, [C -> V])
  <2>1. CASE soft = TRUE
    <3>1. Deletes(driver, TRUE, table, id, [C -> V])
      BY SoftDelete
    <3> QED
      BY <2>1, <3>1
  <2>2. CASE soft = FALSE
    <3>1. Deletes(driver, FALSE, table, id, [C -> V])
      BY HardDelete
    <3> QED
      BY <2>2, <3>1
  <2> QED
    BY <2>1, <2>2
<1>2. /\ rows \in Seq([C -> V]) /\ Gone(rows, soft, id) /\ Others(rows, id) = Others(table, id)
      /\ soft => Len(rows) = Len(table)
  BY <1>1 DEF Deletes
<1> HIDE DEF rows
<1>3. Unseen(driver, soft, rows, id)
  BY <1>2, GoneIsNotFound
<1> QED
  BY <1>2, <1>3 DEF RecordSound, rows, Others, Unseen, Rename
=============================================================================
