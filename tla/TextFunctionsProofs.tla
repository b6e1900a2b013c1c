------------------------- MODULE TextFunctionsProofs -------------------------
(***************************************************************************)
(* What holds of the functions on texts for texts of every length.         *)
(***************************************************************************)
EXTENDS TextFunctions, SequenceTheorems, FiniteSetTheorems, WellFoundedInduction, TLAPS

-----------------------------------------------------------------------------
(* Least elements.                                                         *)

Smaller == {p \in Nat \X Nat : p[1] < p[2]}

\* The natural numbers are well-ordered.
LEMMA LeastNumber ==
    ASSUME NEW S \in SUBSET Nat, S # {}
    PROVE  \E x \in S : \A y \in S : x <= y
<1>1. Smaller = OpToRel(<, Nat)
  BY DEF Smaller, OpToRel
<1>2. IsWellFoundedOn(Smaller, Nat)
  BY <1>1, NatLessThanWellFounded, Zenon
<1>3. PICK x \in S : \A y \in S : <<y, x>> \notin Smaller
  BY <1>2, WFMin, Zenon
<1>4. ASSUME NEW y \in S PROVE x <= y
  <2>1. x \in Nat /\ y \in Nat
    OBVIOUS
  <2>2. ~(y < x)
    BY <1>3, <2>1 DEF Smaller
  <2> QED
    BY <2>1, <2>2
<1> QED
  BY <1>4

\* Min is the least element.
LEMMA MinNumber ==
    ASSUME NEW S \in SUBSET Nat, S # {}
    PROVE  Min(S) \in S /\ \A y \in S : Min(S) <= y
BY LeastNumber DEF Min

\* The smaller of two numbers.
LEMMA MinOfTwo ==
    ASSUME NEW a \in Nat, NEW b \in Nat
    PROVE  Min({a, b}) = IF a <= b THEN a ELSE b
<1>1. Min({a, b}) \in {a, b} /\ \A y \in {a, b} : Min({a, b}) <= y
  BY MinNumber
<1> QED
  BY <1>1

-----------------------------------------------------------------------------
(* Comparison.                                                             *)

\* s and t agree, but for the case, in their first n places.
Agree(s, t, n) == \A i \in 1 .. n : Upper(s[i]) = Upper(t[i])

\* Upper of a character is a number.
LEMMA UpperNumber == \A s \in Seq(Int) : \A i \in 1 .. Len(s) : Upper(s[i]) \in Int
<1> TAKE s \in Seq(Int)
<1> TAKE i \in 1 .. Len(s)
<1>1. s[i] \in Int
  OBVIOUS
<1> QED
  BY <1>1 DEF Upper

\* The loop of string_compare_ci stops at the first difference.
LEMMA FirstDifference ==
    ASSUME NEW s \in Seq(Int), NEW t \in Seq(Int)
    PROVE  LET d == Difference(s, t)
           IN  \/ /\ d = 0
                  /\ \A i \in 1 .. Len(s) : i <= Len(t) => Upper(s[i]) = Upper(t[i])
               \/ /\ d \in 1 .. Len(s) /\ d \in 1 .. Len(t)
                  /\ Upper(s[d]) # Upper(t[d])
                  /\ Agree(s, t, d - 1)
<1> DEFINE m == Min({Len(s), Len(t)})
           D == {i \in 1 .. m : Upper(s[i]) # Upper(t[i])}
           d == Difference(s, t)
<1>1. Len(s) \in Nat /\ Len(t) \in Nat
  OBVIOUS
<1>2. m = IF Len(s) <= Len(t) THEN Len(s) ELSE Len(t)
  BY <1>1, MinOfTwo
<1> HIDE DEF m
<1>3. m \in Nat /\ m <= Len(s) /\ m <= Len(t) /\ \A i \in 1 .. Len(s) : i <= Len(t) => i \in 1 .. m
  BY <1>1, <1>2
<1>4. d = IF D = {} THEN 0 ELSE Min(D)
  BY DEF Difference, m
<1> HIDE DEF d
<1>5. CASE D = {}
  BY <1>3, <1>4, <1>5 DEF d
<1>6. CASE D # {}
  <2>1. D \in SUBSET Nat
    BY <1>3
  <2>2. d \in D /\ \A y \in D : d <= y
    <3> HIDE DEF D
    <3> QED
      BY <1>4, <1>6, <2>1, MinNumber
  <2>3. d \in 1 .. m /\ Upper(s[d]) # Upper(t[d])
    BY <2>2
  <2>4. ASSUME NEW i \in 1 .. d - 1 PROVE Upper(s[i]) = Upper(t[i])
    <3>1. i \in 1 .. m /\ i < d
      BY <1>3, <2>3
    <3>2. i \notin D
      BY <1>3, <2>2, <2>3, <3>1
    <3> QED
      BY <3>1, <3>2
  <2> QED
    BY <1>1, <1>3, <2>3, <2>4 DEF d, Agree
<1> QED
  BY <1>5, <1>6

\* What string_compare_less_ci needs to be told.
LEMMA LessBy ==
    ASSUME NEW s \in Seq(Int), NEW t \in Seq(Int), NEW n \in 0 .. Len(s),
           Agree(s, t, n), n < Len(t),
           n = Len(s) \/ Upper(s[n + 1]) < Upper(t[n + 1])
    PROVE  string_compare_less_ci(s, t)
<1>1. Len(s) \in Nat /\ Len(t) \in Nat
  OBVIOUS
<1>2. \A j \in 1 .. n : j <= Len(t) /\ Upper(s[j]) = Upper(t[j])
  BY <1>1 DEF Agree
<1> QED
  BY <1>1, <1>2 DEF string_compare_less_ci

\* What string_compare_less_ci tells.
LEMMA LessGives ==
    ASSUME NEW s \in Seq(Int), NEW t \in Seq(Int), string_compare_less_ci(s, t)
    PROVE  \E n \in 0 .. Len(s) :
               /\ n \in Nat /\ n <= Len(s) /\ n < Len(t)
               /\ Agree(s, t, n)
               /\ n = Len(s) \/ Upper(s[n + 1]) < Upper(t[n + 1])
<1>1. Len(s) \in Nat /\ Len(t) \in Nat
  OBVIOUS
<1> QED
  BY <1>1 DEF string_compare_less_ci, Agree

\* A text that is less does not end first, or agree, or is greater.
LEMMA LessExcludes ==
    ASSUME NEW s \in Seq(Int), NEW t \in Seq(Int), string_compare_less_ci(s, t)
    PROVE  ~string_compare_less_ci(t, s) /\ ~string_equals_ci(s, t)
<1>1. Len(s) \in Nat /\ Len(t) \in Nat
  OBVIOUS
<1>2. \A i \in 1 .. Len(s) : Upper(s[i]) \in Int
  BY UpperNumber
<1>3. \A i \in 1 .. Len(t) : Upper(t[i]) \in Int
  BY UpperNumber
<1>4. PICK n \in 0 .. Len(s) :
          /\ n \in Nat /\ n <= Len(s) /\ n < Len(t)
          /\ Agree(s, t, n)
          /\ n = Len(s) \/ Upper(s[n + 1]) < Upper(t[n + 1])
  BY LessGives
<1>5. ASSUME string_equals_ci(s, t) PROVE FALSE
  <2>1. n + 1 \in 1 .. Len(s)
    BY <1>1, <1>4, <1>5 DEF string_equals_ci
  <2>2. Upper(s[n + 1]) = Upper(t[n + 1])
    BY <1>5, <2>1 DEF string_equals_ci
  <2>3. Upper(s[n + 1]) \in Int
    BY <1>2, <2>1
  <2> QED
    BY <1>1, <1>4, <2>1, <2>2, <2>3
<1>6. ASSUME string_compare_less_ci(t, s) PROVE FALSE
  <2>1. PICK k \in 0 .. Len(t) :
            /\ k \in Nat /\ k <= Len(t) /\ k < Len(s)
            /\ Agree(t, s, k)
            /\ k = Len(t) \/ Upper(t[k + 1]) < Upper(s[k + 1])
    BY <1>6, LessGives
  <2>2. CASE k < n
    <3>1. k + 1 \in 1 .. n /\ k + 1 \in 1 .. Len(s) /\ k # Len(t)
      BY <1>1, <1>4, <2>1, <2>2
    <3>2. Upper(s[k + 1]) = Upper(t[k + 1]) /\ Upper(s[k + 1]) \in Int
      BY <1>2, <1>4, <3>1 DEF Agree
    <3> QED
      BY <2>1, <3>1, <3>2
  <2>3. CASE n < k
    <3>1. n + 1 \in 1 .. k /\ n + 1 \in 1 .. Len(s) /\ n # Len(s)
      BY <1>1, <1>4, <2>1, <2>3
    <3>2. Upper(s[n + 1]) = Upper(t[n + 1]) /\ Upper(s[n + 1]) \in Int
      BY <1>2, <2>1, <3>1 DEF Agree
    <3> QED
      BY <1>4, <3>1, <3>2
  <2>4. CASE n = k
    <3>1. n + 1 \in 1 .. Len(s) /\ n + 1 \in 1 .. Len(t)
      BY <1>1, <1>4, <2>1, <2>4
    <3>2. Upper(s[n + 1]) \in Int /\ Upper(t[n + 1]) \in Int
      BY <1>2, <1>3, <3>1
    <3> QED
      BY <1>1, <1>4, <2>1, <2>4, <3>2
  <2> QED
    BY <1>4, <2>1, <2>2, <2>3, <2>4
<1> QED
  BY <1>5, <1>6

\* string_compare_ci tells the three cases apart.
LEMMA CompareCases ==
    ASSUME NEW s \in Seq(Int), NEW t \in Seq(Int)
    PROVE  /\ string_compare_ci(s, t) \in {-1, 0, 1}
           /\ string_compare_ci(s, t) = -1 <=> string_compare_less_ci(s, t)
           /\ string_compare_ci(s, t) = 1 <=> string_compare_less_ci(t, s)
           /\ string_compare_ci(s, t) = 0 <=> string_equals_ci(s, t)
<1> DEFINE d == Difference(s, t)
           c == string_compare_ci(s, t)
<1>1. Len(s) \in Nat /\ Len(t) \in Nat
  OBVIOUS
<1>2. \A i \in 1 .. Len(s) : Upper(s[i]) \in Int
  BY UpperNumber
<1>3. \A i \in 1 .. Len(t) : Upper(t[i]) \in Int
  BY UpperNumber
<1>4. c = IF d = 0 THEN Sign(Len(s), Len(t)) ELSE Sign(Upper(s[d]), Upper(t[d]))
  BY DEF string_compare_ci
<1>5. string_equals_ci(t, s) <=> string_equals_ci(s, t)
  BY DEF string_equals_ci
<1>6. \/ c = -1 /\ string_compare_less_ci(s, t)
      \/ c = 1 /\ string_compare_less_ci(t, s)
      \/ c = 0 /\ string_equals_ci(s, t)
  <2>1. CASE /\ d = 0
             /\ \A i \in 1 .. Len(s) : i <= Len(t) => Upper(s[i]) = Upper(t[i])
    <3> HIDE DEF d, c
    <3>1. c = Sign(Len(s), Len(t))
      BY <1>4, <2>1
    <3>2. CASE Len(s) < Len(t)
      <4>1. Agree(s, t, Len(s))
        BY <1>1, <2>1, <3>2 DEF Agree
      <4>2. string_compare_less_ci(s, t)
        BY <1>1, <3>2, <4>1, LessBy
      <4> QED
        BY <1>1, <3>1, <3>2, <4>2 DEF Sign
    <3>3. CASE Len(t) < Len(s)
      <4>1. Agree(t, s, Len(t))
        BY <1>1, <2>1, <3>3 DEF Agree
      <4>2. string_compare_less_ci(t, s)
        BY <1>1, <3>3, <4>1, LessBy
      <4> QED
        BY <1>1, <3>1, <3>3, <4>2 DEF Sign
    <3>4. CASE Len(s) = Len(t)
      BY <1>1, <2>1, <3>1, <3>4 DEF Sign, string_equals_ci
    <3> QED
      BY <1>1, <3>2, <3>3, <3>4
  <2>2. CASE /\ d \in 1 .. Len(s) /\ d \in 1 .. Len(t)
             /\ Upper(s[d]) # Upper(t[d])
             /\ Agree(s, t, d - 1)
    <3> HIDE DEF d, c
    <3>1. c = Sign(Upper(s[d]), Upper(t[d]))
      BY <1>1, <1>4, <2>2
    <3> DEFINE n == d - 1
    <3>2. n \in 0 .. Len(s) /\ n \in 0 .. Len(t) /\ n < Len(s) /\ n < Len(t) /\ n + 1 = d
      BY <1>1, <2>2
    <3>3. Agree(s, t, n) /\ Agree(t, s, n)
      BY <2>2 DEF Agree
    <3>4. Upper(s[d]) \in Int /\ Upper(t[d]) \in Int
      BY <1>2, <1>3, <2>2
    <3> HIDE DEF n
    <3>5. CASE Upper(s[d]) < Upper(t[d])
      <4>1. string_compare_less_ci(s, t)
        BY <3>2, <3>3, <3>5, LessBy
      <4> QED
        BY <3>1, <3>5, <4>1 DEF Sign
    <3>6. CASE Upper(t[d]) < Upper(s[d])
      <4>1. string_compare_less_ci(t, s)
        BY <3>2, <3>3, <3>6, LessBy
      <4> QED
        BY <3>1, <3>4, <3>6, <4>1 DEF Sign
    <3> QED
      BY <2>2, <3>4, <3>5, <3>6
  <2> QED
    BY <2>1, <2>2, FirstDifference
<1> HIDE DEF c
<1>7. string_compare_less_ci(s, t) => ~string_compare_less_ci(t, s) /\ ~string_equals_ci(s, t)
  BY LessExcludes
<1>8. string_compare_less_ci(t, s) => ~string_equals_ci(s, t)
  BY <1>5, LessExcludes
<1>9. /\ c \in {-1, 0, 1}
      /\ c = -1 <=> string_compare_less_ci(s, t)
      /\ c = 1 <=> string_compare_less_ci(t, s)
      /\ c = 0 <=> string_equals_ci(s, t)
  BY <1>6, <1>7, <1>8
<1> QED
  BY <1>9 DEF c

\* The order is transitive.
LEMMA LessTransitive ==
    ASSUME NEW s \in Seq(Int), NEW t \in Seq(Int), NEW u \in Seq(Int),
           string_compare_less_ci(s, t) \/ string_equals_ci(s, t),
           string_compare_less_ci(t, u) \/ string_equals_ci(t, u)
    PROVE  string_compare_less_ci(s, u) \/ string_equals_ci(s, u)
<1>1. Len(s) \in Nat /\ Len(t) \in Nat /\ Len(u) \in Nat
  OBVIOUS
<1>2. \A i \in 1 .. Len(s) : Upper(s[i]) \in Int
  BY UpperNumber
<1>3. \A i \in 1 .. Len(t) : Upper(t[i]) \in Int
  BY UpperNumber
<1>4. \A i \in 1 .. Len(u) : Upper(u[i]) \in Int
  BY UpperNumber
<1>5. CASE string_equals_ci(s, t) /\ string_equals_ci(t, u)
  BY <1>5 DEF string_equals_ci
<1>6. CASE string_compare_less_ci(s, t) /\ string_equals_ci(t, u)
  <2>1. PICK n \in 0 .. Len(s) :
            /\ n \in Nat /\ n <= Len(s) /\ n < Len(t)
            /\ Agree(s, t, n)
            /\ n = Len(s) \/ Upper(s[n + 1]) < Upper(t[n + 1])
    BY <1>6, LessGives
  <2>2. Len(u) = Len(t) /\ \A i \in 1 .. Len(t) : Upper(t[i]) = Upper(u[i])
    BY <1>6 DEF string_equals_ci
  <2>3. n + 1 \in 1 .. Len(t) /\ \A i \in 1 .. n : i \in 1 .. Len(t)
    BY <1>1, <2>1
  <2>4. Agree(s, u, n)
    BY <2>1, <2>2, <2>3 DEF Agree
  <2>5. n < Len(u) /\ (n = Len(s) \/ Upper(s[n + 1]) < Upper(u[n + 1]))
    BY <2>1, <2>2, <2>3
  <2> QED
    BY <2>4, <2>5, LessBy
<1>7. CASE string_equals_ci(s, t) /\ string_compare_less_ci(t, u)
  <2>1. PICK n \in 0 .. Len(t) :
            /\ n \in Nat /\ n <= Len(t) /\ n < Len(u)
            /\ Agree(t, u, n)
            /\ n = Len(t) \/ Upper(t[n + 1]) < Upper(u[n + 1])
    BY <1>7, LessGives
  <2>2. Len(s) = Len(t) /\ \A i \in 1 .. Len(s) : Upper(s[i]) = Upper(t[i])
    BY <1>7 DEF string_equals_ci
  <2>3. n \in 0 .. Len(s) /\ \A i \in 1 .. n : i \in 1 .. Len(s)
    BY <1>1, <2>1, <2>2
  <2>4. Agree(s, u, n)
    BY <2>1, <2>2, <2>3 DEF Agree
  <2>5. n = Len(s) \/ n + 1 \in 1 .. Len(s)
    BY <1>1, <2>3
  <2>6. n = Len(s) \/ Upper(s[n + 1]) < Upper(u[n + 1])
    BY <2>1, <2>2, <2>5
  <2> QED
    BY <2>1, <2>3, <2>4, <2>6, LessBy
<1>8. CASE string_compare_less_ci(s, t) /\ string_compare_less_ci(t, u)
  <2>1. PICK n \in 0 .. Len(s) :
            /\ n \in Nat /\ n <= Len(s) /\ n < Len(t)
            /\ Agree(s, t, n)
            /\ n = Len(s) \/ Upper(s[n + 1]) < Upper(t[n + 1])
    BY <1>8, LessGives
  <2>2. PICK k \in 0 .. Len(t) :
            /\ k \in Nat /\ k <= Len(t) /\ k < Len(u)
            /\ Agree(t, u, k)
            /\ k = Len(t) \/ Upper(t[k + 1]) < Upper(u[k + 1])
    BY <1>8, LessGives
  <2>3. CASE n < k
    <3>1. n + 1 \in 1 .. k /\ n < Len(u) /\ \A i \in 1 .. n : i \in 1 .. k
      BY <1>1, <2>1, <2>2, <2>3
    <3>2. Agree(s, u, n) /\ Upper(t[n + 1]) = Upper(u[n + 1])
      BY <2>1, <2>2, <3>1 DEF Agree
    <3>3. n = Len(s) \/ Upper(s[n + 1]) < Upper(u[n + 1])
      BY <2>1, <3>2
    <3> QED
      BY <3>1, <3>2, <3>3, LessBy
  <2>4. CASE k < n
    <3>1. /\ k + 1 \in 1 .. n /\ k \in 0 .. Len(s) /\ k # Len(t)
          /\ \A i \in 1 .. k : i \in 1 .. n
      <4>1. /\ n \in Nat /\ k \in Nat /\ k < n /\ n <= Len(s) /\ n < Len(t)
            /\ Len(s) \in Nat /\ Len(t) \in Nat
        BY <1>1, <2>1, <2>2, <2>4
      <4> QED
        BY <4>1
    <3>2. Agree(s, u, k) /\ Upper(s[k + 1]) = Upper(t[k + 1])
      BY <2>1, <2>2, <3>1 DEF Agree
    <3>3. Upper(s[k + 1]) < Upper(u[k + 1])
      BY <2>2, <3>1, <3>2
    <3> QED
      BY <2>2, <3>1, <3>2, <3>3, LessBy
  <2>5. CASE n = k
    <3>1. Agree(s, u, n) /\ n < Len(u) /\ k # Len(t)
      BY <1>1, <2>1, <2>2, <2>5 DEF Agree
    <3>2. n = Len(s) \/ Upper(s[n + 1]) < Upper(u[n + 1])
      <4>1. CASE n # Len(s)
        <5>1. n + 1 \in 1 .. Len(s) /\ n + 1 \in 1 .. Len(t) /\ n + 1 \in 1 .. Len(u)
          BY <1>1, <2>1, <3>1, <4>1
        <5>2. Upper(s[n + 1]) \in Int /\ Upper(t[n + 1]) \in Int /\ Upper(u[n + 1]) \in Int
          BY <1>2, <1>3, <1>4, <5>1
        <5> QED
          BY <2>1, <2>2, <2>5, <3>1, <4>1, <5>2
      <4> QED
        BY <4>1
    <3> QED
      BY <3>1, <3>2, LessBy
  <2> QED
    BY <2>1, <2>2, <2>3, <2>4, <2>5
<1> QED
  BY <1>5, <1>6, <1>7, <1>8

-----------------------------------------------------------------------------
(* Prefixes, suffixes and parts.                                           *)

\* A part of a sequence.
LEMMA PartOf ==
    ASSUME NEW S, NEW q \in Seq(S), NEW i \in 0 .. Len(q), NEW j \in 0 .. Len(q), i <= j
    PROVE  /\ SubSeq(q, i + 1, j) \in Seq(S)
           /\ Len(SubSeq(q, i + 1, j)) = j - i
           /\ \A k \in 1 .. j - i : SubSeq(q, i + 1, j)[k] = q[i + k]
<1>1. Len(q) \in Nat /\ i \in Int /\ j \in Int /\ i + 1 \in Int
  OBVIOUS
<1> DEFINE m == i + 1
<1>2. \A k \in m .. j : q[k] \in S
  BY <1>1
<1>3. m \in Int
  BY <1>1
<1>4. j - m + 1 = j - i /\ \A k \in 1 .. j - i : m + k - 1 = i + k
  BY <1>1
<1>5. m <= j <=> j - i > 0
  BY <1>1
<1> HIDE DEF m
<1>6. /\ SubSeq(q, m, j) \in Seq(S)
      /\ Len(SubSeq(q, m, j)) = IF m <= j THEN j - m + 1 ELSE 0
      /\ \A k \in 1 .. j - m + 1 : SubSeq(q, m, j)[k] = q[m + k - 1]
  BY <1>1, <1>2, <1>3, SubSeqProperties
<1>7. /\ SubSeq(q, m, j) \in Seq(S)
      /\ Len(SubSeq(q, m, j)) = j - i
      /\ \A k \in 1 .. j - i : SubSeq(q, m, j)[k] = q[i + k]
  BY <1>1, <1>4, <1>5, <1>6
<1> QED
  BY <1>7 DEF m

\* A text contains each of its parts.
LEMMA ContainsPart ==
    ASSUME NEW q \in Seq(Int), NEW i \in 0 .. Len(q), NEW j \in 0 .. Len(q), i < j
    PROVE  string_contains_ci(SubSeq(q, i + 1, j), q)
<1> DEFINE t == SubSeq(q, i + 1, j)
<1>1. Len(q) \in Nat /\ i \in Nat /\ j \in Nat /\ i <= j /\ j <= Len(q)
  OBVIOUS
<1>2. t \in Seq(Int) /\ Len(t) = j - i /\ \A k \in 1 .. j - i : t[k] = q[i + k]
  BY <1>1, PartOf
<1> HIDE DEF t
<1>3. t # <<>>
  BY <1>1, <1>2
<1>4. i \in 0 .. Len(q) - Len(t)
  BY <1>1, <1>2
<1>5. \A k \in 1 .. Len(t) : Upper(q[i + k]) = Upper(t[k])
  BY <1>2
<1>6. string_contains_ci(t, q)
  BY <1>3, <1>4, <1>5 DEF string_contains_ci
<1> QED
  BY <1>6 DEF t

\* Texts that are equal contain each other.
LEMMA ContainsEqual ==
    ASSUME NEW s \in Seq(Int), NEW t \in Seq(Int), string_equals_ci(s, t)
    PROVE  string_contains_ci(s, t)
<1>1. Len(s) \in Nat /\ Len(t) = Len(s)
  BY DEF string_equals_ci
<1>2. CASE s = <<>>
  BY <1>1, <1>2 DEF string_contains_ci
<1>3. CASE s # <<>>
  <2>1. 0 \in 0 .. Len(t) - Len(s)
    BY <1>1
  <2>2. \A i \in 1 .. Len(s) : 0 + i = i /\ Upper(t[i]) = Upper(s[i])
    BY <1>1 DEF string_equals_ci
  <2>3. \A i \in 1 .. Len(s) : Upper(t[0 + i]) = Upper(s[i])
    BY <2>2
  <2> QED
    BY <1>3, <2>1, <2>3 DEF string_contains_ci
<1> QED
  BY <1>2, <1>3

\* string_starts_with looks for a prefix.
LEMMA StartsWithPrefix ==
    ASSUME NEW s \in Seq(Int), NEW t \in Seq(Int)
    PROVE  string_starts_with(s, t) <=> IsPrefix(t, s)
<1> DEFINE n == Len(t)
<1>1. Len(s) \in Nat /\ n \in Nat
  OBVIOUS
<1>2. CASE n <= Len(s)
  <2> DEFINE p == SubSeq(t, 0 + 1, n)
             q == SubSeq(s, 0 + 1, n)
  <2>1. 0 \in 0 .. Len(t) /\ n \in 0 .. Len(t) /\ 0 \in 0 .. Len(s) /\ n \in 0 .. Len(s) /\ 0 <= n
    BY <1>1, <1>2
  <2>2. p \in Seq(Int) /\ Len(p) = n - 0 /\ \A k \in 1 .. n - 0 : p[k] = t[0 + k]
    BY <2>1, PartOf
  <2>3. q \in Seq(Int) /\ Len(q) = n - 0 /\ \A k \in 1 .. n - 0 : q[k] = s[0 + k]
    BY <2>1, PartOf
  <2>4. p = SubSeq(t, 1, n) /\ q = SubSeq(s, 1, n)
    OBVIOUS
  <2> HIDE DEF p, q
  <2>5. Len(p) = n /\ Len(q) = n /\ \A k \in 1 .. n : p[k] = t[k] /\ q[k] = s[k]
    BY <1>1, <2>2, <2>3
  <2>6. p = q <=> \A k \in 1 .. n : p[k] = q[k]
    BY <2>2, <2>3, <2>5, SeqEqual
  <2>7. p = q <=> \A k \in 1 .. n : s[k] = t[k]
    BY <2>5, <2>6
  <2> QED
    BY <1>2, <2>4, <2>7 DEF string_starts_with, IsPrefix
<1>3. CASE ~(n <= Len(s))
  BY <1>3 DEF string_starts_with, IsPrefix
<1> QED
  BY <1>2, <1>3

\* A prefix and a suffix are found.
LEMMA EndsFound ==
    ASSUME NEW q \in Seq(Int), NEW i \in 0 .. Len(q)
    PROVE  /\ string_starts_with(q, SubSeq(q, 0 + 1, i))
           /\ string_ends_with(q, SubSeq(q, i + 1, Len(q)))
<1> DEFINE s == SubSeq(q, 0 + 1, i)
           u == SubSeq(q, i + 1, Len(q))
<1>1. Len(q) \in Nat /\ i \in Nat /\ i <= Len(q) /\ 0 \in 0 .. Len(q) /\ Len(q) \in 0 .. Len(q) /\ 0 <= i
  OBVIOUS
<1>2. Len(s) = i - 0 /\ \A k \in 1 .. i - 0 : s[k] = q[0 + k]
  BY <1>1, PartOf
<1>3. Len(u) = Len(q) - i /\ \A k \in 1 .. Len(q) - i : u[k] = q[i + k]
  BY <1>1, PartOf
<1> HIDE DEF s, u
<1>4. string_starts_with(q, s)
  BY <1>1, <1>2 DEF string_starts_with
<1>5. Len(u) <= Len(q) /\ Len(q) - Len(u) = i
  BY <1>1, <1>3
<1>6. \A k \in 2 .. Len(u) : q[Len(q) - Len(u) + k] = u[k]
  BY <1>1, <1>3, <1>5
<1>7. string_ends_with(q, u)
  BY <1>5, <1>6 DEF string_ends_with
<1> QED
  BY <1>4, <1>7 DEF s, u

-----------------------------------------------------------------------------
(* Rows, and the pieces FlattenSeq puts together.                          *)

\* The equation that FlattenSeq's function solves, and so the one it takes.
LEMMA FlattenSolves ==
    ASSUME NEW seqs, Len(seqs) # 0,
           NEW f, f = [i \in 1 .. Len(seqs) |-> IF i = 1 THEN seqs[i] ELSE f[i - 1] \o seqs[i]]
    PROVE  \E g : /\ g = [i \in 1 .. Len(seqs) |-> IF i = 1 THEN seqs[i] ELSE g[i - 1] \o seqs[i]]
                  /\ FlattenSeq(seqs) = g[Len(seqs)]
<1> DEFINE g == CHOOSE g : g = [i \in 1 .. Len(seqs) |-> IF i = 1 THEN seqs[i] ELSE g[i - 1] \o seqs[i]]
<1>1. g = [i \in 1 .. Len(seqs) |-> IF i = 1 THEN seqs[i] ELSE g[i - 1] \o seqs[i]]
  BY Zenon
<1>2. FlattenSeq(seqs) = g[Len(seqs)]
  BY Zenon DEF FlattenSeq
<1> QED
  BY <1>1, <1>2, Zenon

\* The first places of a row.
First(row, a) == [m \in 1 .. a |-> row[m]]

\* They are places of the row.
LEMMA FirstPlaces ==
    ASSUME NEW a \in Nat, NEW row, \A m \in 1 .. a : row[m] \in Int
    PROVE  /\ First(row, a) \in Seq(Int) /\ Len(First(row, a)) = a
           /\ \A m \in 1 .. a : First(row, a)[m] = row[m]
<1> DEFINE q == [m \in 1 .. a |-> row[m]]
<1>1. q \in Seq(Int)
  OBVIOUS
<1>2. Len(q) = a
  OBVIOUS
<1> QED
  BY <1>1, <1>2 DEF First

\* The first places and the next ones, and all of them.
LEMMA FirstAndNext ==
    ASSUME NEW row \in Seq(Int), NEW a \in Nat, NEW b \in Nat, a <= b, b <= Len(row),
           NEW q \in Seq(Int), Len(q) = b - a, \A k \in 1 .. Len(q) : q[k] = row[a + k]
    PROVE  First(row, a) \o q = First(row, b)
<1> DEFINE p == First(row, a)
           r == First(row, b)
<1>1. \A m \in 1 .. Len(row) : row[m] \in Int
  OBVIOUS
<1>2. Len(row) \in Nat /\ (\A m \in 1 .. a : row[m] \in Int) /\ (\A m \in 1 .. b : row[m] \in Int)
  BY <1>1
<1>3. p \in Seq(Int) /\ Len(p) = a /\ \A m \in 1 .. a : p[m] = row[m]
  BY <1>2, FirstPlaces
<1>4. r \in Seq(Int) /\ Len(r) = b /\ \A m \in 1 .. b : r[m] = row[m]
  BY <1>2, FirstPlaces
<1> HIDE DEF p, r
<1>5. /\ p \o q \in Seq(Int) /\ Len(p \o q) = b
      /\ \A m \in 1 .. b : (p \o q)[m] = IF m <= a THEN p[m] ELSE q[m - a]
  <2>1. /\ p \o q \in Seq(Int) /\ Len(p \o q) = Len(p) + Len(q)
        /\ \A m \in 1 .. Len(p) + Len(q) : (p \o q)[m] = IF m <= Len(p) THEN p[m] ELSE q[m - Len(p)]
    BY <1>3, ConcatProperties, ZenonT(30)
  <2>2. Len(p) + Len(q) = b
    BY <1>3
  <2> QED
    BY <1>3, <2>1, <2>2
<1>6. ASSUME NEW m \in 1 .. b PROVE (p \o q)[m] = r[m]
  <2>1. CASE m <= a
    <3>1. m \in 1 .. a
      BY <2>1
    <3> QED
      BY <1>3, <1>4, <1>5, <2>1, <3>1
  <2>2. CASE ~(m <= a)
    <3>1. m - a \in 1 .. Len(q) /\ a + (m - a) = m
      BY <2>2
    <3>2. q[m - a] = row[m]
      BY <3>1
    <3> QED
      BY <1>4, <1>5, <2>2, <3>2
  <2> QED
    BY <2>1, <2>2
<1>7. p \o q = r
  BY <1>4, <1>5, <1>6, SeqEqual
<1> QED
  BY <1>7 DEF p, r

\* All places.
LEMMA FirstAll ==
    ASSUME NEW row \in Seq(Int)
    PROVE  First(row, Len(row)) = row
<1>1. Len(row) \in Nat /\ \A m \in 1 .. Len(row) : row[m] \in Int
  OBVIOUS
<1>2. /\ First(row, Len(row)) \in Seq(Int) /\ Len(First(row, Len(row))) = Len(row)
      /\ \A m \in 1 .. Len(row) : First(row, Len(row))[m] = row[m]
  BY <1>1, FirstPlaces
<1> QED
  BY <1>2, SeqEqual

\* Pieces of a row, put together, give the row.
LEMMA FlattenRow ==
    ASSUME NEW seqs \in Seq(Seq(Int)), NEW row \in Seq(Int),
           NEW off \in [0 .. Len(seqs) -> 0 .. Len(row)], off[0] = 0,
           \A i \in 1 .. Len(seqs) :
               /\ off[i] = off[i - 1] + Len(seqs[i])
               /\ \A k \in 1 .. Len(seqs[i]) : seqs[i][k] = row[off[i - 1] + k]
    PROVE  FlattenSeq(seqs) = First(row, off[Len(seqs)])
<1> DEFINE n == Len(seqs)
           Piece(i) == First(row, off[i])
           f == [i \in 1 .. n |-> Piece(i)]
<1>1. n \in Nat /\ Len(row) \in Nat
  OBVIOUS
<1>2. \A i \in 0 .. n : off[i] \in Nat /\ off[i] <= Len(row)
  BY <1>1
<1>3. Piece(0) = << >>
  BY <1>1 DEF First
<1>4. CASE n = 0
  <2>1. seqs = << >>
    BY <1>4
  <2>2. FlattenSeq(seqs) = << >>
    BY <1>4, <2>1 DEF FlattenSeq
  <2> QED
    BY <2>2, <1>3, <1>4
<1>5. CASE n # 0
  <2>1. ASSUME NEW i \in 1 .. n
        PROVE  seqs[i] \in Seq(Int) /\ i - 1 \in 0 .. n /\ i \in 0 .. n
    BY <1>1
  <2>2. ASSUME NEW i \in 1 .. n PROVE Piece(i - 1) \o seqs[i] = Piece(i)
    <3> DEFINE a == off[i - 1]
               b == off[i]
               q == seqs[i]
    <3>1. q \in Seq(Int) /\ b = a + Len(q) /\ \A k \in 1 .. Len(q) : q[k] = row[a + k]
      BY <2>1
    <3>2. a \in Nat /\ b \in Nat /\ b <= Len(row)
      BY <1>2, <2>1
    <3> HIDE DEF a, b, q
    <3>3. Len(q) \in Nat /\ Len(q) = b - a /\ a <= b
      BY <3>1, <3>2
    <3>4. First(row, a) \o q = First(row, b)
      BY <3>1, <3>2, <3>3, FirstAndNext
    <3> QED
      BY <3>4 DEF a, b, q
  <2>3. Piece(1) = seqs[1]
    <3>1. 1 \in 1 .. n /\ 1 - 1 = 0
      BY <1>1, <1>5
    <3>2. Piece(1) = << >> \o seqs[1]
      BY <1>3, <2>2, <3>1
    <3>3. seqs[1] \in Seq(Int)
      BY <2>1, <3>1
    <3> HIDE DEF Piece
    <3> QED
      BY <3>2, <3>3
  <2> HIDE DEF Piece
  <2>4. f = [i \in 1 .. n |-> IF i = 1 THEN seqs[i] ELSE f[i - 1] \o seqs[i]]
    <3>1. ASSUME NEW i \in 1 .. n PROVE Piece(i) = IF i = 1 THEN seqs[i] ELSE f[i - 1] \o seqs[i]
      <4>1. CASE i = 1
        BY <4>1, <2>3
      <4>2. CASE i # 1
        <5>1. i - 1 \in 1 .. n
          BY <4>2, <1>1
        <5>2. f[i - 1] = Piece(i - 1)
          BY <5>1
        <5> HIDE DEF f
        <5> QED
          BY <5>2, <2>2, <4>2
      <4> QED
        BY <4>1, <4>2
    <3> QED
      BY <3>1
  <2> HIDE DEF f
  <2>5. PICK g : /\ g = [i \in 1 .. n |-> IF i = 1 THEN seqs[i] ELSE g[i - 1] \o seqs[i]]
                 /\ FlattenSeq(seqs) = g[n]
    <3>1. n # 0 => \E g : /\ g = [i \in 1 .. n |-> IF i = 1 THEN seqs[i] ELSE g[i - 1] \o seqs[i]]
                 /\ FlattenSeq(seqs) = g[n]
      BY <2>4, FlattenSolves, Zenon
    <3> QED
      BY <3>1, <1>5
  <2>6. ASSUME NEW i \in 1 .. n PROVE g[i] = IF i = 1 THEN seqs[i] ELSE g[i - 1] \o seqs[i]
    BY <2>5, Zenon
  <2>7. \A i \in 1 .. n : g[i] = Piece(i)
    <3> SUFFICES ASSUME {i \in 1 .. n : g[i] # Piece(i)} # {} PROVE FALSE
      OBVIOUS
    <3> DEFINE B == {i \in 1 .. n : g[i] # Piece(i)}
    <3>1. B \in SUBSET Nat
      BY <1>1
    <3>2. PICK x \in B : \A y \in B : x <= y
      <4>1. B # {}
        OBVIOUS
      <4> HIDE DEF B
      <4> QED
        BY <3>1, <4>1, LeastNumber
    <3>3. x \in 1 .. n /\ g[x] # Piece(x)
      BY <3>2
    <3>4. x # 1
      BY <3>3, <2>6, <2>3
    <3>5. x - 1 \in 1 .. n /\ ~(x <= x - 1)
      BY <3>3, <3>4, <1>1
    <3>6. g[x - 1] = Piece(x - 1)
      BY <3>5, <3>2
    <3>7. g[x] = g[x - 1] \o seqs[x]
      BY <3>3, <3>4, <2>6
    <3> QED
      BY <3>3, <3>6, <3>7, <2>2
  <2>8. n \in 1 .. n
    BY <1>1, <1>5
  <2> QED
    BY <2>5, <2>7, <2>8 DEF Piece
<1> QED
  BY <1>4, <1>5

-----------------------------------------------------------------------------
(* Base64: the alphabet, and bits, groups and bytes.                       *)

\* The characters of the alphabet are no padding and decode to their groups.
LEMMA AlphabetDecodes ==
    \A g \in 0 .. 63 : /\ alphabet[g] \in 0 .. 255 /\ alphabet[g] # pad_char
                       /\ decode_table[alphabet[g]] = g
<1> TAKE g \in 0 .. 63
<1>1. alphabet[g] = IF g < 26 THEN 65 + g ELSE IF g <= 51 THEN 97 + (g - 26)
                    ELSE IF g <= 61 THEN 48 + (g - 52) ELSE IF g = 62 THEN 43 ELSE 47
  BY DEF alphabet
<1>2. \A c \in 0 .. 255 :
        decode_table[c] = IF c = 43 THEN 62 ELSE IF c = 47 THEN 63
                          ELSE IF c \in 48 .. 57 THEN 52 + (c - 48)
                          ELSE IF c \in 65 .. 90 THEN c - 65
                          ELSE IF c \in 97 .. 122 THEN 26 + (c - 97) ELSE 255
  BY DEF decode_table, invalid_char
<1>3. alphabet[g] \in 0 .. 255 /\ alphabet[g] # 61
  BY <1>1
<1>4. decode_table[alphabet[g]] = g
  BY <1>1, <1>2, <1>3
<1> QED
  BY <1>3, <1>4 DEF pad_char

\* A character the decoder knows is the one of its group.
LEMMA DecodedEncodes ==
    \A c \in 0 .. 255 :
        /\ decode_table[c] \in 0 .. 255
        /\ decode_table[c] # invalid_char =>
            c # pad_char /\ decode_table[c] \in 0 .. 63 /\ alphabet[decode_table[c]] = c
<1> TAKE c \in 0 .. 255
<1>1. \A g \in 0 .. 63 :
        alphabet[g] = IF g < 26 THEN 65 + g ELSE IF g <= 51 THEN 97 + (g - 26)
                    ELSE IF g <= 61 THEN 48 + (g - 52) ELSE IF g = 62 THEN 43 ELSE 47
  BY DEF alphabet
<1>2. decode_table[c] = IF c = 43 THEN 62 ELSE IF c = 47 THEN 63
                          ELSE IF c \in 48 .. 57 THEN 52 + (c - 48)
                          ELSE IF c \in 65 .. 90 THEN c - 65
                          ELSE IF c \in 97 .. 122 THEN 26 + (c - 97) ELSE 255
  BY DEF decode_table, invalid_char
<1>3. decode_table[c] \in 0 .. 255
  BY <1>2
<1>4. decode_table[c] # 255 => c # 61 /\ decode_table[c] \in 0 .. 63
  BY <1>2
<1>5. decode_table[c] # 255 => alphabet[decode_table[c]] = c
  BY <1>1, <1>2, <1>4
<1> QED
  BY <1>3, <1>4, <1>5 DEF pad_char, invalid_char

\* A byte and the parts that go into two groups are the sums of their bits.
LEMMA ByteBits ==
    ASSUME NEW a \in 0 .. 255
    PROVE  LET B(k) == (a \div k) % 2
           IN  /\ 32 * B(128) + 16 * B(64) + 8 * B(32) + 4 * B(16) + 2 * B(8) + B(4) = a \div 4
               /\ 32 * B(2) + 16 * B(1) = (a % 4) * 16
               /\ 8 * B(128) + 4 * B(64) + 2 * B(32) + B(16) = a \div 16
               /\ 32 * B(8) + 16 * B(4) + 8 * B(2) + 4 * B(1) = (a % 16) * 4
               /\ 2 * B(128) + B(64) = a \div 64
               /\ 32 * B(32) + 16 * B(16) + 8 * B(8) + 4 * B(4) + 2 * B(2) + B(1) = a % 64
               /\ B(128) \in Nat /\ B(64) \in Nat /\ B(32) \in Nat /\ B(16) \in Nat
               /\ B(8) \in Nat /\ B(4) \in Nat /\ B(2) \in Nat /\ B(1) \in Nat
<1>1. a \div 1 = a
  OBVIOUS
<1> QED
  BY <1>1

\* Byte m of s, 0 behind its end.
ByteAt(s, m) == IF m <= Len(s) THEN s[m] ELSE 0

\* It is a byte.
LEMMA ByteAtByte ==
    ASSUME NEW s \in Seq(0 .. 255), NEW m \in Nat \ {0}
    PROVE  ByteAt(s, m) \in 0 .. 255
<1>1. CASE m <= Len(s)
  <2>1. Len(s) \in Nat
    OBVIOUS
  <2>2. m \in 1 .. Len(s)
    BY <1>1, <2>1
  <2>3. s[m] \in 0 .. 255
    BY <2>2, ElementOfSeq
  <2> QED
    BY <1>1, <2>3 DEF ByteAt
<1>2. CASE ~(m <= Len(s))
  BY <1>2 DEF ByteAt
<1> QED
  BY <1>1, <1>2

\* The bits of a byte in the row of the bits.
LEMMA BitsOf ==
    ASSUME NEW s \in Seq(0 .. 255), NEW q \in Nat
    PROVE  LET a == ByteAt(s, q + 1)
           IN  /\ BitAt(s, 8 * q + 1) = (a \div 128) % 2
               /\ BitAt(s, 8 * q + 2) = (a \div 64) % 2
               /\ BitAt(s, 8 * q + 3) = (a \div 32) % 2
               /\ BitAt(s, 8 * q + 4) = (a \div 16) % 2
               /\ BitAt(s, 8 * q + 5) = (a \div 8) % 2
               /\ BitAt(s, 8 * q + 6) = (a \div 4) % 2
               /\ BitAt(s, 8 * q + 7) = (a \div 2) % 2
               /\ BitAt(s, 8 * q + 8) = (a \div 1) % 2
<1> DEFINE a == ByteAt(s, q + 1)
           W == <<128, 64, 32, 16, 8, 4, 2, 1>>
<1>1. Len(s) \in Nat
  OBVIOUS
<1>2. a \in 0 .. 255
  <2>1. q + 1 \in Nat \ {0}
    OBVIOUS
  <2> QED
    BY <2>1, ByteAtByte
<1>3. ASSUME NEW r \in 1 .. 8 PROVE BitAt(s, 8 * q + r) = (a \div W[r]) % 2
  <2>1. ((8 * q + r - 1) \div 8) + 1 = q + 1 /\ ((8 * q + r - 1) % 8) + 1 = r
    OBVIOUS
  <2>2. 8 * q + r > 8 * Len(s) <=> ~(q + 1 <= Len(s))
    BY <1>1
  <2>3. BitAt(s, 8 * q + r) = IF 8 * q + r > 8 * Len(s) THEN 0 ELSE (s[q + 1] \div W[r]) % 2
    BY <2>1 DEF BitAt
  <2>4. CASE q + 1 <= Len(s)
    BY <2>2, <2>3, <2>4 DEF ByteAt
  <2>5. CASE ~(q + 1 <= Len(s))
    <3>1. a = 0 /\ BitAt(s, 8 * q + r) = 0
      BY <2>2, <2>3, <2>5 DEF ByteAt
    <3>2. (0 \div W[r]) % 2 = 0
      OBVIOUS
    <3> QED
      BY <3>1, <3>2
  <2> QED
    BY <2>4, <2>5
<1>4. /\ W[1] = 128 /\ W[2] = 64 /\ W[3] = 32 /\ W[4] = 16 /\ W[5] = 8 /\ W[6] = 4 /\ W[7] = 2 /\ W[8] = 1
      /\ 1 \in 1 .. 8 /\ 2 \in 1 .. 8 /\ 3 \in 1 .. 8 /\ 4 \in 1 .. 8 /\ 5 \in 1 .. 8 /\ 6 \in 1 .. 8
      /\ 7 \in 1 .. 8 /\ 8 \in 1 .. 8
  OBVIOUS
<1> HIDE DEF a, W
<1>5. /\ BitAt(s, 8 * q + 1) = (a \div 128) % 2
      /\ BitAt(s, 8 * q + 2) = (a \div 64) % 2
      /\ BitAt(s, 8 * q + 3) = (a \div 32) % 2
      /\ BitAt(s, 8 * q + 4) = (a \div 16) % 2
      /\ BitAt(s, 8 * q + 5) = (a \div 8) % 2
      /\ BitAt(s, 8 * q + 6) = (a \div 4) % 2
      /\ BitAt(s, 8 * q + 7) = (a \div 2) % 2
      /\ BitAt(s, 8 * q + 8) = (a \div 1) % 2
  <2>1. BitAt(s, 8 * q + 1) = (a \div 128) % 2
    BY <1>3, <1>4
  <2>2. BitAt(s, 8 * q + 2) = (a \div 64) % 2
    BY <1>3, <1>4
  <2>3. BitAt(s, 8 * q + 3) = (a \div 32) % 2
    BY <1>3, <1>4
  <2>4. BitAt(s, 8 * q + 4) = (a \div 16) % 2
    BY <1>3, <1>4
  <2>5. BitAt(s, 8 * q + 5) = (a \div 8) % 2
    BY <1>3, <1>4
  <2>6. BitAt(s, 8 * q + 6) = (a \div 4) % 2
    BY <1>3, <1>4
  <2>7. BitAt(s, 8 * q + 7) = (a \div 2) % 2
    BY <1>3, <1>4
  <2>8. BitAt(s, 8 * q + 8) = (a \div 1) % 2
    BY <1>3, <1>4
  <2> QED
    BY <2>1, <2>2, <2>3, <2>4, <2>5, <2>6, <2>7, <2>8
<1> QED
  BY <1>5 DEF a

\* The four groups of three bytes.
Sextets(a, b, c) == <<a \div 4, (a % 4) * 16 + b \div 16, (b % 16) * 4 + c \div 64, c % 64>>

\* The groups of six bits in the row of the bits.
LEMMA SixBitsOf ==
    ASSUME NEW s \in Seq(0 .. 255), NEW i \in Nat
    PROVE  LET a == ByteAt(s, 3 * i + 1) b == ByteAt(s, 3 * i + 2) c == ByteAt(s, 3 * i + 3)
           IN  /\ SixBits(s, 4 * i + 1) = a \div 4
               /\ SixBits(s, 4 * i + 2) = (a % 4) * 16 + b \div 16
               /\ SixBits(s, 4 * i + 3) = (b % 16) * 4 + c \div 64
               /\ SixBits(s, 4 * i + 4) = c % 64
<1> DEFINE a == ByteAt(s, 3 * i + 1)
           b == ByteAt(s, 3 * i + 2)
           c == ByteAt(s, 3 * i + 3)
           T(k) == BitAt(s, k)
<1>1. a \in 0 .. 255 /\ b \in 0 .. 255 /\ c \in 0 .. 255
  <2>1. 3 * i + 1 \in Nat \ {0} /\ 3 * i + 2 \in Nat \ {0} /\ 3 * i + 3 \in Nat \ {0}
    OBVIOUS
  <2> QED
    BY <2>1, ByteAtByte
<1>2. 3 * i \in Nat /\ 3 * i + 1 \in Nat /\ 3 * i + 2 \in Nat
  OBVIOUS
<1>3. /\ 8 * (3 * i) = 24 * i /\ 8 * (3 * i + 1) = 24 * i + 8 /\ 8 * (3 * i + 2) = 24 * i + 16
      /\ (3 * i + 1) + 1 = 3 * i + 2 /\ (3 * i + 2) + 1 = 3 * i + 3
  OBVIOUS
<1>4. /\ T(24 * i + 1) = (a \div 128) % 2 /\ T(24 * i + 2) = (a \div 64) % 2
      /\ T(24 * i + 3) = (a \div 32) % 2 /\ T(24 * i + 4) = (a \div 16) % 2
      /\ T(24 * i + 5) = (a \div 8) % 2 /\ T(24 * i + 6) = (a \div 4) % 2
      /\ T(24 * i + 7) = (a \div 2) % 2 /\ T(24 * i + 8) = (a \div 1) % 2
  BY <1>2, <1>3, BitsOf
<1>5. /\ T(24 * i + 9) = (b \div 128) % 2 /\ T(24 * i + 10) = (b \div 64) % 2
      /\ T(24 * i + 11) = (b \div 32) % 2 /\ T(24 * i + 12) = (b \div 16) % 2
      /\ T(24 * i + 13) = (b \div 8) % 2 /\ T(24 * i + 14) = (b \div 4) % 2
      /\ T(24 * i + 15) = (b \div 2) % 2 /\ T(24 * i + 16) = (b \div 1) % 2
  <2> DEFINE q == 3 * i + 1
  <2>1. q \in Nat /\ q + 1 = 3 * i + 2
    BY <1>2, <1>3
  <2>2. /\ 8 * q + 1 = 24 * i + 9 /\ 8 * q + 2 = 24 * i + 10 /\ 8 * q + 3 = 24 * i + 11
        /\ 8 * q + 4 = 24 * i + 12 /\ 8 * q + 5 = 24 * i + 13 /\ 8 * q + 6 = 24 * i + 14
        /\ 8 * q + 7 = 24 * i + 15 /\ 8 * q + 8 = 24 * i + 16
    OBVIOUS
  <2>3. ByteAt(s, q + 1) = b
    BY <2>1
  <2> HIDE DEF q, b
  <2>4. /\ T(8 * q + 1) = (b \div 128) % 2 /\ T(8 * q + 2) = (b \div 64) % 2
        /\ T(8 * q + 3) = (b \div 32) % 2 /\ T(8 * q + 4) = (b \div 16) % 2
        /\ T(8 * q + 5) = (b \div 8) % 2 /\ T(8 * q + 6) = (b \div 4) % 2
        /\ T(8 * q + 7) = (b \div 2) % 2 /\ T(8 * q + 8) = (b \div 1) % 2
    BY <2>1, <2>3, BitsOf
  <2> HIDE DEF T
  <2> QED
    BY <2>2, <2>4
<1>6. /\ T(24 * i + 17) = (c \div 128) % 2 /\ T(24 * i + 18) = (c \div 64) % 2
      /\ T(24 * i + 19) = (c \div 32) % 2 /\ T(24 * i + 20) = (c \div 16) % 2
      /\ T(24 * i + 21) = (c \div 8) % 2 /\ T(24 * i + 22) = (c \div 4) % 2
      /\ T(24 * i + 23) = (c \div 2) % 2 /\ T(24 * i + 24) = (c \div 1) % 2
  <2> DEFINE q == 3 * i + 2
  <2>1. q \in Nat /\ q + 1 = 3 * i + 3
    BY <1>2, <1>3
  <2>2. /\ 8 * q + 1 = 24 * i + 17 /\ 8 * q + 2 = 24 * i + 18 /\ 8 * q + 3 = 24 * i + 19
        /\ 8 * q + 4 = 24 * i + 20 /\ 8 * q + 5 = 24 * i + 21 /\ 8 * q + 6 = 24 * i + 22
        /\ 8 * q + 7 = 24 * i + 23 /\ 8 * q + 8 = 24 * i + 24
    OBVIOUS
  <2>3. ByteAt(s, q + 1) = c
    BY <2>1
  <2> HIDE DEF q, c
  <2>4. /\ T(8 * q + 1) = (c \div 128) % 2 /\ T(8 * q + 2) = (c \div 64) % 2
        /\ T(8 * q + 3) = (c \div 32) % 2 /\ T(8 * q + 4) = (c \div 16) % 2
        /\ T(8 * q + 5) = (c \div 8) % 2 /\ T(8 * q + 6) = (c \div 4) % 2
        /\ T(8 * q + 7) = (c \div 2) % 2 /\ T(8 * q + 8) = (c \div 1) % 2
    BY <2>1, <2>3, BitsOf
  <2> HIDE DEF T
  <2> QED
    BY <2>2, <2>4
<1>7. ASSUME NEW j \in Nat
      PROVE  SixBits(s, j) = 32 * T(6 * (j - 1) + 1) + 16 * T(6 * (j - 1) + 2) + 8 * T(6 * (j - 1) + 3)
                             + 4 * T(6 * (j - 1) + 4) + 2 * T(6 * (j - 1) + 5) + T(6 * (j - 1) + 6)
  BY DEF SixBits
<1> HIDE DEF a, b, c, T
<1>8. SixBits(s, 4 * i + 1) = 32 * T(24 * i + 1) + 16 * T(24 * i + 2) + 8 * T(24 * i + 3)
                              + 4 * T(24 * i + 4) + 2 * T(24 * i + 5) + T(24 * i + 6)
  <2>1. 4 * i + 1 \in Nat /\ 6 * (4 * i + 1 - 1) = 24 * i
    OBVIOUS
  <2> QED
    BY <1>7, <2>1
<1>9. SixBits(s, 4 * i + 2) = 32 * T(24 * i + 7) + 16 * T(24 * i + 8) + 8 * T(24 * i + 9)
                              + 4 * T(24 * i + 10) + 2 * T(24 * i + 11) + T(24 * i + 12)
  <2>1. 4 * i + 2 \in Nat /\ 6 * (4 * i + 2 - 1) = 24 * i + 6
    OBVIOUS
  <2> QED
    BY <1>7, <2>1
<1>10. SixBits(s, 4 * i + 3) = 32 * T(24 * i + 13) + 16 * T(24 * i + 14) + 8 * T(24 * i + 15)
                              + 4 * T(24 * i + 16) + 2 * T(24 * i + 17) + T(24 * i + 18)
  <2>1. 4 * i + 3 \in Nat /\ 6 * (4 * i + 3 - 1) = 24 * i + 12
    OBVIOUS
  <2> QED
    BY <1>7, <2>1
<1>11. SixBits(s, 4 * i + 4) = 32 * T(24 * i + 19) + 16 * T(24 * i + 20) + 8 * T(24 * i + 21)
                              + 4 * T(24 * i + 22) + 2 * T(24 * i + 23) + T(24 * i + 24)
  <2>1. 4 * i + 4 \in Nat /\ 6 * (4 * i + 4 - 1) = 24 * i + 18
    OBVIOUS
  <2> QED
    BY <1>7, <2>1
<1>12. SixBits(s, 4 * i + 1) = a \div 4
  BY <1>1, <1>4, <1>8, ByteBits
<1>13. SixBits(s, 4 * i + 2) = (a % 4) * 16 + b \div 16
  <2>1. 32 * ((a \div 2) % 2) + 16 * ((a \div 1) % 2) = (a % 4) * 16
    BY <1>1, ByteBits
  <2>2. 8 * ((b \div 128) % 2) + 4 * ((b \div 64) % 2) + 2 * ((b \div 32) % 2) + ((b \div 16) % 2) = b \div 16
    BY <1>1, ByteBits
  <2>3. 32 * ((a \div 2) % 2) + 16 * ((a \div 1) % 2) + 8 * ((b \div 128) % 2) + 4 * ((b \div 64) % 2) + 2 * ((b \div 32) % 2) + ((b \div 16) % 2)
        = (a % 4) * 16 + b \div 16
    BY <1>1, <2>1, <2>2
  <2> QED
    BY <1>4, <1>5, <1>9, <2>3
<1>14. SixBits(s, 4 * i + 3) = (b % 16) * 4 + c \div 64
  <2>1. 32 * ((b \div 8) % 2) + 16 * ((b \div 4) % 2) + 8 * ((b \div 2) % 2) + 4 * ((b \div 1) % 2) = (b % 16) * 4
    BY <1>1, ByteBits
  <2>2. 2 * ((c \div 128) % 2) + ((c \div 64) % 2) = c \div 64
    BY <1>1, ByteBits
  <2>3. 32 * ((b \div 8) % 2) + 16 * ((b \div 4) % 2) + 8 * ((b \div 2) % 2) + 4 * ((b \div 1) % 2) + 2 * ((c \div 128) % 2) + ((c \div 64) % 2)
        = (b % 16) * 4 + c \div 64
    BY <1>1, <2>1, <2>2
  <2> QED
    BY <1>5, <1>6, <1>10, <2>3
<1>15. SixBits(s, 4 * i + 4) = c % 64
  BY <1>1, <1>6, <1>11, ByteBits, ZenonT(30)
<1> QED
  BY <1>12, <1>13, <1>14, <1>15 DEF a, b, c

\* The groups of three bytes are groups.
LEMMA SextetsGroups ==
    ASSUME NEW a \in 0 .. 255, NEW b \in 0 .. 255, NEW c \in 0 .. 255
    PROVE  \A k \in 1 .. 4 : Sextets(a, b, c)[k] \in 0 .. 63
<1>1. /\ a \div 4 \in 0 .. 63 /\ (a % 4) * 16 + b \div 16 \in 0 .. 63
      /\ (b % 16) * 4 + c \div 64 \in 0 .. 63 /\ c % 64 \in 0 .. 63
  OBVIOUS
<1> QED
  BY <1>1 DEF Sextets

\* Group j of the row of bits is a group of the three bytes it lies in.
LEMMA SixBitsSextets ==
    ASSUME NEW s \in Seq(0 .. 255), NEW i \in Nat, NEW k \in 1 .. 4
    PROVE  /\ SixBits(s, 4 * i + k) = Sextets(ByteAt(s, 3 * i + 1), ByteAt(s, 3 * i + 2), ByteAt(s, 3 * i + 3))[k]
           /\ SixBits(s, 4 * i + k) \in 0 .. 63
<1> DEFINE a == ByteAt(s, 3 * i + 1)
           b == ByteAt(s, 3 * i + 2)
           c == ByteAt(s, 3 * i + 3)
<1>1. a \in 0 .. 255 /\ b \in 0 .. 255 /\ c \in 0 .. 255
  <2>1. 3 * i + 1 \in Nat \ {0} /\ 3 * i + 2 \in Nat \ {0} /\ 3 * i + 3 \in Nat \ {0}
    OBVIOUS
  <2> QED
    BY <2>1, ByteAtByte
<1>2. /\ SixBits(s, 4 * i + 1) = a \div 4
      /\ SixBits(s, 4 * i + 2) = (a % 4) * 16 + b \div 16
      /\ SixBits(s, 4 * i + 3) = (b % 16) * 4 + c \div 64
      /\ SixBits(s, 4 * i + 4) = c % 64
  BY SixBitsOf
<1> HIDE DEF a, b, c
<1>3. SixBits(s, 4 * i + k) = Sextets(a, b, c)[k]
  <2>1. CASE k = 1
    BY <1>2, <2>1 DEF Sextets
  <2>2. CASE k = 2
    BY <1>2, <2>2 DEF Sextets
  <2>3. CASE k = 3
    BY <1>2, <2>3 DEF Sextets
  <2>4. CASE k = 4
    BY <1>2, <2>4 DEF Sextets
  <2> QED
    BY <2>1, <2>2, <2>3, <2>4
<1>4. Sextets(a, b, c)[k] \in 0 .. 63
  BY <1>1, SextetsGroups
<1> QED
  BY <1>3, <1>4 DEF a, b, c

-----------------------------------------------------------------------------
(* Base64: encoding.                                                       *)

\* The number of characters that carry bits.
Used(s) == (8 * Len(s) + 5) \div 6

\* The reference is a sequence of characters: groups, and then padding.
LEMMA ReferenceShape ==
    ASSUME NEW s \in Seq(0 .. 255)
    PROVE  /\ Reference(s) \in Seq(0 .. 255)
           /\ Len(Reference(s)) = 4 * ((Len(s) + 2) \div 3)
           /\ \A j \in 1 .. Len(Reference(s)) :
                /\ SixBits(s, j) \in 0 .. 63
                /\ Reference(s)[j] = IF j <= Used(s) THEN alphabet[SixBits(s, j)] ELSE pad_char
<1> DEFINE n == 4 * ((Len(s) + 2) \div 3)
           e(j) == IF j <= Used(s) THEN alphabet[SixBits(s, j)] ELSE pad_char
<1>1. Len(s) \in Nat /\ n \in Nat
  OBVIOUS
<1>2. ASSUME NEW j \in 1 .. n PROVE SixBits(s, j) \in 0 .. 63
  <2>1. PICK i \in Nat, k \in 1 .. 4 : j = 4 * i + k
    <3>1. (j - 1) \div 4 \in Nat /\ ((j - 1) % 4) + 1 \in 1 .. 4 /\ j = 4 * ((j - 1) \div 4) + (((j - 1) % 4) + 1)
      BY <1>1
    <3> QED
      BY <3>1
  <2> QED
    BY <2>1, SixBitsSextets
<1>3. ASSUME NEW j \in 1 .. n PROVE e(j) \in 0 .. 255
  <2>1. pad_char \in 0 .. 255
    BY DEF pad_char
  <2>2. alphabet[SixBits(s, j)] \in 0 .. 255
    BY <1>2, AlphabetDecodes
  <2> QED
    BY <2>1, <2>2
<1>4. Reference(s) = [j \in 1 .. n |-> e(j)]
  BY DEF Reference, Used, calc_encoded_length
<1> HIDE DEF n, e
<1>5. Reference(s) \in Seq(0 .. 255) /\ Len(Reference(s)) = n /\ \A j \in 1 .. n : Reference(s)[j] = e(j)
  BY <1>1, <1>3, <1>4
<1> QED
  BY <1>2, <1>5 DEF n, e

\* What the encoder makes of up to three bytes.
LEMMA GroupsOf ==
    ASSUME NEW x \in Seq(0 .. 255), NEW n \in 1 .. 4
    PROVE  /\ Groups(Joined(x), n) \in Seq(Int) /\ Len(Groups(Joined(x), n)) = n
           /\ \A k \in 1 .. n :
                Groups(Joined(x), n)[k] = alphabet[Sextets(ByteAt(x, 1), ByteAt(x, 2), ByteAt(x, 3))[k]]
<1> DEFINE a == ByteAt(x, 1)
           b == ByteAt(x, 2)
           c == ByteAt(x, 3)
           bx == a * 65536 + b * 256 + c
           P == <<262144, 4096, 64, 1>>
<1>1. a \in 0 .. 255 /\ b \in 0 .. 255 /\ c \in 0 .. 255
  BY ByteAtByte
<1>2. Joined(x) = bx
  BY SMT DEF Joined, ByteAt
<1>3. /\ (bx \div 262144) % 64 = a \div 4
      /\ (bx \div 4096) % 64 = (a % 4) * 16 + b \div 16
      /\ (bx \div 64) % 64 = (b % 16) * 4 + c \div 64
      /\ (bx \div 1) % 64 = c % 64
  <2>1. bx = a * 65536 + b * 256 + c
    BY SMT
  <2>2. a \in 0 .. 255 /\ b \in 0 .. 255 /\ c \in 0 .. 255
    BY <1>1
  <2> HIDE DEF a, b, c, bx
  <2>3. PICK a1 \in 0 .. 63, a0 \in 0 .. 3 : a = 4 * a1 + a0 /\ a1 = a \div 4 /\ a0 = a % 4
    BY <2>2, a \div 4 \in 0 .. 63, a % 4 \in 0 .. 3, a = 4 * (a \div 4) + (a % 4), SMT
  <2>4. PICK b1 \in 0 .. 15, b0 \in 0 .. 15 : b = 16 * b1 + b0 /\ b1 = b \div 16 /\ b0 = b % 16
    BY <2>2, b \div 16 \in 0 .. 15, b % 16 \in 0 .. 15, b = 16 * (b \div 16) + (b % 16), SMT
  <2>5. PICK c1 \in 0 .. 3, c0 \in 0 .. 63 : c = 64 * c1 + c0 /\ c1 = c \div 64 /\ c0 = c % 64
    BY <2>2, c \div 64 \in 0 .. 3, c % 64 \in 0 .. 63, c = 64 * (c \div 64) + (c % 64), SMT
  <2>6. bx = 262144 * a1 + 65536 * a0 + 4096 * b1 + 256 * b0 + 64 * c1 + c0
    BY <2>1, <2>3, <2>4, <2>5, SMT
  <2>7. bx \div 262144 = a1
    BY <2>6, SMT
  <2>8. bx \div 4096 = 64 * a1 + (16 * a0 + b1)
    BY <2>6, SMT
  <2>9. bx \div 64 = 64 * (64 * a1 + 16 * a0 + b1) + (4 * b0 + c1)
    BY <2>6, SMT
  <2>10. bx \div 1 = 64 * (4096 * a1 + 1024 * a0 + 64 * b1 + 4 * b0 + c1) + c0
    BY <2>6, SMT
  <2>11. /\ (bx \div 262144) % 64 = a1 /\ (bx \div 4096) % 64 = a0 * 16 + b1
        /\ (bx \div 64) % 64 = b0 * 4 + c1 /\ (bx \div 1) % 64 = c0
    <3>1. (bx \div 262144) % 64 = a1
      <4>1. a1 % 64 = a1
        OBVIOUS
      <4> QED
        BY <2>7, <4>1, SMT
    <3>2. (bx \div 4096) % 64 = a0 * 16 + b1
      BY <2>8, SMT
    <3>3. (bx \div 64) % 64 = b0 * 4 + c1
      BY <2>9, SMT
    <3>4. (bx \div 1) % 64 = c0
      BY <2>10, SMT
    <3> QED
      BY <3>1, <3>2, <3>3, <3>4, SMT
  <2> QED
    BY <2>3, <2>4, <2>5, <2>11, SMT
<1> HIDE DEF a, b, c, bx
<1>4. ASSUME NEW k \in 1 .. 4 PROVE (bx \div P[k]) % 64 = Sextets(a, b, c)[k]
  <2>1. CASE k = 1
    BY <1>3, <2>1, SMT DEF Sextets
  <2>2. CASE k = 2
    BY <1>3, <2>2, SMT DEF Sextets
  <2>3. CASE k = 3
    BY <1>3, <2>3, SMT DEF Sextets
  <2>4. CASE k = 4
    BY <1>3, <2>4, SMT DEF Sextets
  <2> QED
    BY <2>1, <2>2, <2>3, <2>4
<1> HIDE DEF P
<1> DEFINE row(k) == alphabet[(bx \div P[k]) % 64]
<1>5. Groups(Joined(x), n) = [k \in 1 .. n |-> row(k)]
  BY <1>2, SMT DEF Groups, P
<1>6. ASSUME NEW k \in 1 .. n PROVE row(k) = alphabet[Sextets(a, b, c)[k]] /\ row(k) \in Int
  <2>1. k \in 1 .. 4
    OBVIOUS
  <2>2. Sextets(a, b, c)[k] \in 0 .. 63
    BY <1>1, <2>1, SextetsGroups
  <2>3. alphabet[Sextets(a, b, c)[k]] \in 0 .. 255
    BY <2>2, AlphabetDecodes, ZenonT(30)
  <2>4. row(k) = alphabet[Sextets(a, b, c)[k]]
    BY <1>4, <2>1
  <2> QED
    BY <2>3, <2>4
<1> HIDE DEF row
<1>7. [k \in 1 .. n |-> row(k)] \in Seq(Int) /\ Len([k \in 1 .. n |-> row(k)]) = n
  BY <1>6
<1>8. \A k \in 1 .. n : [j \in 1 .. n |-> row(j)][k] = row(k)
  OBVIOUS
<1> QED
  BY <1>5, <1>6, <1>7, <1>8 DEF a, b, c

\* A part of the bytes that starts with a group: three bytes, or all that follow.
LEMMA BytesOfPart ==
    ASSUME NEW s \in Seq(0 .. 255), NEW i \in Nat, NEW l \in 1 .. 3, 3 * i + l <= Len(s),
           l = 3 \/ 3 * i + l = Len(s)
    PROVE  LET x == SubSeq(s, 3 * i + 1, 3 * i + l)
           IN  /\ x \in Seq(0 .. 255) /\ Len(x) = l
               /\ \A k \in 1 .. 3 : ByteAt(x, k) = ByteAt(s, 3 * i + k)
<1> DEFINE u == 3 * i
           v == 3 * i + l
           x == SubSeq(s, u + 1, v)
<1>1. Len(s) \in Nat
  OBVIOUS
<1>2. u \in 0 .. Len(s) /\ v \in 0 .. Len(s) /\ u <= v /\ v - u = l
  BY <1>1
<1>3. x \in Seq(0 .. 255) /\ Len(x) = l /\ \A k \in 1 .. l : x[k] = s[u + k]
  <2> HIDE DEF u, v
  <2> QED
    BY <1>2, PartOf
<1> HIDE DEF x
<1>4. ASSUME NEW k \in 1 .. 3 PROVE ByteAt(x, k) = ByteAt(s, 3 * i + k)
  <2>1. CASE k <= l
    <3>1. 3 * i + k <= Len(s) /\ k \in 1 .. l
      BY <1>1, <2>1
    <3> QED
      BY <1>3, <2>1, <3>1 DEF ByteAt
  <2>2. CASE ~(k <= l)
    <3>1. ~(3 * i + k <= Len(s))
      BY <1>1, <2>2
    <3> QED
      BY <1>3, <2>2, <3>1 DEF ByteAt
  <2> QED
    BY <2>1, <2>2
<1> QED
  BY <1>3, <1>4 DEF x

\* What the encoder makes of such a part are characters of the reference.
LEMMA EncodedPart ==
    ASSUME NEW s \in Seq(0 .. 255), NEW i \in Nat, NEW l \in 1 .. 3, 3 * i + l <= Len(s),
           l = 3 \/ 3 * i + l = Len(s)
    PROVE  LET y == Groups(Joined(SubSeq(s, 3 * i + 1, 3 * i + l)), l + 1)
           IN  /\ y \in Seq(Int) /\ Len(y) = l + 1
               /\ \A k \in 1 .. l + 1 : y[k] = Reference(s)[4 * i + k]
<1> DEFINE x == SubSeq(s, 3 * i + 1, 3 * i + l)
           y == Groups(Joined(x), l + 1)
<1>1. x \in Seq(0 .. 255) /\ Len(x) = l /\ \A k \in 1 .. 3 : ByteAt(x, k) = ByteAt(s, 3 * i + k)
  BY BytesOfPart, ZenonT(30)
<1>2. l + 1 \in 1 .. 4
  OBVIOUS
<1> HIDE DEF x
<1>3. /\ y \in Seq(Int) /\ Len(y) = l + 1
      /\ \A k \in 1 .. l + 1 : y[k] = alphabet[Sextets(ByteAt(x, 1), ByteAt(x, 2), ByteAt(x, 3))[k]]
  BY <1>1, <1>2, GroupsOf
<1> HIDE DEF y
<1>4. ASSUME NEW k \in 1 .. l + 1 PROVE y[k] = Reference(s)[4 * i + k]
  <2>1. ByteAt(x, 1) = ByteAt(s, 3 * i + 1) /\ ByteAt(x, 2) = ByteAt(s, 3 * i + 2) /\ ByteAt(x, 3) = ByteAt(s, 3 * i + 3)
    BY <1>1
  <2>2. k \in 1 .. 4
    OBVIOUS
  <2>3. SixBits(s, 4 * i + k) = Sextets(ByteAt(s, 3 * i + 1), ByteAt(s, 3 * i + 2), ByteAt(s, 3 * i + 3))[k]
    BY <2>2, SixBitsSextets
  <2>4. Len(s) \in Nat
    OBVIOUS
  <2>5. 4 * i + k \in 1 .. 4 * ((Len(s) + 2) \div 3) /\ 4 * i + k <= Used(s)
    BY <2>4 DEF Used
  <2>6. Reference(s)[4 * i + k] = alphabet[SixBits(s, 4 * i + k)]
    BY <2>5, ReferenceShape
  <2> QED
    BY <1>3, <2>1, <2>3, <2>6
<1> QED
  BY <1>3, <1>4 DEF x, y

\* base64_encode computes the reference.
LEMMA EncodesReference ==
    ASSUME NEW s \in Seq(0 .. 255)
    PROVE  base64_encode(s) = Reference(s)
<1> DEFINE row == Reference(s)
           full == Len(s) \div 3
           triple(i) == SubSeq(s, 3 * i - 2, 3 * i)
           seqs == [i \in 1 .. full |-> Groups(Joined(triple(i)), 4)]
           off == [i \in 0 .. full |-> 4 * i]
           rest == SubSeq(s, 3 * full + 1, Len(s))
           tail == IF rest = <<>> THEN <<>>
                   ELSE Groups(Joined(rest), Len(rest) + 1) \o pad_chars[Len(rest)]
<1>1. Len(s) \in Nat /\ full \in Nat /\ 3 * full <= Len(s) /\ Len(s) <= 3 * full + 2
  OBVIOUS
<1>2. /\ row \in Seq(Int) /\ Len(row) = 4 * ((Len(s) + 2) \div 3)
      /\ \A j \in 1 .. Len(row) : j > Used(s) => row[j] = pad_char
  <2>1. 0 .. 255 \subseteq Int
    OBVIOUS
  <2>2. row \in Seq(0 .. 255)
    BY ReferenceShape
  <2>3. row \in Seq(Int)
    BY <2>1, <2>2, SeqMonotonic
  <2>4. Len(s) \in Nat /\ Used(s) \in Nat
    BY DEF Used
  <2> QED
    BY <2>3, <2>4, ReferenceShape
<1> HIDE DEF full, row
<1>3. 4 * full <= Len(row) /\ Len(row) \in Nat
  BY <1>1, <1>2 DEF full
<1>4. ASSUME NEW i \in 1 .. full
      PROVE  /\ seqs[i] \in Seq(Int) /\ Len(seqs[i]) = 4
             /\ \A k \in 1 .. 4 : seqs[i][k] = row[4 * (i - 1) + k]
  <2> DEFINE h == i - 1
             y == Groups(Joined(SubSeq(s, 3 * h + 1, 3 * h + 3)), 4)
  <2>1. h \in Nat /\ 3 * h + 3 <= Len(s) /\ 3 * h + 1 = 3 * i - 2 /\ 3 * h + 3 = 3 * i
    BY <1>1
  <2>2. seqs[i] = y
    BY <2>1
  <2> HIDE DEF seqs, h
  <2>3. PICK l \in 1 .. 3 : l = 3
    OBVIOUS
  <2>4. /\ Groups(Joined(SubSeq(s, 3 * h + 1, 3 * h + l)), l + 1) \in Seq(Int)
        /\ Len(Groups(Joined(SubSeq(s, 3 * h + 1, 3 * h + l)), l + 1)) = l + 1
        /\ \A k \in 1 .. l + 1 : Groups(Joined(SubSeq(s, 3 * h + 1, 3 * h + l)), l + 1)[k] = Reference(s)[4 * h + k]
    BY <2>1, <2>3, EncodedPart
  <2>5. l + 1 = 4
    BY <2>3
  <2>6. y \in Seq(Int) /\ Len(y) = 4 /\ \A k \in 1 .. 4 : y[k] = Reference(s)[4 * h + k]
    BY <2>3, <2>4, <2>5
  <2> HIDE DEF y
  <2> QED
    BY <2>2, <2>6 DEF h, row
<1>5. FlattenSeq(seqs) = First(row, 4 * full)
  <2>1. seqs \in Seq(Seq(Int)) /\ Len(seqs) = full
    <3> DEFINE z(i) == Groups(Joined(triple(i)), 4)
    <3>1. \A i \in 1 .. full : z(i) \in Seq(Int)
      BY <1>4
    <3>2. seqs = [i \in 1 .. full |-> z(i)]
      OBVIOUS
    <3> HIDE DEF z, seqs
    <3> QED
      BY <1>1, <3>1, <3>2
  <2>2. off \in [0 .. full -> 0 .. Len(row)] /\ off[0] = 0 /\ off[full] = 4 * full
    BY <1>1, <1>3
  <2>3. ASSUME NEW i \in 1 .. full PROVE off[i] = off[i - 1] + 4 /\ off[i - 1] = 4 * (i - 1)
    BY <1>1
  <2> HIDE DEF seqs, off
  <2>4. \A i \in 1 .. Len(seqs) :
               /\ off[i] = off[i - 1] + Len(seqs[i])
               /\ \A k \in 1 .. Len(seqs[i]) : seqs[i][k] = row[off[i - 1] + k]
    BY <1>4, <2>1, <2>3, ZenonT(30)
  <2> QED
    BY <1>2, <2>1, <2>2, <2>4, FlattenRow
<1>6. tail \in Seq(Int) /\ Len(tail) = Len(row) - 4 * full /\ \A k \in 1 .. Len(tail) : tail[k] = row[4 * full + k]
  <2>1. /\ rest \in Seq(0 .. 255) /\ Len(rest) = Len(s) - 3 * full
    <3> DEFINE u == 3 * full
               v == Len(s)
    <3>1. u \in 0 .. Len(s) /\ v \in 0 .. Len(s) /\ u <= v
      BY <1>1
    <3> HIDE DEF u, v
    <3>2. SubSeq(s, u + 1, v) \in Seq(0 .. 255) /\ Len(SubSeq(s, u + 1, v)) = v - u
      BY <3>1, PartOf
    <3> QED
      BY <3>2 DEF u, v
  <2>2. CASE Len(s) = 3 * full
    <3>1. rest = <<>>
      <4> HIDE DEF rest
      <4> QED
        BY <1>1, <2>1, <2>2
    <3>2. tail = <<>>
      BY <3>1
    <3>3. Len(row) = 4 * full
      BY <1>1, <1>2, <2>2
    <3> HIDE DEF tail
    <3> QED
      BY <1>3, <3>2, <3>3
  <2>3. CASE Len(s) # 3 * full
    <3> DEFINE l == Len(s) - 3 * full
               y == Groups(Joined(SubSeq(s, 3 * full + 1, 3 * full + l)), l + 1)
    <3>1. l \in 1 .. 2 /\ l \in 1 .. 3 /\ 3 * full + l = Len(s)
      BY <1>1, <2>3
    <3>2. rest = SubSeq(s, 3 * full + 1, 3 * full + l) /\ Len(rest) = l
      BY <2>1, <3>1
    <3> HIDE DEF l
    <3>3. y \in Seq(Int) /\ Len(y) = l + 1 /\ \A k \in 1 .. l + 1 : y[k] = row[4 * full + k]
      <4>1. full \in Nat /\ 3 * full + l <= Len(s)
        BY <1>1, <3>1
      <4>2. y \in Seq(Int) /\ Len(y) = l + 1 /\ \A k \in 1 .. l + 1 : y[k] = Reference(s)[4 * full + k]
        BY <3>1, <4>1, EncodedPart
      <4> HIDE DEF y
      <4> QED
        BY <4>2 DEF row
    <3>4. rest # <<>>
      <4> HIDE DEF rest
      <4>1. Len(rest) = l /\ l # 0
        <5>1. Len(rest) = l
          BY <3>2
        <5>2. l # 0
          BY <3>1
        <5> QED
          BY <5>1, <5>2
      <4>2. ASSUME rest = <<>> PROVE FALSE
        <5>1. Len(<<>>) = l
          BY <4>1, <4>2
        <5>2. Len(<<>>) = 0
          OBVIOUS
        <5> QED
          BY <4>1, <5>1, <5>2
      <4> QED
        BY <4>2
    <3>5. tail = y \o pad_chars[l]
      BY <3>2, <3>4
    <3> DEFINE p == pad_chars[l]
    <3>6. p \in Seq(Int) /\ Len(p) = 3 - l /\ \A k \in 1 .. 3 - l : p[k] = pad_char
      <4>1. CASE l = 1
        BY <4>1 DEF pad_chars, pad_char
      <4>2. CASE l = 2
        BY <4>2 DEF pad_chars, pad_char
      <4> QED
        BY <3>1, <4>1, <4>2
    <3>7. Len(row) = 4 * full + 4 /\ Used(s) = 4 * full + l + 1
      <4>1. (Len(s) + 2) \div 3 = full + 1
        BY <1>1, <3>1
      <4>2. (8 * Len(s) + 5) \div 6 = 4 * full + l + 1
        BY <1>1, <3>1
      <4>3. Len(row) = 4 * (full + 1)
        BY <1>2, <4>1
      <4> QED
        BY <1>1, <4>2, <4>3 DEF Used
    <3> HIDE DEF y, p, tail
    <3>8. /\ tail \in Seq(Int) /\ Len(tail) = Len(y) + Len(p)
          /\ \A k \in 1 .. Len(y) + Len(p) : tail[k] = IF k <= Len(y) THEN y[k] ELSE p[k - Len(y)]
      BY <3>3, <3>5, <3>6, ConcatProperties, ZenonT(30) DEF p
    <3>9. Len(y) + Len(p) = 4
      BY <3>1, <3>3, <3>6
    <3>10. ASSUME NEW k \in 1 .. 4 PROVE tail[k] = row[4 * full + k]
      <4>1. CASE k <= l + 1
        BY <3>1, <3>3, <3>8, <3>9, <4>1
      <4>2. CASE ~(k <= l + 1)
        <5>1. k - (l + 1) \in 1 .. 3 - l
          BY <3>1, <4>2
        <5>2. tail[k] = pad_char
          BY <3>3, <3>6, <3>8, <3>9, <4>2, <5>1
        <5>3. 4 * full + k \in 1 .. Len(row) /\ 4 * full + k > Used(s)
          BY <1>1, <3>1, <3>7, <4>2
        <5> QED
          BY <1>2, <5>2, <5>3
      <4> QED
        BY <4>1, <4>2
    <3>11. Len(tail) = 4 /\ Len(row) - 4 * full = 4
      BY <1>1, <3>7, <3>8, <3>9
    <3> QED
      BY <3>8, <3>10, <3>11
  <2> QED
    BY <2>2, <2>3
<1>7. base64_encode(s) = FlattenSeq(seqs) \o tail
  BY DEF base64_encode, full
<1> HIDE DEF seqs, tail
<1>8. First(row, 4 * full) \o tail = First(row, Len(row))
  <2> DEFINE a == 4 * full
             b == Len(row)
  <2>1. a \in Nat /\ b \in Nat /\ a <= b /\ Len(tail) = b - a /\ \A k \in 1 .. Len(tail) : tail[k] = row[a + k]
    BY <1>1, <1>3, <1>6
  <2> HIDE DEF a, b
  <2>2. b <= Len(row)
    BY <1>3 DEF b
  <2>3. First(row, a) \o tail = First(row, b)
    BY <1>2, <1>6, <2>1, <2>2, FirstAndNext
  <2> QED
    BY <2>3 DEF a, b
<1> QED
  BY <1>2, <1>5, <1>7, <1>8, FirstAll DEF row

-----------------------------------------------------------------------------
(* Base64: what passes, and decoding.                                      *)

\* n groups of four characters, the last p of them padding.
Encoded(s, n, p) ==
    /\ Len(s) = 4 * n /\ p \in 0 .. 2 /\ (p > 0 => n > 0)
    /\ \A j \in 1 .. 4 * n :
        IF j > 4 * n - p THEN s[j] = pad_char
        ELSE s[j] # pad_char /\ decode_table[s[j]] \in 0 .. 63 /\ alphabet[decode_table[s[j]]] = s[j]

\* The padding is counted, and nothing is wrong with such a string.
LEMMA EncodedPasses ==
    ASSUME NEW s \in Seq(0 .. 255), NEW n \in Nat, NEW p, Encoded(s, n, p)
    PROVE  pad_length(s) = p /\ ~calc_throws(s)
<1>1. p \in 0 .. 2 /\ Len(s) = 4 * n
  BY DEF Encoded
<1>2. ASSUME NEW j \in 1 .. 4 * n
      PROVE  /\ s[j] = pad_char <=> j > 4 * n - p
             /\ s[j] # pad_char => decode_table[s[j]] # invalid_char
  <2>1. IF j > 4 * n - p THEN s[j] = pad_char
        ELSE s[j] # pad_char /\ decode_table[s[j]] \in 0 .. 63
    BY DEF Encoded
  <2>2. \A x \in 0 .. 63 : x # invalid_char
    BY DEF invalid_char
  <2> QED
    BY <2>1, <2>2
<1> DEFINE lo == 4 * n - p + 1
           hi == 4 * n
<1>3. Pads(s) = lo .. hi
  <2>1. 0 .. 2 \subseteq Int /\ p \in Int
    BY <1>1
  <2>2. CASE p > 0
    <3>1. n > 0
      BY <2>2 DEF Encoded
    <3>2. lo >= 1
      BY <1>1, <3>1
    <3>3. \A j \in 1 .. hi : j > 4 * n - p <=> j \in lo .. hi
      BY <1>1
    <3>4. \A j \in lo .. hi : j \in 1 .. hi
      BY <1>1, <3>2
    <3> QED
      BY <1>1, <1>2, <3>3, <3>4 DEF Pads
  <2>3. CASE ~(p > 0)
    <3>1. p = 0
      BY <1>1, <2>3
    <3>2. \A j \in 1 .. hi : ~(j > 4 * n - p)
      BY <3>1
    <3>3. Pads(s) = {}
      BY <1>1, <1>2, <3>2 DEF Pads
    <3>4. lo .. hi = {}
      BY <3>1
    <3> QED
      BY <3>3, <3>4
  <2> QED
    BY <2>2, <2>3
<1>4. pad_length(s) = p
  <2>1. lo \in Int /\ hi \in Int
    BY <1>1
  <2>2. (IF lo > hi THEN 0 ELSE hi - lo + 1) = p
    BY <1>1
  <2> HIDE DEF lo, hi
  <2>3. Cardinality(lo .. hi) = IF lo > hi THEN 0 ELSE hi - lo + 1
    BY <2>1, FS_Interval
  <2> QED
    BY <1>3, <2>2, <2>3 DEF pad_length
<1>5. Len(s) % 4 = 0 /\ ~(pad_length(s) > 2)
  BY <1>1, <1>4
<1>6. ASSUME NEW i \in 1 .. Len(s), i \notin Pads(s)
      PROVE  decode_table[s[i]] # invalid_char /\ ~\E j \in Pads(s) : j < i
  <2>1. i \in 1 .. 4 * n /\ s[i] # pad_char
    BY <1>1, <1>6 DEF Pads
  <2>2. ~(i > 4 * n - p)
    BY <1>2, <2>1
  <2>3. ASSUME NEW j \in Pads(s) PROVE ~(j < i)
    <3>1. j \in 1 .. 4 * n /\ s[j] = pad_char
      BY <1>1 DEF Pads
    <3>2. j > 4 * n - p
      BY <1>2, <3>1
    <3> QED
      BY <1>1, <2>1, <2>2, <3>1, <3>2
  <2> QED
    BY <1>2, <2>1, <2>3
<1>7. ~calc_throws(s)
  BY <1>5, <1>6 DEF calc_throws
<1> QED
  BY <1>4, <1>7

\* The strings of the encoding are the well-formed ones.
LEMMA EncodedWellFormed ==
    ASSUME NEW s \in Seq(0 .. 255)
    PROVE  WellFormed(s) <=> \E n \in Nat : \E p \in 0 .. 2 : Encoded(s, n, p)
<1>1. Len(s) \in Nat /\ \A j \in 1 .. Len(s) : s[j] \in 0 .. 255
  BY ElementOfSeq
<1>2. ASSUME WellFormed(s) PROVE \E n \in Nat : \E p \in 0 .. 2 : Encoded(s, n, p)
  <2>1. PICK p \in 0 .. 2 :
            /\ p > 0 => Len(s) > 0
            /\ \A i \in 1 .. Len(s) :
                IF i > Len(s) - p THEN s[i] = pad_char
                ELSE \E g \in 0 .. 63 : alphabet[g] = s[i]
    BY <1>2 DEF WellFormed
  <2> DEFINE n == Len(s) \div 4
  <2>2. Len(s) % 4 = 0
    BY <1>2 DEF WellFormed
  <2>3. n \in Nat /\ Len(s) = 4 * n /\ (p > 0 => n > 0)
    BY <1>1, <2>1, <2>2
  <2>4. ASSUME NEW j \in 1 .. Len(s), ~(j > Len(s) - p)
        PROVE  s[j] # pad_char /\ decode_table[s[j]] \in 0 .. 63 /\ alphabet[decode_table[s[j]]] = s[j]
    <3>1. PICK g \in 0 .. 63 : alphabet[g] = s[j]
      BY <2>1, <2>4
    <3>2. alphabet[g] # pad_char /\ decode_table[alphabet[g]] = g
      BY AlphabetDecodes
    <3> QED
      BY <3>1, <3>2
  <2> HIDE DEF n
  <2>5. Encoded(s, n, p)
    BY <2>1, <2>3, <2>4 DEF Encoded
  <2> QED
    BY <2>3, <2>5
<1>3. ASSUME NEW n \in Nat, NEW p \in 0 .. 2, Encoded(s, n, p) PROVE WellFormed(s)
  <2>1. Len(s) = 4 * n /\ (p > 0 => n > 0)
    BY <1>3 DEF Encoded
  <2>2. Len(s) % 4 = 0 /\ (p > 0 => Len(s) > 0)
    BY <2>1
  <2>3. ASSUME NEW i \in 1 .. Len(s)
        PROVE  IF i > Len(s) - p THEN s[i] = pad_char ELSE \E g \in 0 .. 63 : alphabet[g] = s[i]
    BY <1>3, <2>1 DEF Encoded
  <2> QED
    BY <2>2, <2>3 DEF WellFormed
<1> QED
  BY <1>2, <1>3

\* Nothing but such a string passes.
LEMMA PassesEncoded ==
    ASSUME NEW s \in Seq(0 .. 255), ~calc_throws(s)
    PROVE  \E n \in Nat : \E p \in 0 .. 2 : Encoded(s, n, p)
<1>1. Len(s) \in Nat /\ \A j \in 1 .. Len(s) : s[j] \in 0 .. 255
  BY ElementOfSeq
<1>2. /\ Len(s) % 4 = 0
      /\ \A i \in 1 .. Len(s) :
          i \notin Pads(s) => decode_table[s[i]] # invalid_char /\ \A j \in Pads(s) : ~(j < i)
      /\ ~(pad_length(s) > 2)
  BY DEF calc_throws
<1> DEFINE n == Len(s) \div 4
<1>3. n \in Nat /\ Len(s) = 4 * n
  BY <1>1, <1>2
<1>4. ASSUME NEW j \in 1 .. Len(s), j \notin Pads(s)
      PROVE  s[j] # pad_char /\ decode_table[s[j]] \in 0 .. 63 /\ alphabet[decode_table[s[j]]] = s[j]
  <2>1. decode_table[s[j]] # invalid_char /\ s[j] \in 0 .. 255
    BY <1>1, <1>2, <1>4
  <2> QED
    BY <2>1, DecodedEncodes
<1>5. ASSUME NEW j \in Pads(s) PROVE j \in 1 .. Len(s) /\ s[j] = pad_char
  BY DEF Pads
<1> HIDE DEF n
<1>6. CASE Pads(s) = {}
  <2>1. \A j \in 1 .. 4 * n : ~(j > 4 * n - 0)
    BY <1>3
  <2>2. Encoded(s, n, 0)
    BY <1>3, <1>4, <1>6, <2>1 DEF Encoded
  <2> QED
    BY <1>3, <2>2
<1>7. CASE Pads(s) # {}
  <2>1. Pads(s) \in SUBSET Nat
    BY <1>1, <1>5
  <2>2. PICK lo \in Pads(s) : \A j \in Pads(s) : lo <= j
    BY <1>7, <2>1, LeastNumber
  <2>3. lo \in 1 .. 4 * n
    BY <1>3, <1>5
  <2> DEFINE hi == 4 * n
             p == hi - lo + 1
  <2>4. ASSUME NEW j \in 1 .. Len(s) PROVE j \in Pads(s) <=> j >= lo
    <3>1. ASSUME j \notin Pads(s) PROVE ~(j >= lo)
      <4>1. ~(lo < j) /\ lo # j
        BY <1>2, <3>1
      <4> QED
        BY <1>3, <2>3, <4>1
    <3> QED
      BY <2>2, <3>1
  <2>5. Pads(s) = lo .. hi
    <3>1. ASSUME NEW j \in lo .. hi PROVE j \in Pads(s)
      <4>1. j \in 1 .. Len(s) /\ j >= lo
        BY <1>3, <2>3
      <4> QED
        BY <2>4, <4>1
    <3>2. ASSUME NEW j \in Pads(s) PROVE j \in lo .. hi
      <4>1. j \in 1 .. Len(s) /\ lo <= j
        BY <1>5, <2>2
      <4> QED
        BY <1>3, <2>3, <4>1
    <3> HIDE DEF hi
    <3> QED
      BY <3>1, <3>2
  <2>6. pad_length(s) = p
    <3>1. lo \in Int /\ hi \in Int /\ ~(lo > hi)
      BY <1>3, <2>3
    <3> HIDE DEF hi
    <3>2. Cardinality(lo .. hi) = IF lo > hi THEN 0 ELSE hi - lo + 1
      BY <3>1, FS_Interval
    <3> QED
      BY <2>5, <3>1, <3>2 DEF pad_length
  <2>7. p \in 0 .. 2 /\ n > 0 /\ 4 * n - p = lo - 1
    BY <1>2, <1>3, <2>3, <2>6
  <2> HIDE DEF p
  <2>8. \A j \in 1 .. Len(s) : j > 4 * n - p <=> j \in Pads(s)
    BY <1>3, <2>3, <2>4, <2>7
  <2>9. Encoded(s, n, p)
    BY <1>3, <1>4, <1>5, <2>7, <2>8 DEF Encoded
  <2> QED
    BY <1>3, <2>7, <2>9
<1> QED
  BY <1>6, <1>7

\* The three bytes of four groups.
Octets(g1, g2, g3, g4) == <<g1 * 4 + g2 \div 16, (g2 % 16) * 16 + g3 \div 4, (g3 % 4) * 64 + g4>>

\* The group of character j.
GroupAt(s, j) == decode_table[s[j]]

\* Byte k of the three that the four characters behind 4 * i decode to.
OctetAt(s, i, k) ==
    Octets(GroupAt(s, 4 * i + 1), GroupAt(s, 4 * i + 2), GroupAt(s, 4 * i + 3), GroupAt(s, 4 * i + 4))[k]

\* Byte m of what s decodes to.
DecodedAt(s, m) == OctetAt(s, (m - 1) \div 3, ((m - 1) % 3) + 1)

\* By the group it lies in.
LEMMA DecodedOctet ==
    ASSUME NEW s, NEW i \in Nat, NEW k \in 1 .. 3
    PROVE  DecodedAt(s, 3 * i + k) = OctetAt(s, i, k)
<1>1. (3 * i + k - 1) \div 3 = i /\ ((3 * i + k - 1) % 3) + 1 = k
  OBVIOUS
<1> QED
  BY <1>1 DEF DecodedAt

\* What the decoder makes of two to four characters.
LEMMA BytesOf ==
    ASSUME NEW x \in Seq(0 .. 255), Len(x) \in 2 .. 4,
           \A k \in 1 .. Len(x) : GroupAt(x, k) \in 0 .. 63
    PROVE  /\ Bytes(x) \in Seq(Int) /\ Len(Bytes(x)) = Len(x) - 1
           /\ Bytes(x)[1] = GroupAt(x, 1) * 4 + GroupAt(x, 2) \div 16
           /\ Len(x) > 2 => Bytes(x)[2] = (GroupAt(x, 2) % 16) * 16 + GroupAt(x, 3) \div 4
           /\ Len(x) > 3 => Bytes(x)[3] = (GroupAt(x, 3) % 4) * 64 + GroupAt(x, 4)
<1>0. 1 <= Len(x) /\ 2 <= Len(x) /\ (Len(x) > 2 => 3 <= Len(x)) /\ (Len(x) > 3 => 4 <= Len(x))
  <2>1. PICK m \in 2 .. 4 : m = Len(x)
    OBVIOUS
  <2>2. 1 <= m /\ 2 <= m /\ (m > 2 => 3 <= m) /\ (m > 3 => 4 <= m)
    OBVIOUS
  <2> QED
    BY <2>1, <2>2
<1> DEFINE g(k) == IF k <= Len(x) THEN GroupAt(x, k) ELSE 0
           g1 == g(1)
           g2 == g(2)
           g3 == g(3)
           g4 == g(4)
           bx == g1 * 262144 + g2 * 4096 + g3 * 64 + g4
           y == <<bx \div 65536, (bx \div 256) % 256, bx % 256>>
           l == Len(x) - 1
<1>1. g1 \in 0 .. 63 /\ g2 \in 0 .. 63 /\ g3 \in 0 .. 63 /\ g4 \in 0 .. 63
  <2>1. ASSUME NEW k \in 1 .. 4 PROVE g(k) \in 0 .. 63
    <3>1. CASE k <= Len(x)
      <4>1. k \in 1 .. Len(x)
        BY <3>1
      <4> QED
        BY <3>1, <4>1
    <3>2. CASE ~(k <= Len(x))
      BY <3>2
    <3> QED
      BY <3>1, <3>2
  <2> QED
    BY <2>1
<1>2. Bytes(x) = SubSeq(y, 1, l)
  BY SMT DEF Bytes, GroupAt
<1>3. /\ bx \div 65536 = g1 * 4 + g2 \div 16
      /\ (bx \div 256) % 256 = (g2 % 16) * 16 + g3 \div 4
      /\ bx % 256 = (g3 % 4) * 64 + g4
  <2>1. bx = g1 * 262144 + g2 * 4096 + g3 * 64 + g4
    BY SMT
  <2> HIDE DEF g1, g2, g3, g4, bx
  <2>2. bx \div 65536 = g1 * 4 + g2 \div 16
    BY <1>1, <2>1, SMT
  <2>3. (bx \div 256) % 256 = (g2 % 16) * 16 + g3 \div 4
    <3>1. PICK h1 \in 0 .. 3, h0 \in 0 .. 15 : g2 = 16 * h1 + h0 /\ h0 = g2 % 16
      BY <1>1, g2 \div 16 \in 0 .. 3, g2 % 16 \in 0 .. 15, g2 = 16 * (g2 \div 16) + (g2 % 16)
    <3>2. PICK e1 \in 0 .. 15, e0 \in 0 .. 3 : g3 = 4 * e1 + e0 /\ e1 = g3 \div 4
      BY <1>1, g3 \div 4 \in 0 .. 15, g3 % 4 \in 0 .. 3, g3 = 4 * (g3 \div 4) + (g3 % 4)
    <3>3. bx \div 256 = 256 * (4 * g1 + h1) + (16 * h0 + e1)
      BY <1>1, <2>1, <3>1, <3>2, SMT
    <3>4. (bx \div 256) % 256 = 16 * h0 + e1
      BY <1>1, <3>3, SMT
    <3> QED
      BY <3>1, <3>2, <3>4, SMT
  <2>4. bx % 256 = (g3 % 4) * 64 + g4
    BY <1>1, <2>1, SMT
  <2> QED
    BY <2>2, <2>3, <2>4, SMT
<1>4. g1 = GroupAt(x, 1) /\ g2 = GroupAt(x, 2) /\ (Len(x) > 2 => g3 = GroupAt(x, 3)) /\ (Len(x) > 3 => g4 = GroupAt(x, 4))
  BY <1>0
<1> HIDE DEF g1, g2, g3, g4, bx
<1> DEFINE y1 == g1 * 4 + g2 \div 16
           y2 == (g2 % 16) * 16 + g3 \div 4
           y3 == (g3 % 4) * 64 + g4
<1>5. y = <<y1, y2, y3>>
  BY <1>3, SMT
<1>6. y1 \in Int /\ y2 \in Int /\ y3 \in Int
  BY <1>1
<1> HIDE DEF y, y1, y2, y3
<1>7. y \in Seq(Int) /\ Len(y) = 3 /\ y[1] = y1 /\ y[2] = y2 /\ y[3] = y3
  BY <1>5, <1>6
<1>8. l \in 1 .. 3
  OBVIOUS
<1>9. /\ SubSeq(y, 1, l) \in Seq(Int) /\ Len(SubSeq(y, 1, l)) = l
      /\ \A k \in 1 .. l : SubSeq(y, 1, l)[k] = y[k]
  <2> DEFINE u == 0
  <2>1. u \in 0 .. Len(y) /\ l \in 0 .. Len(y) /\ u <= l
    <3> HIDE DEF l
    <3> QED
      BY <1>7, <1>8
  <2>2. u + 1 = 1 /\ l - u = l /\ \A k \in 1 .. l : u + k = k
    BY <1>8
  <2> HIDE DEF u, l
  <2>3. /\ SubSeq(y, u + 1, l) \in Seq(Int) /\ Len(SubSeq(y, u + 1, l)) = l - u
        /\ \A k \in 1 .. l - u : SubSeq(y, u + 1, l)[k] = y[u + k]
    BY <1>7, <2>1, PartOf
  <2> QED
    BY <2>2, <2>3
<1>10. /\ SubSeq(y, 1, l)[1] = y1 /\ (Len(x) > 2 => SubSeq(y, 1, l)[2] = y2)
       /\ (Len(x) > 3 => SubSeq(y, 1, l)[3] = y3)
  <2>1. 1 \in 1 .. l /\ (Len(x) > 2 => 2 \in 1 .. l) /\ (Len(x) > 3 => 3 \in 1 .. l)
    <3>1. l = Len(x) - 1
      OBVIOUS
    <3> HIDE DEF l
    <3> QED
      BY <1>8, <3>1
  <2> HIDE DEF l
  <2> QED
    BY <1>7, <1>9, <2>1
<1>11. /\ y1 = GroupAt(x, 1) * 4 + GroupAt(x, 2) \div 16
       /\ Len(x) > 2 => y2 = (GroupAt(x, 2) % 16) * 16 + GroupAt(x, 3) \div 4
       /\ Len(x) > 3 => y3 = (GroupAt(x, 3) % 4) * 64 + GroupAt(x, 4)
  BY <1>4 DEF y1, y2, y3
<1> QED
  BY <1>2, <1>9, <1>10, <1>11

\* What the decoder makes of the characters behind 4 * i: all four, or all that
\* are not padding.
LEMMA DecodedPart ==
    ASSUME NEW s \in Seq(0 .. 255), NEW n \in Nat, NEW p, Encoded(s, n, p),
           NEW i \in Nat, NEW l \in 2 .. 4, 4 * i + l <= 4 * n - p
    PROVE  LET y == Bytes(SubSeq(s, 4 * i + 1, 4 * i + l))
           IN  /\ y \in Seq(Int) /\ Len(y) = l - 1
               /\ \A k \in 1 .. l - 1 : y[k] = OctetAt(s, i, k)
<1> DEFINE u == 4 * i
           v == 4 * i + l
           x == SubSeq(s, u + 1, v)
<1>1. Len(s) = 4 * n /\ p \in 0 .. 2
  BY DEF Encoded
<1>2. u \in 0 .. Len(s) /\ v \in 0 .. Len(s) /\ u <= v /\ v - u = l
  BY <1>1
<1>3. x \in Seq(0 .. 255) /\ Len(x) = l /\ \A k \in 1 .. l : x[k] = s[u + k]
  <2> HIDE DEF u, v
  <2> QED
    BY <1>2, PartOf
<1> HIDE DEF x
<1>4. ASSUME NEW k \in 1 .. l PROVE GroupAt(x, k) = GroupAt(s, 4 * i + k) /\ GroupAt(x, k) \in 0 .. 63
  <2>1. 4 * i + k \in 1 .. 4 * n /\ ~(4 * i + k > 4 * n - p)
    BY <1>1
  <2>2. decode_table[s[4 * i + k]] \in 0 .. 63
    BY <2>1 DEF Encoded
  <2>3. x[k] = s[4 * i + k]
    BY <1>3
  <2> QED
    BY <2>2, <2>3 DEF GroupAt
<1>5. /\ Bytes(x) \in Seq(Int) /\ Len(Bytes(x)) = l - 1
      /\ Bytes(x)[1] = GroupAt(x, 1) * 4 + GroupAt(x, 2) \div 16
      /\ l > 2 => Bytes(x)[2] = (GroupAt(x, 2) % 16) * 16 + GroupAt(x, 3) \div 4
      /\ l > 3 => Bytes(x)[3] = (GroupAt(x, 3) % 4) * 64 + GroupAt(x, 4)
  <2>1. \A k \in 1 .. Len(x) : GroupAt(x, k) \in 0 .. 63
    BY <1>3, <1>4
  <2>2. Len(x) = l /\ x \in Seq(0 .. 255) /\ Len(x) \in 2 .. 4
    BY <1>3
  <2> QED
    BY <2>1, <2>2, BytesOf
<1>6. ASSUME NEW k \in 1 .. l - 1 PROVE Bytes(x)[k] = OctetAt(s, i, k)
  <2>1. CASE k = 1
    <3>1. GroupAt(x, 1) = GroupAt(s, 4 * i + 1) /\ GroupAt(x, 2) = GroupAt(s, 4 * i + 2)
      BY <1>4
    <3> QED
      BY <1>5, <2>1, <3>1 DEF OctetAt, Octets
  <2>2. CASE k = 2
    <3>1. GroupAt(x, 2) = GroupAt(s, 4 * i + 2) /\ GroupAt(x, 3) = GroupAt(s, 4 * i + 3) /\ l > 2
      BY <1>4, <2>2
    <3> QED
      BY <1>5, <2>2, <3>1 DEF OctetAt, Octets
  <2>3. CASE k = 3
    <3>1. GroupAt(x, 3) = GroupAt(s, 4 * i + 3) /\ GroupAt(x, 4) = GroupAt(s, 4 * i + 4) /\ l > 3
      BY <1>4, <2>3
    <3> QED
      BY <1>5, <2>3, <3>1 DEF OctetAt, Octets
  <2> QED
    BY <2>1, <2>2, <2>3
<1> QED
  BY <1>5, <1>6 DEF x

\* base64_decode of such a string: its length and its bytes.
LEMMA Decodes ==
    ASSUME NEW s \in Seq(0 .. 255), NEW n \in Nat, NEW p, Encoded(s, n, p)
    PROVE  /\ 3 * n - p \in Nat
           /\ base64_decode(s) \in Seq(0 .. 255)
           /\ Len(base64_decode(s)) = 3 * n - p
           /\ \A m \in 1 .. 3 * n - p : base64_decode(s)[m] = DecodedAt(s, m)
<1> DEFINE length == 4 * n - p
           full == length \div 4
           size == 3 * n - p
           row == [m \in 1 .. size |-> DecodedAt(s, m)]
           quad(i) == SubSeq(s, 4 * i - 3, 4 * i)
           seqs == [i \in 1 .. full |-> Bytes(quad(i))]
           off == [i \in 0 .. full |-> 3 * i]
           rest == SubSeq(s, 4 * full + 1, length)
           tail == IF rest = <<>> THEN <<>> ELSE Bytes(rest)
<1>1. Len(s) = 4 * n /\ p \in 0 .. 2 /\ (p > 0 => n > 0)
  BY DEF Encoded
<1>2. size \in Nat /\ length \in Nat /\ full \in Nat
  BY <1>1
<1>3. IF p = 0 THEN full = n /\ length = 4 * full /\ size = 3 * full
      ELSE /\ full = n - 1 /\ length = 4 * full + (4 - p) /\ size = 3 * full + (3 - p)
           /\ 4 - p \in 2 .. 3
  BY <1>1
<1>4. ASSUME NEW m \in 1 .. size PROVE DecodedAt(s, m) \in 0 .. 255
  <2> DEFINE i == (m - 1) \div 3
             k == ((m - 1) % 3) + 1
  <2>1. i \in Nat /\ k \in 1 .. 3 /\ m = 3 * i + k
    BY <1>2
  <2>2. 4 * i + k + 1 <= length
    <3>1. 3 * i + k <= 3 * n - p
      BY <1>2, <2>1
    <3> HIDE DEF i, k
    <3> QED
      BY <1>1, <2>1, <3>1
  <2>3. DecodedAt(s, m) = OctetAt(s, i, k)
    BY DEF DecodedAt
  <2> HIDE DEF i, k
  <2>4. ASSUME NEW j \in 1 .. k + 1 PROVE GroupAt(s, 4 * i + j) \in 0 .. 63
    <3>1. 4 * i + j \in 1 .. 4 * n /\ ~(4 * i + j > 4 * n - p)
      BY <1>1, <2>1, <2>2
    <3> QED
      BY <3>1 DEF Encoded, GroupAt
  <2>5. CASE k = 1
    <3>1. GroupAt(s, 4 * i + 1) \in 0 .. 63 /\ GroupAt(s, 4 * i + 2) \in 0 .. 63
      BY <2>4, <2>5
    <3>2. OctetAt(s, i, k) = GroupAt(s, 4 * i + 1) * 4 + GroupAt(s, 4 * i + 2) \div 16
      BY <2>5 DEF OctetAt, Octets
    <3>3. \A x, y \in 0 .. 63 : x * 4 + y \div 16 \in 0 .. 255
      OBVIOUS
    <3>4. PICK x \in 0 .. 63, y \in 0 .. 63 : x = GroupAt(s, 4 * i + 1) /\ y = GroupAt(s, 4 * i + 2)
      BY <3>1
    <3>5. OctetAt(s, i, k) = x * 4 + y \div 16
      BY <3>2, <3>4
    <3> QED
      BY <2>3, <3>3, <3>5
  <2>6. CASE k = 2
    <3>1. GroupAt(s, 4 * i + 2) \in 0 .. 63 /\ GroupAt(s, 4 * i + 3) \in 0 .. 63
      BY <2>4, <2>6
    <3>2. OctetAt(s, i, k) = (GroupAt(s, 4 * i + 2) % 16) * 16 + GroupAt(s, 4 * i + 3) \div 4
      BY <2>6 DEF OctetAt, Octets
    <3>3. \A x, y \in 0 .. 63 : (x % 16) * 16 + y \div 4 \in 0 .. 255
      OBVIOUS
    <3>4. PICK x \in 0 .. 63, y \in 0 .. 63 : x = GroupAt(s, 4 * i + 2) /\ y = GroupAt(s, 4 * i + 3)
      BY <3>1
    <3>5. OctetAt(s, i, k) = (x % 16) * 16 + y \div 4
      BY <3>2, <3>4
    <3> QED
      BY <2>3, <3>3, <3>5
  <2>7. CASE k = 3
    <3>1. GroupAt(s, 4 * i + 3) \in 0 .. 63 /\ GroupAt(s, 4 * i + 4) \in 0 .. 63
      BY <2>4, <2>7
    <3>2. OctetAt(s, i, k) = (GroupAt(s, 4 * i + 3) % 4) * 64 + GroupAt(s, 4 * i + 4)
      BY <2>7 DEF OctetAt, Octets
    <3>3. \A x, y \in 0 .. 63 : (x % 4) * 64 + y \in 0 .. 255
      OBVIOUS
    <3>4. PICK x \in 0 .. 63, y \in 0 .. 63 : x = GroupAt(s, 4 * i + 3) /\ y = GroupAt(s, 4 * i + 4)
      BY <3>1
    <3>5. OctetAt(s, i, k) = (x % 4) * 64 + y
      BY <3>2, <3>4
    <3> QED
      BY <2>3, <3>3, <3>5
  <2> QED
    BY <2>1, <2>5, <2>6, <2>7
<1> HIDE DEF length, full, size
<1>5. row \in Seq(0 .. 255) /\ Len(row) = size /\ \A m \in 1 .. size : row[m] = DecodedAt(s, m)
  BY <1>2, <1>4
<1>6. row \in Seq(Int)
  <2>1. 0 .. 255 \subseteq Int
    OBVIOUS
  <2> HIDE DEF row
  <2> QED
    BY <1>5, <2>1, SeqMonotonic
<1> HIDE DEF row
<1>7. 3 * full <= size /\ 4 * full <= length
  BY <1>1, <1>2, <1>3
<1>8. ASSUME NEW i \in Nat, NEW k \in 1 .. 3, 3 * i + k <= size PROVE row[3 * i + k] = OctetAt(s, i, k)
  <2>1. 3 * i + k \in 1 .. size
    BY <1>2, <1>8
  <2> QED
    BY <1>5, <2>1, DecodedOctet
<1>9. ASSUME NEW i \in 1 .. full
      PROVE  /\ seqs[i] \in Seq(Int) /\ Len(seqs[i]) = 3
             /\ \A k \in 1 .. 3 : seqs[i][k] = row[3 * (i - 1) + k]
  <2> DEFINE h == i - 1
  <2>1. h \in Nat /\ 4 * h + 4 <= length /\ 4 * h + 1 = 4 * i - 3 /\ 4 * h + 4 = 4 * i /\ 3 * h + 3 <= size
    BY <1>2, <1>7
  <2>2. seqs[i] = Bytes(SubSeq(s, 4 * h + 1, 4 * h + 4))
    BY <2>1
  <2> HIDE DEF seqs, h
  <2>3. PICK l \in 2 .. 4 : l = 4
    OBVIOUS
  <2>4. 4 * h + l <= 4 * n - p
    BY <2>1, <2>3 DEF length
  <2> DEFINE y == Bytes(SubSeq(s, 4 * h + 1, 4 * h + l))
  <2>5. y \in Seq(Int) /\ Len(y) = l - 1 /\ \A k \in 1 .. l - 1 : y[k] = OctetAt(s, h, k)
    BY <2>1, <2>4, DecodedPart
  <2>6. y = seqs[i]
    BY <2>2, <2>3
  <2> HIDE DEF y
  <2>7. \A k \in 1 .. 3 : row[3 * h + k] = OctetAt(s, h, k)
    <3> TAKE k \in 1 .. 3
    <3>1. 3 * h + k <= size
      BY <1>2, <2>1
    <3> QED
      BY <1>8, <2>1, <3>1
  <2>8. l - 1 = 3
    BY <2>3
  <2>9. y \in Seq(Int) /\ Len(y) = 3 /\ \A k \in 1 .. 3 : y[k] = OctetAt(s, h, k)
    BY <2>5, <2>8
  <2> QED
    BY <2>6, <2>7, <2>9 DEF h
<1>10. FlattenSeq(seqs) = First(row, 3 * full)
  <2>1. seqs \in Seq(Seq(Int)) /\ Len(seqs) = full
    <3> DEFINE z(i) == Bytes(quad(i))
    <3>1. \A i \in 1 .. full : z(i) \in Seq(Int)
      BY <1>9
    <3>2. seqs = [i \in 1 .. full |-> z(i)]
      OBVIOUS
    <3> HIDE DEF z, seqs
    <3> QED
      BY <1>2, <3>1, <3>2
  <2>2. off \in [0 .. full -> 0 .. Len(row)] /\ off[0] = 0 /\ off[full] = 3 * full
    BY <1>2, <1>5, <1>7
  <2>3. ASSUME NEW i \in 1 .. full PROVE off[i] = off[i - 1] + 3 /\ off[i - 1] = 3 * (i - 1)
    BY <1>2
  <2> HIDE DEF seqs, off
  <2>4. \A i \in 1 .. Len(seqs) :
               /\ off[i] = off[i - 1] + Len(seqs[i])
               /\ \A k \in 1 .. Len(seqs[i]) : seqs[i][k] = row[off[i - 1] + k]
    BY <1>9, <2>1, <2>3, ZenonT(30)
  <2> QED
    BY <1>6, <2>1, <2>2, <2>4, FlattenRow
<1>11. tail \in Seq(Int) /\ Len(tail) = size - 3 * full /\ \A k \in 1 .. Len(tail) : tail[k] = row[3 * full + k]
  <2>1. Len(rest) = length - 4 * full /\ rest \in Seq(0 .. 255)
    <3> DEFINE u == 4 * full
    <3>1. u \in 0 .. Len(s) /\ length \in 0 .. Len(s) /\ u <= length
      BY <1>1, <1>2, <1>7 DEF length
    <3> HIDE DEF u
    <3>2. SubSeq(s, u + 1, length) \in Seq(0 .. 255) /\ Len(SubSeq(s, u + 1, length)) = length - u
      BY <3>1, PartOf
    <3> QED
      BY <3>2 DEF u
  <2>2. CASE p = 0
    <3>1. length - 4 * full = 0 /\ size - 3 * full = 0
      BY <1>2, <1>3, <2>2
    <3>2. rest = <<>>
      <4> HIDE DEF rest
      <4> QED
        BY <2>1, <3>1
    <3>3. tail = <<>>
      BY <3>2
    <3> HIDE DEF tail
    <3> QED
      BY <3>1, <3>3
  <2>3. CASE p # 0
    <3> DEFINE l == 4 - p
    <3>1. l \in 2 .. 3 /\ l \in 2 .. 4 /\ length = 4 * full + l /\ size = 3 * full + (l - 1)
      BY <1>1, <1>3, <2>3
    <3> HIDE DEF l
    <3> DEFINE y == Bytes(SubSeq(s, 4 * full + 1, 4 * full + l))
    <3>2. 4 * full + l <= 4 * n - p
      <4>1. 4 * full + l = 4 * n - p
        BY <3>1 DEF length
      <4> QED
        BY <1>1, <4>1
    <3>3. y \in Seq(Int) /\ Len(y) = l - 1 /\ \A k \in 1 .. l - 1 : y[k] = OctetAt(s, full, k)
      <4>1. full \in Nat /\ l \in 2 .. 4
        BY <1>2, <3>1
      <4> QED
        BY <3>2, <4>1, DecodedPart
    <3>4. Len(rest) = l /\ l # 0
      <4> HIDE DEF rest
      <4> QED
        BY <1>2, <2>1, <3>1
    <3>5. rest # <<>>
      <4> HIDE DEF rest
      <4>1. ASSUME rest = <<>> PROVE FALSE
        <5>1. Len(<<>>) = l
          BY <3>4, <4>1
        <5>2. Len(<<>>) = 0
          OBVIOUS
        <5> QED
          BY <3>4, <5>1, <5>2
      <4> QED
        BY <4>1
    <3>6. tail = y
      BY <3>1, <3>5
    <3> HIDE DEF tail, y
    <3>7. ASSUME NEW k \in 1 .. l - 1 PROVE y[k] = row[3 * full + k]
      <4>1. k \in 1 .. 3 /\ 3 * full + k <= size
        BY <1>2, <3>1
      <4> QED
        BY <1>2, <1>8, <3>3, <4>1
    <3>8. size - 3 * full = l - 1
      BY <1>2, <3>1
    <3> QED
      BY <3>3, <3>6, <3>7, <3>8
  <2> QED
    BY <2>2, <2>3
<1>12. base64_decode(s) = FlattenSeq(seqs) \o tail
  <2>1. Len(s) - pad_length(s) = length
    BY <1>1, EncodedPasses DEF length
  <2> QED
    BY <2>1 DEF base64_decode, full
<1> HIDE DEF seqs, tail
<1>13. First(row, 3 * full) \o tail = First(row, Len(row))
  <2> DEFINE a == 3 * full
             b == Len(row)
  <2>1. a \in Nat /\ b \in Nat /\ a <= b /\ Len(tail) = b - a /\ \A k \in 1 .. Len(tail) : tail[k] = row[a + k]
    BY <1>2, <1>5, <1>7, <1>11
  <2>2. b <= Len(row)
    BY <2>1 DEF b
  <2> HIDE DEF a, b
  <2>3. First(row, a) \o tail = First(row, b)
    BY <1>6, <1>11, <2>1, <2>2, FirstAndNext
  <2> QED
    BY <2>3 DEF a, b
<1>14. base64_decode(s) = row
  BY <1>6, <1>10, <1>12, <1>13, FirstAll
<1> QED
  BY <1>2, <1>5, <1>14 DEF size

\* The first two groups of three bytes give the first byte again.
LEMMA FirstOctet ==
    ASSUME NEW a \in 0 .. 255, NEW b \in 0 .. 255
    PROVE  (a \div 4) * 4 + ((a % 4) * 16 + b \div 16) \div 16 = a
OBVIOUS

\* The last two groups of three bytes give the last byte again.
LEMMA ThirdOctet ==
    ASSUME NEW b \in 0 .. 255, NEW c \in 0 .. 255
    PROVE  (((b % 16) * 4 + c \div 64) % 4) * 64 + (c % 64) = c
<1>1. PICK b0 \in 0 .. 15 : b0 = b % 16
  BY b % 16 \in 0 .. 15
<1>2. PICK c1 \in 0 .. 3, c0 \in 0 .. 63 : c1 = c \div 64 /\ c0 = c % 64 /\ c = 64 * c1 + c0
  BY c \div 64 \in 0 .. 3, c % 64 \in 0 .. 63, c = 64 * (c \div 64) + (c % 64)
<1>3. (b0 * 4 + c1) % 4 = c1
  OBVIOUS
<1>4. ((b0 * 4 + c1) % 4) * 64 + c0 = c
  BY <1>2, <1>3
<1> QED
  BY <1>1, <1>2, <1>4

\* The reference is such a string, and decodes to what it is the reference of.
LEMMA ReferenceDecodes ==
    ASSUME NEW s \in Seq(0 .. 255)
    PROVE  ~calc_throws(Reference(s)) /\ base64_decode(Reference(s)) = s
<1> DEFINE e == Reference(s)
           n == (Len(s) + 2) \div 3
           p == 3 * n - Len(s)
<1>1. Len(s) \in Nat /\ n \in Nat /\ p \in 0 .. 2 /\ (p > 0 => n > 0) /\ 3 * n - p = Len(s)
  <2>1. PICK m \in Nat : m = Len(s)
    OBVIOUS
  <2> DEFINE q == (m + 2) \div 3
  <2>2. q \in Nat /\ 3 * q >= m /\ 3 * q <= m + 2
    OBVIOUS
  <2>3. n = q
    BY <2>1
  <2> HIDE DEF q, n
  <2> QED
    BY <2>1, <2>2, <2>3
<1>2. Used(s) = 4 * n - p
  BY DEF Used
<1>3. e \in Seq(0 .. 255) /\ Len(e) = 4 * n
      /\ \A j \in 1 .. 4 * n :
            /\ SixBits(s, j) \in 0 .. 63
            /\ e[j] = IF j <= Used(s) THEN alphabet[SixBits(s, j)] ELSE pad_char
  BY ReferenceShape
<1> HIDE DEF e, n, p
<1>4. ASSUME NEW j \in 1 .. 4 * n
      PROVE  IF j > 4 * n - p THEN e[j] = pad_char
             ELSE e[j] # pad_char /\ decode_table[e[j]] = SixBits(s, j) /\ alphabet[SixBits(s, j)] = e[j]
  <2>1. j > 4 * n - p <=> ~(j <= Used(s))
    BY <1>1, <1>2
  <2>2. alphabet[SixBits(s, j)] # pad_char /\ decode_table[alphabet[SixBits(s, j)]] = SixBits(s, j)
    BY <1>3, AlphabetDecodes
  <2> QED
    BY <1>3, <2>1, <2>2
<1>5. Encoded(e, n, p)
  <2>1. ASSUME NEW j \in 1 .. 4 * n
        PROVE  IF j > 4 * n - p THEN e[j] = pad_char
               ELSE e[j] # pad_char /\ decode_table[e[j]] \in 0 .. 63 /\ alphabet[decode_table[e[j]]] = e[j]
    BY <1>3, <1>4
  <2> QED
    BY <1>1, <1>3, <2>1 DEF Encoded
<1>6. ~calc_throws(e)
  BY <1>1, <1>3, <1>5, EncodedPasses
<1> DEFINE d == base64_decode(e)
<1>7. d \in Seq(0 .. 255) /\ Len(d) = Len(s) /\ \A m \in 1 .. Len(s) : d[m] = DecodedAt(e, m)
  BY <1>1, <1>3, <1>5, Decodes
<1> HIDE DEF d
<1>8. ASSUME NEW m \in 1 .. Len(s) PROVE d[m] = s[m]
  <2> DEFINE i == (m - 1) \div 3
             k == ((m - 1) % 3) + 1
             a == ByteAt(s, 3 * i + 1)
             b == ByteAt(s, 3 * i + 2)
             c == ByteAt(s, 3 * i + 3)
  <2>1. i \in Nat /\ k \in 1 .. 3 /\ m = 3 * i + k
    BY <1>1
  <2>2. d[m] = OctetAt(e, i, k)
    BY <1>7 DEF DecodedAt
  <2> HIDE DEF i, k
  <2>3. a \in 0 .. 255 /\ b \in 0 .. 255 /\ c \in 0 .. 255
    <3>1. 3 * i + 1 \in Nat \ {0} /\ 3 * i + 2 \in Nat \ {0} /\ 3 * i + 3 \in Nat \ {0}
      BY <2>1
    <3> QED
      BY <3>1, ByteAtByte
  <2>4. ASSUME NEW j \in 1 .. k + 1 PROVE GroupAt(e, 4 * i + j) = Sextets(a, b, c)[j]
    <3>1. 4 * i + j \in 1 .. 4 * n /\ ~(4 * i + j > 4 * n - p)
      BY <1>1, <2>1
    <3>2. GroupAt(e, 4 * i + j) = SixBits(s, 4 * i + j)
      BY <1>4, <3>1 DEF GroupAt
    <3>3. j \in 1 .. 4
      BY <2>1
    <3>4. SixBits(s, 4 * i + j) = Sextets(a, b, c)[j]
      BY <2>1, <3>3, SixBitsSextets
    <3> QED
      BY <3>2, <3>4
  <2>5. s[m] = ByteAt(s, 3 * i + k)
    BY <1>1, <2>1 DEF ByteAt
  <2> HIDE DEF a, b, c
  <2>6. CASE k = 1
    <3>1. GroupAt(e, 4 * i + 1) = a \div 4 /\ GroupAt(e, 4 * i + 2) = (a % 4) * 16 + b \div 16
      BY <2>4, <2>6 DEF Sextets
    <3>2. OctetAt(e, i, k) = GroupAt(e, 4 * i + 1) * 4 + GroupAt(e, 4 * i + 2) \div 16
      BY <2>6 DEF OctetAt, Octets
    <3>3. (a \div 4) * 4 + ((a % 4) * 16 + b \div 16) \div 16 = a
      BY <2>3, FirstOctet
    <3>4. s[m] = a
      BY <2>5, <2>6 DEF a
    <3> QED
      BY <2>2, <3>1, <3>2, <3>3, <3>4
  <2>7. CASE k = 2
    <3>1. GroupAt(e, 4 * i + 2) = (a % 4) * 16 + b \div 16 /\ GroupAt(e, 4 * i + 3) = (b % 16) * 4 + c \div 64
      BY <2>4, <2>7 DEF Sextets
    <3>2. OctetAt(e, i, k) = (GroupAt(e, 4 * i + 2) % 16) * 16 + GroupAt(e, 4 * i + 3) \div 4
      BY <2>7 DEF OctetAt, Octets
    <3>3. (((a % 4) * 16 + b \div 16) % 16) * 16 + ((b % 16) * 4 + c \div 64) \div 4 = b
      <4>1. PICK a0 \in 0 .. 3 : a0 = a % 4
        BY <2>3, a % 4 \in 0 .. 3
      <4>2. PICK b1 \in 0 .. 15, b0 \in 0 .. 15 : b1 = b \div 16 /\ b0 = b % 16 /\ b = 16 * b1 + b0
        BY <2>3, b \div 16 \in 0 .. 15, b % 16 \in 0 .. 15, b = 16 * (b \div 16) + (b % 16)
      <4>3. PICK c1 \in 0 .. 3 : c1 = c \div 64
        BY <2>3, c \div 64 \in 0 .. 3
      <4>4. (a0 * 16 + b1) % 16 = b1 /\ (b0 * 4 + c1) \div 4 = b0
        OBVIOUS
      <4>5. ((a0 * 16 + b1) % 16) * 16 + (b0 * 4 + c1) \div 4 = b
        BY <4>2, <4>4
      <4> QED
        BY <4>1, <4>2, <4>3, <4>5
    <3>4. s[m] = b
      BY <2>5, <2>7 DEF b
    <3> QED
      BY <2>2, <3>1, <3>2, <3>3, <3>4
  <2>8. CASE k = 3
    <3>1. GroupAt(e, 4 * i + 3) = (b % 16) * 4 + c \div 64 /\ GroupAt(e, 4 * i + 4) = c % 64
      BY <2>4, <2>8 DEF Sextets
    <3>2. OctetAt(e, i, k) = (GroupAt(e, 4 * i + 3) % 4) * 64 + GroupAt(e, 4 * i + 4)
      BY <2>8 DEF OctetAt, Octets
    <3>3. (((b % 16) * 4 + c \div 64) % 4) * 64 + (c % 64) = c
      BY <2>3, ThirdOctet
    <3>4. s[m] = c
      BY <2>5, <2>8 DEF c
    <3> DEFINE y == (b % 16) * 4 + c \div 64
               z == c % 64
    <3>5. GroupAt(e, 4 * i + 3) = y /\ GroupAt(e, 4 * i + 4) = z /\ (y % 4) * 64 + z = c
      BY <3>1, <3>3
    <3> HIDE DEF y, z
    <3> QED
      BY <2>2, <3>2, <3>4, <3>5
  <2> QED
    BY <2>1, <2>6, <2>7, <2>8
<1>9. d = s
  BY <1>7, <1>8, SeqEqual
<1> QED
  BY <1>6, <1>9 DEF e, d

\* Encoded again, what such a string decodes to gives the string, but for the
\* last character that is not padding.
LEMMA DecodedReference ==
    ASSUME NEW s \in Seq(0 .. 255), NEW n \in Nat, NEW p, Encoded(s, n, p),
           NEW j \in 1 .. 4 * n, j # 4 * n - p
    PROVE  Reference(base64_decode(s))[j] = s[j]
<1> DEFINE d == base64_decode(s)
<1>1. p \in 0 .. 2 /\ (p > 0 => n > 0)
  BY DEF Encoded
<1>2. /\ d \in Seq(0 .. 255) /\ Len(d) = 3 * n - p /\ 3 * n - p \in Nat
      /\ \A m \in 1 .. 3 * n - p : d[m] = DecodedAt(s, m)
  BY Decodes
<1> HIDE DEF d
<1>3. (Len(d) + 2) \div 3 = n /\ Used(d) = 4 * n - p
  BY <1>1, <1>2 DEF Used
<1>4. Reference(d)[j] = IF j <= 4 * n - p THEN alphabet[SixBits(d, j)] ELSE pad_char
  BY <1>2, <1>3, ReferenceShape
<1>5. CASE j > 4 * n - p
  <2>1. s[j] = pad_char
    BY <1>5 DEF Encoded
  <2>2. ~(j <= 4 * n - p)
    BY <1>1, <1>5
  <2> QED
    BY <1>4, <2>1, <2>2 DEF d
<1>6. CASE j < 4 * n - p
  <2> DEFINE i == (j - 1) \div 4
             k == ((j - 1) % 4) + 1
             a == ByteAt(d, 3 * i + 1)
             b == ByteAt(d, 3 * i + 2)
             c == ByteAt(d, 3 * i + 3)
  <2>1. i \in Nat /\ k \in 1 .. 4 /\ j = 4 * i + k
    <3>1. j \in Nat /\ j >= 1
      OBVIOUS
    <3> QED
      BY <3>1
  <2> HIDE DEF i, k
  <2>2. SixBits(d, j) = Sextets(a, b, c)[k]
    BY <1>2, <2>1, SixBitsSextets
  <2>3. ASSUME NEW r \in 1 .. 4, 4 * i + r <= 4 * n - p PROVE GroupAt(s, 4 * i + r) \in 0 .. 63
    <3>1. 4 * i + r \in 1 .. 4 * n /\ ~(4 * i + r > 4 * n - p)
      BY <1>1, <2>1, <2>3
    <3> QED
      BY <3>1 DEF Encoded, GroupAt
  <2>4. ASSUME NEW r \in 1 .. 3, 3 * i + r <= 3 * n - p PROVE ByteAt(d, 3 * i + r) = OctetAt(s, i, r)
    <3>1. 3 * i + r \in 1 .. 3 * n - p
      BY <1>2, <2>1, <2>4
    <3>2. d[3 * i + r] = OctetAt(s, i, r)
      BY <1>2, <2>1, <3>1, DecodedOctet
    <3> QED
      BY <1>2, <2>4, <3>2 DEF ByteAt
  <2> DEFINE G(r) == GroupAt(s, 4 * i + r)
  <2>5. GroupAt(s, j) = G(k) /\ alphabet[GroupAt(s, j)] = s[j]
    <3>1. ~(j > 4 * n - p)
      BY <1>1, <1>6
    <3>2. alphabet[GroupAt(s, j)] = s[j]
      BY <3>1 DEF Encoded, GroupAt
    <3> QED
      BY <2>1, <3>2
  <2>6. G(1) \in 0 .. 63 /\ G(2) \in 0 .. 63 /\ a = G(1) * 4 + G(2) \div 16
    <3>1. 4 * i + 1 <= 4 * n - p /\ 4 * i + 2 <= 4 * n - p /\ 3 * i + 1 <= 3 * n - p
      BY <1>1, <1>6, <2>1
    <3>2. a = OctetAt(s, i, 1)
      BY <2>4, <3>1
    <3>3. OctetAt(s, i, 1) = G(1) * 4 + G(2) \div 16
      BY DEF OctetAt, Octets
    <3> QED
      BY <2>3, <3>1, <3>2, <3>3
  <2>7. k > 1 => G(3) \in 0 .. 63 /\ b = (G(2) % 16) * 16 + G(3) \div 4
    <3> SUFFICES ASSUME k > 1 PROVE G(3) \in 0 .. 63 /\ b = (G(2) % 16) * 16 + G(3) \div 4
      OBVIOUS
    <3>1. 4 * i + 3 <= 4 * n - p /\ 3 * i + 2 <= 3 * n - p
      BY <1>1, <1>6, <2>1
    <3>2. b = OctetAt(s, i, 2)
      BY <2>4, <3>1
    <3>3. OctetAt(s, i, 2) = (G(2) % 16) * 16 + G(3) \div 4
      BY DEF OctetAt, Octets
    <3> QED
      BY <2>3, <3>1, <3>2, <3>3
  <2>8. k > 2 => G(4) \in 0 .. 63 /\ c = (G(3) % 4) * 64 + G(4)
    <3> SUFFICES ASSUME k > 2 PROVE G(4) \in 0 .. 63 /\ c = (G(3) % 4) * 64 + G(4)
      OBVIOUS
    <3>1. 4 * i + 4 <= 4 * n - p /\ 3 * i + 3 <= 3 * n - p
      BY <1>1, <1>6, <2>1
    <3>2. c = OctetAt(s, i, 3)
      BY <2>4, <3>1
    <3>3. OctetAt(s, i, 3) = (G(3) % 4) * 64 + G(4)
      BY DEF OctetAt, Octets
    <3> QED
      BY <2>3, <3>1, <3>2, <3>3
  <2> HIDE DEF a, b, c, G
  <2>9. PICK g1 \in 0 .. 63, g2 \in 0 .. 63, g3 \in 0 .. 63, g4 \in 0 .. 63 :
            /\ g1 = G(1) /\ g2 = G(2) /\ (k > 1 => g3 = G(3)) /\ (k > 2 => g4 = G(4))
    <3>1. PICK g3 \in 0 .. 63 : k > 1 => g3 = G(3)
      BY <2>7
    <3>2. PICK g4 \in 0 .. 63 : k > 2 => g4 = G(4)
      BY <2>8
    <3> QED
      BY <2>6, <3>1, <3>2
  <2> DEFINE x == g1 * 4 + g2 \div 16
             y == (g2 % 16) * 16 + g3 \div 4
             z == (g3 % 4) * 64 + g4
  <2>10. x \div 4 = g1 /\ (x % 4) * 16 + y \div 16 = g2 /\ (y % 16) * 4 + z \div 64 = g3 /\ z % 64 = g4
    <3>1. x = g1 * 4 + g2 \div 16 /\ y = (g2 % 16) * 16 + g3 \div 4 /\ z = (g3 % 4) * 64 + g4
      OBVIOUS
    <3> HIDE DEF x, y, z
    <3>2. PICK h1 \in 0 .. 3, h0 \in 0 .. 15 : g2 = 16 * h1 + h0 /\ h1 = g2 \div 16 /\ h0 = g2 % 16
      BY g2 \div 16 \in 0 .. 3, g2 % 16 \in 0 .. 15, g2 = 16 * (g2 \div 16) + (g2 % 16)
    <3>3. PICK e1 \in 0 .. 15, e0 \in 0 .. 3 : g3 = 4 * e1 + e0 /\ e1 = g3 \div 4 /\ e0 = g3 % 4
      BY g3 \div 4 \in 0 .. 15, g3 % 4 \in 0 .. 3, g3 = 4 * (g3 \div 4) + (g3 % 4)
    <3>4. x = 4 * g1 + h1 /\ y = 16 * h0 + e1 /\ z = 64 * e0 + g4
      BY <3>1, <3>2, <3>3
    <3>5. x \div 4 = g1 /\ x % 4 = h1
      <4>1. x = 4 * g1 + h1
        BY <3>4
      <4> QED
        BY <4>1
    <3>6. y \div 16 = h0 /\ y % 16 = e1
      <4>1. y = 16 * h0 + e1
        BY <3>4
      <4> QED
        BY <4>1
    <3>7. z \div 64 = e0 /\ z % 64 = g4
      <4>1. z = 64 * e0 + g4
        BY <3>4
      <4> QED
        BY <4>1
    <3> QED
      BY <3>2, <3>3, <3>5, <3>6, <3>7
  <2>11. a = x /\ (k > 1 => b = y) /\ (k > 2 => c = z)
    <3>1. k > 2 => k > 1
      BY <2>1
    <3> QED
      BY <2>6, <2>7, <2>8, <2>9, <3>1
  <2> HIDE DEF x, y, z
  <2>12. Sextets(a, b, c)[k] = G(k)
    <3>1. CASE k = 1
      BY <2>9, <2>10, <2>11, <3>1 DEF Sextets
    <3>2. CASE k = 2
      BY <2>9, <2>10, <2>11, <3>2 DEF Sextets
    <3>3. CASE k = 3
      BY <2>9, <2>10, <2>11, <3>3 DEF Sextets
    <3>4. CASE k = 4
      BY <2>9, <2>10, <2>11, <3>4 DEF Sextets
    <3> QED
      BY <2>1, <3>1, <3>2, <3>3, <3>4
  <2>13. j <= 4 * n - p
    BY <1>1, <1>6
  <2> QED
    BY <1>4, <2>2, <2>5, <2>12, <2>13 DEF d
<1>7. j < 4 * n - p \/ j > 4 * n - p
  <2>1. j \in Int /\ 4 * n - p \in Int
    BY <1>1
  <2> QED
    BY <2>1
<1> QED
  BY <1>5, <1>6, <1>7

-----------------------------------------------------------------------------
(* Folds.  A fold over a sequence runs through its places in order: some    *)
(* function solves the equation of FoldLeft, so the one it chooses does.    *)

\* The greatest element.
LEMMA MaxIs ==
    ASSUME NEW S, NEW m \in S, S \subseteq Int, \A y \in S : y <= m
    PROVE  Max(S) = m
<1>1. m \in S /\ \A y \in S : m >= y
  OBVIOUS
<1>2. Max(S) \in S /\ \A y \in S : Max(S) >= y
  BY <1>1 DEF Max
<1>3. Max(S) >= m /\ m >= Max(S) /\ m \in Int /\ Max(S) \in Int
  BY <1>1, <1>2
<1> QED
  BY <1>3

\* The steps of the three folds: over the calls of a stream, over what they ask
\* for, and over the turns of read_line.
FoldStep(fold, content, acc, c) ==
    CASE fold = "calls" ->
            LET t == call(acc.stream, c) IN [stream |-> t, all |-> acc.all \o t.got]
      [] fold = "asked" -> acc + c
      [] fold = "line" -> line_step(content, acc)

\* The equation of the function that FoldLeft takes the value of.
FoldEquation(fold, content, base, seq, D, f) ==
    f = [S \in SUBSET D |-> IF S = {} THEN base
                            ELSE FoldStep(fold, content, f[S \ {Max(S)}], seq[Max(S)])]

\* It has a solution.
LEMMA FoldSolution ==
    ASSUME NEW fold, NEW content, NEW base, NEW seq, NEW n \in Nat
    PROVE  \E f : FoldEquation(fold, content, base, seq, 1 .. n, f)
<1> DEFINE A(k) == \E f : FoldEquation(fold, content, base, seq, 1 .. k, f)
<1>1. A(0)
  <2> DEFINE f == [S \in SUBSET (1 .. 0) |-> base]
  <2>1. \A S \in SUBSET (1 .. 0) : S = {}
    OBVIOUS
  <2>2. f = [S \in SUBSET (1 .. 0) |-> IF S = {} THEN base ELSE FoldStep(fold, content, f[S \ {Max(S)}], seq[Max(S)])]
    BY <2>1
  <2> HIDE DEF f
  <2> QED
    BY <2>2 DEF FoldEquation
<1>2. ASSUME NEW k \in Nat, A(k) PROVE A(k + 1)
  <2> DEFINE m == k + 1
  <2>1. PICK f : FoldEquation(fold, content, base, seq, 1 .. k, f)
    BY <1>2
  <2>2. ASSUME NEW S \in SUBSET (1 .. k)
        PROVE  f[S] = IF S = {} THEN base ELSE FoldStep(fold, content, f[S \ {Max(S)}], seq[Max(S)])
    BY <2>1 DEF FoldEquation
  <2> DEFINE h == [S \in SUBSET (1 .. m) |-> IF m \in S THEN FoldStep(fold, content, f[S \ {m}], seq[m]) ELSE f[S]]
  <2>3. ASSUME NEW S \in SUBSET (1 .. m)
        PROVE  h[S] = IF S = {} THEN base ELSE FoldStep(fold, content, h[S \ {Max(S)}], seq[Max(S)])
    <3>1. CASE m \in S
      <4>1. Max(S) = m
        <5>1. S \subseteq Int /\ \A y \in S : y <= m
          OBVIOUS
        <5> QED
          BY <3>1, <5>1, MaxIs
      <4>2. S \ {m} \in SUBSET (1 .. m) /\ m \notin S \ {m}
        OBVIOUS
      <4>3. h[S \ {m}] = f[S \ {m}]
        BY <4>2
      <4>4. h[S] = FoldStep(fold, content, f[S \ {m}], seq[m])
        BY <3>1
      <4> HIDE DEF h
      <4> QED
        BY <3>1, <4>1, <4>3, <4>4
    <3>2. CASE m \notin S
      <4>1. S \in SUBSET (1 .. k)
        BY <3>2
      <4>2. S \ {Max(S)} \in SUBSET (1 .. m) /\ m \notin S \ {Max(S)}
        BY <3>2
      <4>3. h[S] = f[S] /\ h[S \ {Max(S)}] = f[S \ {Max(S)}]
        BY <3>2, <4>2
      <4> HIDE DEF h
      <4> QED
        BY <2>2, <4>1, <4>3
    <3> QED
      BY <3>1, <3>2
  <2>4. h = [S \in SUBSET (1 .. m) |-> IF S = {} THEN base ELSE FoldStep(fold, content, h[S \ {Max(S)}], seq[Max(S)])]
    <3> DEFINE e(S) == IF S = {} THEN base ELSE FoldStep(fold, content, h[S \ {Max(S)}], seq[Max(S)])
    <3>1. \A S \in SUBSET (1 .. m) : h[S] = e(S)
      BY <2>3
    <3>2. h = [S \in SUBSET (1 .. m) |-> h[S]]
      OBVIOUS
    <3> HIDE DEF e, h
    <3>3. h = [S \in SUBSET (1 .. m) |-> e(S)]
      BY <3>1, <3>2
    <3> QED
      BY <3>3 DEF e
  <2> HIDE DEF h
  <2> QED
    BY <2>4 DEF FoldEquation
<1> HIDE DEF A
<1>3. A(n)
  <2> SUFFICES ASSUME ~A(n) PROVE FALSE
    OBVIOUS
  <2> DEFINE B == {k \in Nat : ~A(k)}
  <2>1. B # {} /\ B \in SUBSET Nat
    OBVIOUS
  <2>2. PICK x \in B : \A y \in B : x <= y
    BY <2>1, LeastNumber
  <2>3. x # 0 /\ x \in Nat /\ ~A(x)
    BY <1>1, <2>2
  <2>4. x - 1 \in Nat /\ ~(x <= x - 1) /\ (x - 1) + 1 = x
    BY <2>3
  <2>5. A(x - 1)
    BY <2>2, <2>4
  <2>6. A((x - 1) + 1)
    BY <1>2, <2>4, <2>5
  <2> QED
    BY <2>3, <2>4, <2>6
<1> QED
  BY <1>3 DEF A

\* f goes through the first n places of seq in order.
FoldRun(fold, content, base, seq, n, f) ==
    /\ f[1 .. 0] = base
    /\ \A k \in 1 .. n : f[1 .. k] = FoldStep(fold, content, f[1 .. k - 1], seq[k])

\* A solution does.
LEMMA FoldRuns ==
    ASSUME NEW fold, NEW content, NEW base, NEW seq, NEW n \in Nat, NEW f,
           FoldEquation(fold, content, base, seq, 1 .. n, f)
    PROVE  FoldRun(fold, content, base, seq, n, f)
<1>1. ASSUME NEW S \in SUBSET (1 .. n)
      PROVE  f[S] = IF S = {} THEN base ELSE FoldStep(fold, content, f[S \ {Max(S)}], seq[Max(S)])
  BY DEF FoldEquation
<1>2. 1 .. 0 = {}
  OBVIOUS
<1>3. f[1 .. 0] = base
  BY <1>1, <1>2
<1>4. ASSUME NEW k \in 1 .. n PROVE f[1 .. k] = FoldStep(fold, content, f[1 .. k - 1], seq[k])
  <2>1. 1 .. k \in SUBSET (1 .. n) /\ k \in 1 .. k /\ (1 .. k) \ {k} = 1 .. k - 1 /\ 1 .. k # {}
    OBVIOUS
  <2>2. Max(1 .. k) = k
    <3>1. 1 .. k \subseteq Int /\ \A y \in 1 .. k : y <= k
      OBVIOUS
    <3> QED
      BY <2>1, <3>1, MaxIs
  <2> QED
    BY <1>1, <2>1, <2>2
<1> QED
  BY <1>3, <1>4 DEF FoldRun

\* The fold of After.
LEMMA AfterRuns ==
    ASSUME NEW s, NEW calls \in Seq(Int)
    PROVE  \E f : /\ f[1 .. 0] = [stream |-> s, all |-> <<>>]
                  /\ \A k \in 1 .. Len(calls) :
                        f[1 .. k] = LET acc == f[1 .. k - 1]
                                        t == call(acc.stream, calls[k])
                                    IN  [stream |-> t, all |-> acc.all \o t.got]
                  /\ After(s, calls) = f[1 .. Len(calls)]
<1> DEFINE n == Len(calls)
           D == DOMAIN calls
           base == [stream |-> s, all |-> <<>>]
           Step(acc, c) == LET t == call(acc.stream, c) IN [stream |-> t, all |-> acc.all \o t.got]
           Solves(f) == f = [S \in SUBSET D |-> IF S = {} THEN base ELSE Step(f[S \ {Max(S)}], calls[Max(S)])]
           g == CHOOSE f : Solves(f)
<1>1. n \in Nat /\ D = 1 .. n
  OBVIOUS
<1>2. After(s, calls) = g[D]
  BY Zenon DEF After, FoldLeft, MapThenFoldSet
<1>3. \A acc, c : FoldStep("calls", <<>>, acc, c) = Step(acc, c)
  BY Zenon DEF FoldStep
<1> HIDE DEF Step, base, D
<1>4. \A f : FoldEquation("calls", <<>>, base, calls, D, f) <=> Solves(f)
  BY <1>3, Zenon DEF FoldEquation
<1>5. \E f : Solves(f)
  BY <1>1, <1>4, FoldSolution, ZenonT(30)
<1>6. Solves(g)
  BY <1>5, Zenon
<1> HIDE DEF Solves, g
<1>7. FoldEquation("calls", <<>>, base, calls, 1 .. n, g)
  BY <1>1, <1>4, <1>6
<1>8. /\ g[1 .. 0] = base
      /\ \A k \in 1 .. n : g[1 .. k] = FoldStep("calls", <<>>, g[1 .. k - 1], calls[k])
  <2>1. FoldRun("calls", <<>>, base, calls, n, g)
    BY <1>1, <1>7, FoldRuns, Zenon
  <2> QED
    BY <2>1, Zenon DEF FoldRun
<1>9. /\ g[1 .. 0] = base
      /\ \A k \in 1 .. n : g[1 .. k] = Step(g[1 .. k - 1], calls[k])
      /\ After(s, calls) = g[1 .. n]
  BY <1>1, <1>2, <1>3, <1>8
<1> QED
  BY <1>9 DEF base, Step

\* The fold of what calls ask for.
LEMMA AskedRuns ==
    ASSUME NEW calls \in Seq(Int)
    PROVE  \E f : /\ f[1 .. 0] = 0
                  /\ \A k \in 1 .. Len(calls) : f[1 .. k] = f[1 .. k - 1] + calls[k]
                  /\ FoldLeft(+, 0, calls) = f[1 .. Len(calls)]
<1> DEFINE n == Len(calls)
           D == DOMAIN calls
           Solves(f) == f = [S \in SUBSET D |-> IF S = {} THEN 0 ELSE f[S \ {Max(S)}] + calls[Max(S)]]
           g == CHOOSE f : Solves(f)
<1>1. n \in Nat /\ D = 1 .. n
  OBVIOUS
<1>2. FoldLeft(+, 0, calls) = g[D]
  BY Zenon DEF FoldLeft, MapThenFoldSet
<1>3. \A acc, c : FoldStep("asked", <<>>, acc, c) = acc + c
  BY Zenon DEF FoldStep
<1> HIDE DEF D
<1>4. \A f : FoldEquation("asked", <<>>, 0, calls, D, f) <=> Solves(f)
  BY <1>3, Zenon DEF FoldEquation
<1>5. \E f : Solves(f)
  BY <1>1, <1>4, FoldSolution, ZenonT(30)
<1>6. Solves(g)
  BY <1>5, Zenon
<1> HIDE DEF Solves, g
<1>7. FoldEquation("asked", <<>>, 0, calls, 1 .. n, g)
  BY <1>1, <1>4, <1>6
<1>8. /\ g[1 .. 0] = 0
      /\ \A k \in 1 .. n : g[1 .. k] = FoldStep("asked", <<>>, g[1 .. k - 1], calls[k])
  <2>1. FoldRun("asked", <<>>, 0, calls, n, g)
    BY <1>1, <1>7, FoldRuns, Zenon
  <2> QED
    BY <2>1, Zenon DEF FoldRun
<1> QED
  BY <1>1, <1>2, <1>3, <1>8

\* The fold of read_line.
LEMMA LineRuns ==
    ASSUME NEW s, NEW content \in Seq(Int)
    PROVE  \E f : /\ f[1 .. 0] = [stream |-> s, line |-> <<>>, state |-> "cr"]
                  /\ \A k \in 1 .. Len(content) + 1 : f[1 .. k] = line_step(content, f[1 .. k - 1])
                  /\ read_line(s, content) = f[1 .. Len(content) + 1]
<1> DEFINE base == [stream |-> s, line |-> <<>>, state |-> "cr"]
           Turns(m) == [turn \in 1 .. m |-> turn]
           Solves(D, f) == f = [S \in SUBSET D |-> IF S = {} THEN base ELSE line_step(content, f[S \ {Max(S)}])]
           g == CHOOSE f : Solves(DOMAIN Turns(Len(content) + 1), f)
<1>1. PICK n \in Nat : n = Len(content) + 1
  OBVIOUS
<1>2. read_line(s, content) = g[DOMAIN Turns(Len(content) + 1)]
  BY Zenon DEF read_line, FoldLeft, MapThenFoldSet
<1>3. \A acc, c : FoldStep("line", content, acc, c) = line_step(content, acc)
  BY Zenon DEF FoldStep
<1>0. DOMAIN Turns(Len(content) + 1) = 1 .. n
  BY <1>1
<1> HIDE DEF base, Turns
<1>4. \A f : FoldEquation("line", content, base, Turns(n), 1 .. n, f) <=> Solves(1 .. n, f)
  BY <1>3, Zenon DEF FoldEquation
<1>5. \E f : Solves(1 .. n, f)
  BY <1>4, FoldSolution
<1>6. Solves(1 .. n, g)
  BY <1>0, <1>5, Zenon
<1> HIDE DEF Solves, g
<1>7. FoldEquation("line", content, base, Turns(n), 1 .. n, g)
  BY <1>4, <1>6
<1>8. /\ g[1 .. 0] = base
      /\ \A k \in 1 .. n : g[1 .. k] = FoldStep("line", content, g[1 .. k - 1], Turns(n)[k])
  <2>1. FoldRun("line", content, base, Turns(n), n, g)
    BY <1>1, <1>7, FoldRuns, Zenon
  <2> QED
    BY <2>1, Zenon DEF FoldRun
<1>9. /\ g[1 .. 0] = base
      /\ \A k \in 1 .. Len(content) + 1 : g[1 .. k] = line_step(content, g[1 .. k - 1])
      /\ read_line(s, content) = g[1 .. Len(content) + 1]
  BY <1>0, <1>1, <1>2, <1>3, <1>8
<1> QED
  BY <1>9 DEF base

-----------------------------------------------------------------------------
(* Streams: the operations.                                                *)

\* A stream.
Stream == [class : {"std", "string", "file"}, buf : {"file", "memory", "pipe"},
           len : Nat, pos : Nat, eof : BOOLEAN, fail : BOOLEAN,
           begin : Int, size : Int, got : Seq(Int), ret : Int]

\* What no operation changes.
Same(t, s) ==
    /\ t.class = s.class /\ t.buf = s.buf /\ t.len = s.len
    /\ t.begin = s.begin /\ t.size = s.size

\* k bytes from position p.
BytesFrom(p, k) == [i \in 1 .. k |-> p + i - 1]

\* The smaller of two integers.
LEMMA MinOfIntegers ==
    ASSUME NEW a \in Int, NEW b \in Int
    PROVE  Min({a, b}) = IF a <= b THEN a ELSE b
<1>1. CASE a <= b
  <2>1. a \in {a, b} /\ \A y \in {a, b} : a <= y
    BY <1>1
  <2>2. Min({a, b}) \in {a, b} /\ \A y \in {a, b} : Min({a, b}) <= y
    BY <2>1 DEF Min
  <2> QED
    BY <1>1, <2>2
<1>2. CASE ~(a <= b)
  <2>1. b \in {a, b} /\ \A y \in {a, b} : b <= y
    BY <1>2
  <2>2. Min({a, b}) \in {a, b} /\ \A y \in {a, b} : Min({a, b}) <= y
    BY <2>1 DEF Min
  <2> QED
    BY <1>2, <2>2
<1> QED
  BY <1>1, <1>2

\* What Max makes of a count that may be negative.
LEMMA MaxOfZero ==
    ASSUME NEW a \in Int
    PROVE  Max({0, a}) = IF a <= 0 THEN 0 ELSE a
<1>1. CASE a <= 0
  BY <1>1, MaxIs
<1>2. CASE ~(a <= 0)
  BY <1>2, MaxIs
<1> QED
  BY <1>1, <1>2

\* The k bytes from p on.
LEMMA BytesAre ==
    ASSUME NEW p \in Int, NEW k \in Nat
    PROVE  /\ BytesFrom(p, k) \in Seq(Int) /\ Len(BytesFrom(p, k)) = k
           /\ \A i \in 1 .. k : BytesFrom(p, k)[i] = p + i - 1
<1>1. \A i \in 1 .. k : p + i - 1 \in Int
  OBVIOUS
<1> QED
  BY <1>1 DEF BytesFrom

\* The sentry only fails a stream that is not good.
LEMMA SentryIs ==
    ASSUME NEW s \in Stream
    PROVE  LET t == Sentry(s)
           IN  /\ t \in Stream /\ Same(t, s) /\ t.pos = s.pos /\ t.eof = s.eof
               /\ t.got = s.got /\ t.ret = s.ret /\ t.fail = ~Good(s)
<1>1. CASE Good(s)
  BY <1>1 DEF Sentry, Stream, Same, Good
<1>2. CASE ~Good(s)
  BY <1>2 DEF Sentry, Stream, Same, Good
<1> QED
  BY <1>1, <1>2

\* Where the buffers go, and where not.
LEMMA SeekposIs ==
    ASSUME NEW s \in Stream, NEW target \in Int
    PROVE  /\ seekpos(s, target) \in Int
           /\ seekpos(s, target) # -1 => target \in Nat /\ seekpos(s, target) = target
           /\ s.buf = "file" /\ target >= 0 => seekpos(s, target) = target
           /\ s.buf = "pipe" => seekpos(s, target) = -1
<1>1. s.buf \in {"file", "memory", "pipe"} /\ s.len \in Nat
  BY DEF Stream
<1> QED
  BY <1>1 DEF seekpos

\* tellg moves nothing, and fails a stream that is not good.
LEMMA TellgIs ==
    ASSUME NEW s \in Stream
    PROVE  LET t == tellg(s)
           IN  /\ t \in Stream /\ Same(t, s) /\ t.pos = s.pos /\ t.eof = s.eof
               /\ t.got = s.got /\ t.fail = ~Good(s)
               /\ t.ret = IF Good(s) THEN seekpos(s, s.pos) ELSE -1
<1> DEFINE u == Sentry(s)
<1>1. /\ u \in Stream /\ Same(u, s) /\ u.pos = s.pos /\ u.eof = s.eof
      /\ u.got = s.got /\ u.ret = s.ret /\ u.fail = ~Good(s)
  BY SentryIs
<1>2. tellg(s) = [u EXCEPT !.ret = IF u.fail THEN -1 ELSE seekpos(u, u.pos)]
  BY DEF tellg
<1> HIDE DEF u
<1>3. seekpos(u, u.pos) = seekpos(s, s.pos)
  BY <1>1 DEF seekpos, Same
<1>4. s.pos \in Int
  BY DEF Stream
<1>5. seekpos(s, s.pos) \in Int
  BY <1>4, SeekposIs
<1>6. PICK r \in Int : r = IF u.fail THEN -1 ELSE seekpos(u, u.pos)
  BY <1>3, <1>5
<1>7. tellg(s) = [u EXCEPT !.ret = r]
  BY <1>2, <1>6
<1>8. /\ tellg(s) \in Stream /\ Same(tellg(s), u) /\ tellg(s).pos = u.pos /\ tellg(s).eof = u.eof
      /\ tellg(s).got = u.got /\ tellg(s).fail = u.fail /\ tellg(s).ret = r
  BY <1>1, <1>7 DEF Stream, Same
<1> QED
  BY <1>1, <1>3, <1>6, <1>8 DEF Same

\* seekg forgets the end and moves, or fails.
LEMMA SeekgIs ==
    ASSUME NEW s \in Stream, NEW target \in Int
    PROVE  LET t == seekg(s, target)
           IN  /\ t \in Stream /\ Same(t, s) /\ t.eof = FALSE /\ t.got = s.got /\ t.ret = s.ret
               /\ t.pos = IF s.fail \/ seekpos(s, target) = -1 THEN s.pos ELSE target
               /\ t.fail = (s.fail \/ seekpos(s, target) = -1)
<1> DEFINE u == [s EXCEPT !.eof = FALSE]
<1>1. /\ u \in Stream /\ Same(u, s) /\ u.pos = s.pos /\ u.eof = FALSE
      /\ u.got = s.got /\ u.ret = s.ret /\ u.fail = s.fail
  BY DEF Stream, Same
<1>2. seekg(s, target) = IF u.fail THEN u
                         ELSE IF seekpos(u, target) = -1 THEN [u EXCEPT !.fail = TRUE]
                         ELSE [u EXCEPT !.pos = seekpos(u, target)]
  BY DEF seekg
<1> HIDE DEF u
<1>3. seekpos(u, target) = seekpos(s, target)
  BY <1>1 DEF seekpos, Same
<1>4. seekpos(s, target) # -1 => target \in Nat /\ seekpos(s, target) = target
  BY SeekposIs
<1>5. CASE u.fail
  BY <1>1, <1>2, <1>5
<1>6. CASE ~u.fail /\ seekpos(s, target) = -1
  <2>1. seekg(s, target) = [u EXCEPT !.fail = TRUE]
    BY <1>2, <1>3, <1>6
  <2> QED
    BY <1>1, <1>6, <2>1 DEF Stream, Same
<1>7. CASE ~u.fail /\ seekpos(s, target) # -1
  <2>1. seekg(s, target) = [u EXCEPT !.pos = target] /\ target \in Nat
    BY <1>2, <1>3, <1>4, <1>7
  <2> QED
    BY <1>1, <1>7, <2>1 DEF Stream, Same
<1> QED
  BY <1>5, <1>6, <1>7

\* What istream_read delivers.
Delivers(s, count) ==
    IF ~Good(s) THEN 0 ELSE Max({0, Min({count, s.len - s.pos})})

\* The standard library's read: what it delivers and how it moves.
LEMMA ReadIs ==
    ASSUME NEW s \in Stream, NEW count \in Nat
    PROVE  LET t == istream_read(s, count)
               k == Delivers(s, count)
           IN  /\ t \in Stream /\ Same(t, s) /\ t.pos = s.pos + k
               /\ t.got = BytesFrom(s.pos, k)
               /\ t.eof = (s.eof \/ (k < count /\ Good(s)))
               /\ t.fail = (~Good(s) \/ k < count)
               /\ k \in 0 .. count
               /\ ~Good(s) => k = 0
               /\ Good(s) => k = IF s.len <= s.pos THEN 0 ELSE IF count <= s.len - s.pos THEN count ELSE s.len - s.pos
<1> DEFINE u == Sentry(s)
           k == Delivers(s, count)
<1>1. /\ u \in Stream /\ Same(u, s) /\ u.pos = s.pos /\ u.eof = s.eof
      /\ u.got = s.got /\ u.ret = s.ret /\ u.fail = ~Good(s)
  BY SentryIs
<1>2. PICK h \in BOOLEAN : h <=> (k < count)
  <2> HIDE DEF k
  <2>1. CASE k < count
    BY <2>1
  <2>2. CASE ~(k < count)
    BY <2>2
  <2> QED
    BY <2>1, <2>2
<1>3. istream_read(s, count) = [u EXCEPT !.pos = u.pos + k, !.got = BytesFrom(s.pos, k),
                                         !.eof = u.eof \/ (h /\ ~u.fail), !.fail = u.fail \/ h]
  <2>1. (IF u.fail THEN 0 ELSE Max({0, Min({count, u.len - u.pos})})) = k
    BY <1>1 DEF Delivers, Same
  <2> HIDE DEF k
  <2> QED
    BY <1>1, <1>2, <2>1 DEF istream_read, BytesFrom
<1>4. s.pos \in Nat /\ s.len \in Nat
  BY DEF Stream
<1>5. PICK x \in Int : x = s.len - s.pos
  BY <1>4
<1>6. Min({count, x}) = IF count <= x THEN count ELSE x
  BY MinOfIntegers
<1>7. Good(s) => k = IF Min({count, x}) <= 0 THEN 0 ELSE Min({count, x})
  <2>1. Min({count, x}) \in Int
    BY <1>6
  <2> QED
    BY <1>5, <2>1, MaxOfZero DEF Delivers
<1>8. ~Good(s) => k = 0
  BY DEF Delivers
<1> HIDE DEF k, u
<1>9. /\ k \in 0 .. count
      /\ Good(s) => k = IF s.len <= s.pos THEN 0 ELSE IF count <= s.len - s.pos THEN count ELSE s.len - s.pos
  BY <1>4, <1>5, <1>6, <1>7, <1>8
<1>10. BytesFrom(s.pos, k) \in Seq(Int) /\ u.pos + k \in Nat /\ u.eof \in BOOLEAN /\ u.fail \in BOOLEAN
  <2>1. k \in Nat /\ s.pos \in Int
    BY <1>4, <1>9
  <2>2. BytesFrom(s.pos, k) \in Seq(Int)
    BY <2>1, BytesAre
  <2> QED
    BY <1>1, <1>4, <2>1, <2>2 DEF Stream
<1>11. PICK b \in Seq(Int), p \in Nat, e \in BOOLEAN, f \in BOOLEAN :
         b = BytesFrom(s.pos, k) /\ p = u.pos + k /\ e = (u.eof \/ (h /\ ~u.fail)) /\ f = (u.fail \/ h)
  BY <1>10
<1>12. istream_read(s, count) = [u EXCEPT !.pos = p, !.got = b, !.eof = e, !.fail = f]
  BY <1>3, <1>11
<1>13. LET t == istream_read(s, count)
       IN  t \in Stream /\ Same(t, u) /\ t.pos = p /\ t.got = b /\ t.eof = e /\ t.fail = f
  BY <1>1, <1>12, ZenonT(30) DEF Stream, Same
<1> QED
  BY <1>1, <1>2, <1>8, <1>9, <1>11, <1>13 DEF k, Same

\* No bytes.
LEMMA NoBytes ==
    ASSUME NEW p \in Int
    PROVE  BytesFrom(p, 0) = <<>>
<1>1. BytesFrom(p, 0) \in Seq(Int) /\ Len(BytesFrom(p, 0)) = 0
  BY BytesAre
<1> QED
  BY <1>1

\* std_read of a stream whose size is known.
LEMMA StdReadIs ==
    ASSUME NEW s \in Stream, NEW count \in Nat, s.class = "std", s.buf = "file",
           s.begin \in Nat, s.size \in Nat
    PROVE  LET r == std_read(s, count)
               rest == s.size - (s.pos - s.begin)
               m == IF count <= rest THEN count ELSE rest
           IN  /\ r \in Stream /\ Same(r, s)
               /\ ~Good(s) \/ s.pos < s.begin =>
                    r.got = <<>> /\ r.pos = s.pos /\ r.eof = s.eof /\ r.fail
               /\ Good(s) /\ s.pos >= s.begin /\ rest <= 0 =>
                    r.got = <<>> /\ r.pos = s.pos /\ r.eof
               /\ Good(s) /\ s.pos >= s.begin /\ rest > 0 =>
                    LET k == IF s.len <= s.pos THEN 0 ELSE IF m <= s.len - s.pos THEN m ELSE s.len - s.pos
                    IN  /\ r.got = BytesFrom(s.pos, k) /\ r.pos = s.pos + k
                        /\ r.eof = (k < m \/ k >= rest) /\ r.fail = (k < m)
<1>1. s.pos \in Nat /\ s.len \in Nat /\ s.begin \in Nat /\ s.size \in Nat /\ s.size # -1
  BY DEF Stream
<1> DEFINE t == tellg(s)
<1>2. /\ t \in Stream /\ Same(t, s) /\ t.pos = s.pos /\ t.eof = s.eof
      /\ t.got = s.got /\ t.fail = ~Good(s)
      /\ t.ret = IF Good(s) THEN s.pos ELSE -1
  <2>1. seekpos(s, s.pos) = s.pos
    BY <1>1, SeekposIs
  <2> QED
    BY <2>1, TellgIs
<1>3. std_read(s, count) =
        LET diff == t.ret - t.begin
            available == s.size - diff
            r == istream_read(t, Min({count, available}))
        IN  CASE diff < 0 -> [t EXCEPT !.got = <<>>, !.fail = TRUE]
              [] diff >= s.size -> [t EXCEPT !.got = <<>>, !.eof = TRUE]
              [] OTHER -> [r EXCEPT !.eof = @ \/ Len(r.got) >= available]
  <2>1. s.size # Unknown
    BY <1>1 DEF Unknown
  <2> HIDE DEF t
  <2> QED
    BY <2>1 DEF std_read, t
<1> HIDE DEF t
<1>4. PICK diff \in Int : diff = t.ret - t.begin
  BY <1>1, <1>2 DEF Same
<1>5. t.begin = s.begin /\ t.len = s.len
  BY <1>2 DEF Same
<1>6. CASE diff < 0
  <2>1. ~Good(s) \/ s.pos < s.begin
    BY <1>1, <1>2, <1>4, <1>5, <1>6
  <2>2. std_read(s, count) = [t EXCEPT !.got = <<>>, !.fail = TRUE]
    BY <1>3, <1>4, <1>6
  <2>3. LET r == std_read(s, count)
        IN  /\ r \in Stream /\ Same(r, t) /\ r.got = <<>> /\ r.pos = t.pos /\ r.eof = t.eof /\ r.fail = TRUE
    <3>1. PICK none \in Seq(Int) : none = <<>>
      BY BytesAre, NoBytes
    <3>2. std_read(s, count) = [t EXCEPT !.got = none, !.fail = TRUE]
      BY <2>2, <3>1
    <3> QED
      BY <1>2, <3>1, <3>2 DEF Stream, Same
  <2>4. ~(s.pos >= s.begin) \/ ~Good(s)
    BY <1>1, <2>1
  <2> QED
    BY <1>2, <2>3, <2>4 DEF Same
<1>7. CASE diff >= 0 /\ diff >= s.size
  <2>1. Good(s) /\ ~(s.pos < s.begin) /\ diff = s.pos - s.begin
    BY <1>1, <1>2, <1>4, <1>5, <1>7
  <2>2. std_read(s, count) = [t EXCEPT !.got = <<>>, !.eof = TRUE]
    <3>1. ~(diff < 0)
      BY <1>7
    <3> QED
      BY <1>3, <1>4, <1>7, <3>1
  <2>3. LET r == std_read(s, count)
        IN  /\ r \in Stream /\ Same(r, t) /\ r.got = <<>> /\ r.pos = t.pos /\ r.eof = TRUE
    <3>1. PICK none \in Seq(Int) : none = <<>>
      BY BytesAre, NoBytes
    <3>2. std_read(s, count) = [t EXCEPT !.got = none, !.eof = TRUE]
      BY <2>2, <3>1
    <3> QED
      BY <1>2, <3>1, <3>2 DEF Stream, Same
  <2>4. ~(s.size - (s.pos - s.begin) > 0)
    BY <1>1, <1>7, <2>1
  <2> QED
    BY <1>2, <2>1, <2>3, <2>4 DEF Same
<1>8. CASE diff >= 0 /\ diff < s.size
  <2>1. Good(s) /\ ~(s.pos < s.begin) /\ diff = s.pos - s.begin
    BY <1>1, <1>2, <1>4, <1>5, <1>8
  <2>2. PICK rest \in Nat : rest = s.size - (s.pos - s.begin)
    BY <1>1, <1>8, <2>1
  <2>3. PICK m \in Nat : m = (IF count <= rest THEN count ELSE rest)
    OBVIOUS
  <2>4. Min({count, s.size - diff}) = m
    <3>1. s.size - diff = rest
      BY <2>1, <2>2
    <3>2. Min({count, rest}) = m
      BY <2>3, MinOfIntegers
    <3> QED
      BY <3>1, <3>2
  <2> DEFINE r == istream_read(t, m)
             k == Delivers(t, m)
  <2>5. Good(t) /\ ~t.eof
    BY <1>2, <2>1 DEF Good
  <2>6. /\ r \in Stream /\ Same(r, t) /\ r.pos = t.pos + k
        /\ r.got = BytesFrom(t.pos, k)
        /\ r.eof = (k < m)
        /\ r.fail = (k < m)
        /\ k \in 0 .. m
        /\ k = IF t.len <= t.pos THEN 0 ELSE IF m <= t.len - t.pos THEN m ELSE t.len - t.pos
    <3>1. /\ r \in Stream /\ Same(r, t) /\ r.pos = t.pos + k
          /\ r.got = BytesFrom(t.pos, k)
          /\ r.eof = (t.eof \/ (k < m /\ Good(t)))
          /\ r.fail = (~Good(t) \/ k < m)
          /\ k \in 0 .. m
          /\ Good(t) => k = IF t.len <= t.pos THEN 0 ELSE IF m <= t.len - t.pos THEN m ELSE t.len - t.pos
      BY <1>2, ReadIs
    <3> HIDE DEF r, k
    <3> QED
      BY <2>5, <3>1
  <2>7. std_read(s, count) = [r EXCEPT !.eof = r.eof \/ Len(r.got) >= rest]
    <3>1. ~(diff < 0) /\ ~(diff >= s.size) /\ s.size - diff = rest
      BY <1>1, <1>8, <2>1, <2>2
    <3> QED
      BY <1>3, <1>4, <2>4, <3>1
  <2> HIDE DEF r, k
  <2>8. Len(r.got) = k
    <3>1. k \in Nat /\ t.pos \in Int
      BY <1>1, <1>2, <2>6
    <3>2. Len(BytesFrom(t.pos, k)) = k
      BY <3>1, BytesAre
    <3> QED
      BY <2>6, <3>2
  <2>9. PICK e \in BOOLEAN : e <=> (k < m \/ k >= rest)
    <3>1. CASE k < m \/ k >= rest
      BY <3>1
    <3>2. CASE ~(k < m \/ k >= rest)
      BY <3>2
    <3> QED
      BY <3>1, <3>2
  <2>10. std_read(s, count) = [r EXCEPT !.eof = e]
    <3>1. (r.eof \/ Len(r.got) >= rest) = e
      BY <2>6, <2>8, <2>9
    <3> QED
      BY <2>7, <3>1
  <2>11. LET q == std_read(s, count)
         IN  /\ q \in Stream /\ Same(q, r) /\ q.got = r.got /\ q.pos = r.pos /\ q.eof = e /\ q.fail = r.fail
    BY <2>6, <2>10 DEF Stream, Same
  <2>12. rest > 0
    BY <1>1, <1>8, <2>1, <2>2
  <2>13. Same(std_read(s, count), s)
    BY <1>2, <2>6, <2>11 DEF Same
  <2>14. /\ std_read(s, count).eof = (k < m \/ k >= rest)
         /\ std_read(s, count).fail = (k < m)
         /\ std_read(s, count).got = BytesFrom(s.pos, k)
         /\ std_read(s, count).pos = s.pos + k
         /\ k = IF s.len <= s.pos THEN 0 ELSE IF m <= s.len - s.pos THEN m ELSE s.len - s.pos
    BY <1>2, <1>5, <2>6, <2>9, <2>11
  <2> HIDE DEF Same
  <2> QED
    BY <2>1, <2>2, <2>3, <2>11, <2>12, <2>13, <2>14
<1> QED
  BY <1>1, <1>4, <1>6, <1>7, <1>8

-----------------------------------------------------------------------------
(* Streams: reads and tells.                                               *)

\* A stream opened at p, whose window has n bytes.
Opening(s, p, n) ==
    /\ s \in Stream /\ p \in Nat /\ n \in Nat
    /\ \/ /\ s.class = "std" /\ s.buf = "file" /\ s.begin = p /\ s.size \in Nat /\ p <= s.len
          /\ n = IF s.len - p <= s.size THEN s.len - p ELSE s.size
       \/ /\ s.class = "std" /\ s.size = -1 /\ n = 0
          /\ s.buf = "pipe" \/ (s.buf = "file" /\ p = s.len)
       \/ s.class # "std" /\ s.buf # "pipe" /\ p = 0 /\ n = s.len

\* What of a bytes that were asked for a window of n has.
Within(a, n) == IF a <= n THEN a ELSE n

\* t is s after reads that asked for a bytes.
Reached(t, s, p, n, a) ==
    /\ t \in Stream /\ Same(t, s) /\ t.pos = p + Within(a, n)
    /\ \/ Good(t) /\ a <= n /\ t.buf # "pipe"
       \/ ~Good(t) /\ a >= n /\ (t.eof \/ t.buf = "pipe")

\* The number of bytes that a read of c delivers, after a.
More(a, c, n) == Within(a + c, n) - Within(a, n)

\* A read of a stream without a size is the standard library's.
LEMMA PlainRead ==
    ASSUME NEW p \in Nat, NEW n \in Nat, NEW s, Opening(s, p, n), s.class # "std" \/ s.size = -1,
           NEW t, NEW a \in Nat, Reached(t, s, p, n, a), NEW c \in Nat
    PROVE  LET r == istream_read(t, c)
           IN  Reached(r, s, p, n, a + c) /\ r.got = BytesFrom(p + Within(a, n), More(a, c, n))
<1>1. /\ t \in Stream /\ Same(t, s) /\ t.pos = p + Within(a, n)
      /\ \/ Good(t) /\ a <= n /\ t.buf # "pipe"
         \/ ~Good(t) /\ a >= n /\ (t.eof \/ t.buf = "pipe")
  BY DEF Reached
<1>2. PICK l \in Nat : l = s.len /\ l = t.len
  BY <1>1 DEF Same, Stream
<1>3. s.buf = "pipe" \/ p + n = l
  BY <1>2 DEF Opening
<1> DEFINE r == istream_read(t, c)
           k == Delivers(t, c)
<1>4. /\ r \in Stream /\ Same(r, t) /\ r.pos = t.pos + k
      /\ r.got = BytesFrom(t.pos, k)
      /\ r.eof = (t.eof \/ (k < c /\ Good(t)))
      /\ r.fail = (~Good(t) \/ k < c)
      /\ k \in 0 .. c
      /\ ~Good(t) => k = 0
      /\ Good(t) => k = IF t.len <= t.pos THEN 0 ELSE IF c <= t.len - t.pos THEN c ELSE t.len - t.pos
  BY <1>1, ReadIs
<1> HIDE DEF r, k
<1>5. Same(r, s) /\ r.buf = t.buf /\ t.buf = s.buf
  BY <1>1, <1>4 DEF Same
<1>6. CASE ~Good(t)
  <2>1. k = 0 /\ a >= n /\ (t.eof \/ t.buf = "pipe")
    BY <1>1, <1>4, <1>6
  <2>2. Within(a, n) = n /\ Within(a + c, n) = n /\ More(a, c, n) = 0 /\ a + c >= n /\ t.pos + 0 = p + n
    BY <1>1, <2>1 DEF Within, More
  <2>3. ~Good(r) /\ (r.eof \/ r.buf = "pipe")
    BY <1>4, <1>5, <1>6, <2>1 DEF Good
  <2> QED
    BY <1>1, <1>4, <1>5, <2>1, <2>2, <2>3 DEF Reached, r
<1>7. CASE Good(t)
  <2>1. a <= n /\ ~t.eof /\ Within(a, n) = a /\ t.pos = p + a
    BY <1>1, <1>7 DEF Good, Within
  <2>2. p + n = l
    BY <1>1, <1>3, <1>5, <1>7
  <2>3. k = IF l <= p + a THEN 0 ELSE IF c <= l - (p + a) THEN c ELSE l - (p + a)
    BY <1>2, <1>4, <1>7, <2>1
  <2>4. k = More(a, c, n)
    BY <2>1, <2>2, <2>3 DEF Within, More
  <2>5. t.pos + k = p + Within(a + c, n)
    BY <2>1, <2>2, <2>3 DEF Within
  <2>6. k < c <=> a + c > n
    BY <2>1, <2>2, <2>3
  <2>7. Good(r) <=> a + c <= n
    <3>1. CASE k < c
      <4>1. ~Good(r)
        BY <1>4, <3>1 DEF Good
      <4>2. ~(a + c <= n)
        BY <2>6, <3>1
      <4> QED
        BY <4>1, <4>2
    <3>2. CASE ~(k < c)
      <4>1. Good(r)
        BY <1>4, <1>7, <2>1, <3>2 DEF Good
      <4>2. a + c <= n
        BY <2>6, <3>2
      <4> QED
        BY <4>1, <4>2
    <3> QED
      BY <3>1, <3>2
  <2>8. a + c > n => r.eof
    BY <1>4, <1>7, <2>6
  <2>9. a + c <= n \/ a + c >= n
    OBVIOUS
  <2>10. Reached(r, s, p, n, a + c)
    <3>1. r \in Stream /\ Same(r, s) /\ r.pos = p + Within(a + c, n)
      BY <1>4, <1>5, <2>5
    <3>2. r.buf # "pipe" /\ (~(a + c <= n) => r.eof /\ a + c >= n)
      BY <1>1, <1>5, <1>7, <2>8, <2>9
    <3> QED
      BY <2>7, <3>1, <3>2 DEF Reached
  <2> QED
    BY <1>1, <1>4, <2>4, <2>10 DEF r
<1> QED
  BY <1>6, <1>7

\* A read.
LEMMA ReadStep ==
    ASSUME NEW p \in Nat, NEW n \in Nat, NEW s, Opening(s, p, n),
           NEW t, NEW a \in Nat, Reached(t, s, p, n, a), NEW c \in Nat \ {0}
    PROVE  Reached(read(t, c), s, p, n, a + c) /\ read(t, c).got = BytesFrom(p + Within(a, n), More(a, c, n))
<1>1. /\ t \in Stream /\ Same(t, s) /\ t.pos = p + Within(a, n)
      /\ \/ Good(t) /\ a <= n /\ t.buf # "pipe"
         \/ ~Good(t) /\ a >= n /\ (t.eof \/ t.buf = "pipe")
  BY DEF Reached
<1>2. t.class = s.class /\ t.buf = s.buf /\ t.len = s.len /\ t.begin = s.begin /\ t.size = s.size
  BY <1>1 DEF Same
<1>3. CASE s.class # "std"
  <2>1. read(t, c) = istream_read(t, c)
    BY <1>2, <1>3 DEF read
  <2> QED
    BY <1>3, <2>1, PlainRead
<1>4. CASE s.class = "std" /\ s.size = -1
  <2>1. read(t, c) = istream_read(t, c)
    <3>1. istream_read(t, Min({c, c})) = istream_read(t, c)
      BY MinOfIntegers
    <3>2. istream_read(t, c) \in Stream /\ istream_read(t, c).eof = (t.eof \/ (Delivers(t, c) < c /\ Good(t)))
          /\ istream_read(t, c).got = BytesFrom(t.pos, Delivers(t, c)) /\ Delivers(t, c) \in 0 .. c
      BY <1>1, ReadIs
    <3>3. n = 0
      BY <1>4 DEF Opening
    <3>4. Delivers(t, c) = 0
      <4>1. t.pos = p /\ Within(a, n) = 0
        BY <1>1, <3>3 DEF Within, Opening
      <4>2. t.buf # "pipe" => t.len = p
        BY <1>2, <1>4 DEF Opening
      <4>3. Good(t) => t.len <= t.pos
        BY <1>1, <4>1, <4>2
      <4>4. Good(t) => Delivers(t, c) = IF t.len <= t.pos THEN 0 ELSE IF c <= t.len - t.pos THEN c ELSE t.len - t.pos
        BY <1>1, ReadIs
      <4>5. ~Good(t) => Delivers(t, c) = 0
        BY <1>1, ReadIs
      <4> QED
        BY <4>3, <4>4, <4>5
    <3> DEFINE r == istream_read(t, c)
    <3>5. Len(r.got) = 0
      <4>1. t.pos \in Int
        BY <1>1 DEF Stream
      <4>2. r.got = BytesFrom(t.pos, 0)
        BY <3>2, <3>4
      <4> HIDE DEF r
      <4> QED
        BY <4>1, <4>2, BytesAre
    <3>6. (r.eof \/ Len(r.got) >= c) = r.eof
      <4>1. ~(Len(r.got) >= c)
        BY <3>5
      <4>2. r.eof \in BOOLEAN
        BY <3>2 DEF Stream
      <4> HIDE DEF r
      <4> QED
        BY <4>1, <4>2
    <3>7. read(t, c) = [r EXCEPT !.eof = r.eof \/ Len(r.got) >= c]
      <4>1. t.class = "std" /\ ~(t.size # Unknown)
        BY <1>2, <1>4 DEF Unknown
      <4> QED
        BY <3>1, <4>1 DEF read, std_read
    <3>8. [r EXCEPT !.eof = r.eof] = r
      <4>1. r \in Stream
        BY <3>2
      <4> HIDE DEF r
      <4> QED
        BY <4>1 DEF Stream
    <3> QED
      BY <3>6, <3>7, <3>8
  <2> QED
    BY <1>4, <2>1, PlainRead
<1>5. CASE s.class = "std" /\ s.size # -1
  <2>1. /\ s.buf = "file" /\ s.begin = p /\ s.size \in Nat /\ p <= s.len
        /\ n = IF s.len - p <= s.size THEN s.len - p ELSE s.size
    BY <1>5 DEF Opening
  <2>2. PICK z \in Nat, l \in Nat : z = s.size /\ l = s.len
    BY <2>1 DEF Opening, Stream
  <2> DEFINE r == std_read(t, c)
             rest == z - (t.pos - p)
             m == IF c <= rest THEN c ELSE rest
             k == IF l <= t.pos THEN 0 ELSE IF m <= l - t.pos THEN m ELSE l - t.pos
  <2>3. read(t, c) = r
    BY <1>2, <1>5 DEF read
  <2>4. /\ r \in Stream /\ Same(r, t)
        /\ ~Good(t) \/ t.pos < p =>
             r.got = <<>> /\ r.pos = t.pos /\ r.eof = t.eof /\ r.fail
        /\ Good(t) /\ t.pos >= p /\ rest <= 0 =>
             r.got = <<>> /\ r.pos = t.pos /\ r.eof
        /\ Good(t) /\ t.pos >= p /\ rest > 0 =>
             /\ r.got = BytesFrom(t.pos, k) /\ r.pos = t.pos + k
             /\ r.eof = (k < m \/ k >= rest) /\ r.fail = (k < m)
    BY <1>1, <1>2, <1>5, <2>1, <2>2, StdReadIs
  <2> HIDE DEF r
  <2>5. Same(r, s) /\ r.buf = "file" /\ t.buf = "file"
    BY <1>1, <1>2, <2>1, <2>4 DEF Same
  <2>6. CASE ~Good(t)
    <3>1. a >= n /\ t.eof
      BY <1>1, <2>5, <2>6
    <3>2. Within(a, n) = n /\ Within(a + c, n) = n /\ More(a, c, n) = 0 /\ a + c >= n
      BY <3>1 DEF Within, More
    <3>3. ~Good(r) /\ r.eof
      BY <2>4, <2>6, <3>1 DEF Good
    <3>4. r.got = BytesFrom(p + Within(a, n), More(a, c, n))
      BY <2>4, <2>6, <3>2, NoBytes
    <3> QED
      BY <1>1, <2>3, <2>4, <2>5, <2>6, <3>2, <3>3, <3>4 DEF Reached
  <2>7. CASE Good(t)
    <3>1. a <= n /\ t.pos = p + a /\ Within(a, n) = a
      BY <1>1, <2>7 DEF Within
    <3>2. n = IF l - p <= z THEN l - p ELSE z
      BY <2>1, <2>2
    <3>3. rest = z - a /\ t.pos >= p /\ p <= l
      BY <2>1, <2>2, <3>1
    <3>4. CASE rest <= 0
      <4>1. a = n /\ a + c > n /\ Within(a + c, n) = n /\ More(a, c, n) = 0
        BY <3>1, <3>2, <3>3, <3>4, <2>1 DEF Within, More
      <4>2. r.got = <<>> /\ r.pos = t.pos /\ r.eof
        BY <2>4, <2>7, <3>3, <3>4
      <4>3. ~Good(r)
        BY <4>2 DEF Good
      <4>4. r.got = BytesFrom(p + Within(a, n), More(a, c, n))
        BY <3>1, <4>1, <4>2, NoBytes
      <4> QED
        BY <2>3, <2>4, <2>5, <3>1, <4>1, <4>2, <4>3, <4>4 DEF Reached
    <3>5. CASE rest > 0
      <4>1. /\ r.got = BytesFrom(t.pos, k) /\ r.pos = t.pos + k
            /\ r.eof = (k < m \/ k >= rest) /\ r.fail = (k < m)
        BY <2>4, <2>7, <3>3, <3>5
      <4>2. k = More(a, c, n)
        BY <3>1, <3>2, <3>3, <3>5 DEF Within, More
      <4>3. t.pos + k = p + Within(a + c, n)
        BY <3>1, <3>2, <3>3, <3>5 DEF Within
      <4>4. a + c > n => k < m \/ k >= rest
        BY <3>1, <3>2, <3>3, <3>5
      <4>5. k < m \/ k >= rest => a + c >= n
        BY <3>1, <3>2, <3>3, <3>5
      <4> HIDE DEF k, m, rest
      <4>6. CASE k < m \/ k >= rest
        <5>1. r.eof /\ ~Good(r)
          BY <4>1, <4>6 DEF Good
        <5> QED
          BY <2>3, <2>4, <2>5, <3>1, <4>1, <4>2, <4>3, <4>5, <4>6, <5>1 DEF Reached
      <4>7. CASE ~(k < m \/ k >= rest)
        <5>1. ~r.eof /\ ~r.fail
          BY <4>1, <4>7, Zenon
        <5>2. ~(a + c > n)
          BY <4>4, <4>7
        <5>3. Good(r) /\ a + c <= n
          BY <5>1, <5>2 DEF Good
        <5> QED
          BY <2>3, <2>4, <2>5, <3>1, <4>1, <4>2, <4>3, <5>3 DEF Reached
      <4> QED
        BY <4>6, <4>7
    <3> QED
      BY <3>3, <3>4, <3>5
  <2> QED
    BY <2>6, <2>7
<1> QED
  BY <1>3, <1>4, <1>5

\* A tell.
LEMMA TellStep ==
    ASSUME NEW s, NEW p \in Nat, NEW n \in Nat, Opening(s, p, n), NEW t, NEW a \in Nat, Reached(t, s, p, n, a)
    PROVE  Reached(call(t, 0), s, p, n, a) /\ call(t, 0).got = <<>>
<1>1. /\ t \in Stream /\ Same(t, s) /\ t.pos = p + Within(a, n)
      /\ \/ Good(t) /\ a <= n /\ t.buf # "pipe"
         \/ ~Good(t) /\ a >= n /\ (t.eof \/ t.buf = "pipe")
  BY DEF Reached
<1> DEFINE u == tellg(t)
<1>2. /\ u \in Stream /\ Same(u, t) /\ u.pos = t.pos /\ u.eof = t.eof /\ u.fail = ~Good(t)
  BY <1>1, TellgIs
<1>3. call(t, 0) = [u EXCEPT !.got = <<>>]
  BY DEF call
<1> HIDE DEF u
<1>4. PICK none \in Seq(Int) : none = <<>>
  BY BytesAre, NoBytes
<1>5. call(t, 0) = [u EXCEPT !.got = none]
  BY <1>3, <1>4
<1>6. LET r == call(t, 0)
      IN  /\ r \in Stream /\ Same(r, u) /\ r.pos = u.pos /\ r.eof = u.eof /\ r.fail = u.fail /\ r.got = <<>>
  BY <1>2, <1>4, <1>5 DEF Stream, Same
<1>7. Same(call(t, 0), s) /\ call(t, 0).buf = t.buf
  BY <1>1, <1>2, <1>6 DEF Same
<1>8. Good(call(t, 0)) <=> Good(t)
  BY <1>2, <1>6 DEF Good
<1> QED
  BY <1>1, <1>2, <1>6, <1>7, <1>8 DEF Reached

\* A tell or a read.
LEMMA CallStep ==
    ASSUME NEW s, NEW p \in Nat, NEW n \in Nat, Opening(s, p, n), NEW t, NEW a \in Nat, Reached(t, s, p, n, a), NEW c \in Nat
    PROVE  Reached(call(t, c), s, p, n, a + c) /\ call(t, c).got = BytesFrom(p + Within(a, n), More(a, c, n))
<1>1. CASE c = 0
  <2>1. More(a, 0, n) = 0 /\ p + Within(a, n) \in Int /\ a + 0 = a
    BY DEF More, Within
  <2>2. Reached(call(t, 0), s, p, n, a) /\ call(t, 0).got = <<>>
    BY TellStep
  <2> QED
    BY <1>1, <2>1, <2>2, NoBytes
<1>2. CASE c # 0
  <2>1. call(t, c) = read(t, c) /\ c \in Nat \ {0}
    BY <1>2 DEF call
  <2> QED
    BY <2>1, ReadStep
<1> QED
  BY <1>1, <1>2

\* What was delivered, and what a read adds to it.
LEMMA BytesJoin ==
    ASSUME NEW p \in Int, NEW k \in Nat, NEW m \in Nat
    PROVE  BytesFrom(p, k) \o BytesFrom(p + k, m) = BytesFrom(p, k + m)
<1>1. /\ BytesFrom(p, k) \in Seq(Int) /\ Len(BytesFrom(p, k)) = k
      /\ \A i \in 1 .. k : BytesFrom(p, k)[i] = p + i - 1
  BY BytesAre
<1>2. /\ BytesFrom(p + k, m) \in Seq(Int) /\ Len(BytesFrom(p + k, m)) = m
      /\ \A i \in 1 .. m : BytesFrom(p + k, m)[i] = p + k + i - 1
  <2>1. p + k \in Int
    OBVIOUS
  <2> QED
    BY <2>1, BytesAre
<1>3. /\ BytesFrom(p, k + m) \in Seq(Int) /\ Len(BytesFrom(p, k + m)) = k + m
      /\ \A i \in 1 .. k + m : BytesFrom(p, k + m)[i] = p + i - 1
  <2>1. k + m \in Nat
    OBVIOUS
  <2> QED
    BY <2>1, BytesAre
<1> DEFINE x == BytesFrom(p, k)
           y == BytesFrom(p + k, m)
           z == BytesFrom(p, k + m)
<1> HIDE DEF x, y, z
<1>4. x \in Seq(Int) /\ y \in Seq(Int) /\ z \in Seq(Int) /\ Len(x) = k /\ Len(y) = m /\ Len(z) = k + m
  BY <1>1, <1>2, <1>3 DEF x, y, z
<1>5. x \o y \in Seq(Int) /\ Len(x \o y) = k + m
  BY <1>4, ConcatProperties
<1>6. ASSUME NEW i \in 1 .. k + m PROVE (x \o y)[i] = z[i]
  <2>1. (x \o y)[i] = IF i <= k THEN x[i] ELSE y[i - k]
    BY <1>4, ConcatProperties
  <2>2. z[i] = p + i - 1
    BY <1>3 DEF z
  <2>3. CASE i <= k
    <3>1. x[i] = p + i - 1
      BY <1>1, <2>3 DEF x
    <3> QED
      BY <2>1, <2>2, <2>3, <3>1
  <2>4. CASE ~(i <= k)
    <3>1. i - k \in 1 .. m
      BY <2>4
    <3>2. y[i - k] = p + k + (i - k) - 1
      BY <1>2, <3>1 DEF y
    <3> QED
      BY <2>1, <2>2, <2>4, <3>2
  <2> QED
    BY <2>3, <2>4
<1>7. x \o y = z
  BY <1>4, <1>5, <1>6, SeqEqual
<1> QED
  BY <1>7 DEF x, y, z

\* Induction over the places of a sequence.
LEMMA EveryPlace ==
    ASSUME NEW n \in Nat, NEW S \in SUBSET Nat, 0 \in S,
           \A k \in 1 .. n : k - 1 \in S => k \in S
    PROVE  \A k \in 0 .. n : k \in S
<1> SUFFICES ASSUME NEW j \in 0 .. n, j \notin S PROVE FALSE
  OBVIOUS
<1> DEFINE B == {k \in 0 .. n : k \notin S}
<1>1. B # {} /\ B \in SUBSET Nat
  OBVIOUS
<1>2. PICK x \in B : \A y \in B : x <= y
  BY <1>1, LeastNumber
<1>3. x \in 1 .. n /\ x - 1 \in 0 .. n /\ ~(x <= x - 1)
  BY <1>2
<1>4. x - 1 \in S
  BY <1>2, <1>3
<1> QED
  BY <1>2, <1>3, <1>4

\* What After steps to with a call.
AfterStep(acc, c) ==
    LET t == call(acc.stream, c) IN [stream |-> t, all |-> acc.all \o t.got]

\* One call of After.
LEMMA AfterStepIs ==
    ASSUME NEW acc, NEW c
    PROVE  /\ AfterStep(acc, c).stream = call(acc.stream, c)
           /\ AfterStep(acc, c).all = acc.all \o call(acc.stream, c).got
<1> DEFINE t == call(acc.stream, c)
           w == acc.all \o t.got
<1>1. AfterStep(acc, c) = [stream |-> t, all |-> w]
  BY DEF AfterStep
<1> HIDE DEF t, w
<1>2. AfterStep(acc, c).stream = t /\ AfterStep(acc, c).all = w
  BY <1>1
<1> QED
  BY <1>2, Zenon DEF t, w

\* acc is what After comes to with reads that asked for a bytes.
Delivered(acc, s, p, n, a) ==
    a \in Nat /\ acc.all = BytesFrom(p, Within(a, n)) /\ Reached(acc.stream, s, p, n, a)

\* A read, or a tell, goes on in order.
LEMMA DeliveredStep ==
    ASSUME NEW s, NEW p \in Nat, NEW n \in Nat, Opening(s, p, n),
           NEW acc, NEW a, Delivered(acc, s, p, n, a), NEW c \in Nat
    PROVE  Delivered(AfterStep(acc, c), s, p, n, a + c)
<1>1. PICK u : u = acc.stream
  OBVIOUS
<1>2. a \in Nat /\ acc.all = BytesFrom(p, Within(a, n)) /\ Reached(u, s, p, n, a)
  BY <1>1 DEF Delivered
<1>3. Reached(call(u, c), s, p, n, a + c) /\ call(u, c).got = BytesFrom(p + Within(a, n), More(a, c, n))
  BY <1>2, CallStep
<1>4. PICK x \in Nat, y \in Nat : x = Within(a, n) /\ y = More(a, c, n) /\ x + y = Within(a + c, n)
  <2>1. Within(a, n) \in Nat /\ More(a, c, n) \in Nat /\ Within(a, n) + More(a, c, n) = Within(a + c, n)
    BY <1>2 DEF Within, More
  <2> QED
    BY <2>1
<1>5. BytesFrom(p, x) \o BytesFrom(p + x, y) = BytesFrom(p, x + y)
  <2>1. p \in Int
    OBVIOUS
  <2> QED
    BY <2>1, BytesJoin
<1>6. AfterStep(acc, c).stream = call(u, c) /\ AfterStep(acc, c).all = acc.all \o call(u, c).got
  BY <1>1, AfterStepIs, Zenon
<1>7. a + c \in Nat
  BY <1>2
<1> QED
  BY <1>2, <1>3, <1>4, <1>5, <1>6, <1>7, Zenon DEF Delivered

\* The calls read the window once, in order.
LEMMA WindowIsRead ==
    ASSUME NEW s, NEW p \in Nat, NEW n \in Nat, Opening(s, p, n), Reached(s, s, p, n, 0), NEW calls \in Seq(Nat)
    PROVE  Delivered(After(s, calls), s, p, n, FoldLeft(+, 0, calls))
<1>1. calls \in Seq(Int) /\ Len(calls) \in Nat /\ \A k \in 1 .. Len(calls) : calls[k] \in Nat
  BY SeqMonotonic
<1>2. PICK m \in Nat : m = Len(calls)
  BY <1>1
<1>3. PICK f : /\ f[1 .. 0] = [stream |-> s, all |-> <<>>]
               /\ \A k \in 1 .. m : f[1 .. k] = AfterStep(f[1 .. k - 1], calls[k])
               /\ After(s, calls) = f[1 .. m]
  <2>1. \E f : /\ f[1 .. 0] = [stream |-> s, all |-> <<>>]
               /\ \A k \in 1 .. Len(calls) : f[1 .. k] = AfterStep(f[1 .. k - 1], calls[k])
               /\ After(s, calls) = f[1 .. Len(calls)]
    BY <1>1, AfterRuns, Zenon DEF AfterStep
  <2> QED
    BY <1>2, <2>1, Zenon
<1>4. PICK g : /\ g[1 .. 0] = 0
               /\ \A k \in 1 .. m : g[1 .. k] = g[1 .. k - 1] + calls[k]
               /\ FoldLeft(+, 0, calls) = g[1 .. m]
  BY <1>1, <1>2, AskedRuns
<1> DEFINE S == {k \in Nat : Delivered(f[1 .. k], s, p, n, g[1 .. k])}
<1>5. 0 \in S
  <2>1. Within(0, n) = 0
    BY DEF Within
  <2>2. BytesFrom(p, 0) = <<>>
    BY NoBytes
  <2>3. PICK b : b = [stream |-> s, all |-> <<>>]
    OBVIOUS
  <2>4. b.stream = s /\ b.all = <<>>
    BY <2>3
  <2>5. Delivered(b, s, p, n, 0)
    <3>1. b.all = BytesFrom(p, Within(0, n))
      BY <2>1, <2>2, <2>4
    <3>2. Reached(b.stream, s, p, n, 0)
      BY <2>4
    <3> QED
      BY <3>1, <3>2 DEF Delivered
  <2>6. f[1 .. 0] = b /\ g[1 .. 0] = 0
    BY <1>3, <1>4, <2>3, Zenon
  <2>7. Delivered(f[1 .. 0], s, p, n, g[1 .. 0])
    BY <2>5, <2>6, Zenon
  <2> QED
    BY <2>7
<1>6. ASSUME NEW k \in 1 .. m, k - 1 \in S PROVE k \in S
  <2>1. PICK acc, a : acc = f[1 .. k - 1] /\ a = g[1 .. k - 1]
    OBVIOUS
  <2>2. PICK c \in Nat : c = calls[k]
    BY <1>1, <1>2
  <2>3. Delivered(acc, s, p, n, a)
    BY <1>6, <2>1
  <2>4. Delivered(AfterStep(acc, c), s, p, n, a + c)
    BY <2>3, DeliveredStep
  <2>5. f[1 .. k] = AfterStep(acc, c) /\ g[1 .. k] = a + c
    BY <1>3, <1>4, <2>1, <2>2, Zenon
  <2>6. Delivered(f[1 .. k], s, p, n, g[1 .. k])
    BY <2>4, <2>5, Zenon
  <2> QED
    BY <2>6
<1>7. S \in SUBSET Nat
  OBVIOUS
<1> HIDE DEF S
<1>8. m \in S
  <2>1. \A k \in 0 .. m : k \in S
    BY <1>5, <1>6, <1>7, EveryPlace
  <2> QED
    BY <2>1
<1>9. Delivered(f[1 .. m], s, p, n, g[1 .. m])
  BY <1>8 DEF S
<1> QED
  BY <1>3, <1>4, <1>9, Zenon

-----------------------------------------------------------------------------
(* Streams: how they are opened.                                           *)

\* A stream before it is wrapped.
LEMMA RawIs ==
    ASSUME NEW class \in {"std", "string", "file"}, NEW buf \in {"file", "memory", "pipe"},
           NEW len \in Nat, NEW pos \in Nat
    PROVE  LET r == Raw(class, buf, len, pos)
           IN  /\ r \in Stream /\ Good(r) /\ r.class = class /\ r.buf = buf
               /\ r.len = len /\ r.pos = pos /\ r.begin = 0 /\ r.size = len
<1>1. PICK none \in Seq(Int) : none = <<>>
  BY BytesAre, NoBytes
<1>2. Raw(class, buf, len, pos) =
        [class |-> class, buf |-> buf, len |-> len, pos |-> pos, eof |-> FALSE,
         fail |-> FALSE, begin |-> 0, size |-> len, got |-> none, ret |-> 0]
  BY <1>1 DEF Raw
<1> QED
  BY <1>2 DEF Stream, Good

\* A seekable stream with the size that was given.
LEMMA OpenedSized ==
    ASSUME NEW len \in Nat, NEW pos \in Nat, NEW size \in Nat
    PROVE  LET s == StdInputStream(Raw("std", "file", len, pos), size)
           IN  /\ s \in Stream /\ Good(s) /\ s.class = "std" /\ s.buf = "file"
               /\ s.len = len /\ s.pos = pos /\ s.begin = pos /\ s.size = size
<1> DEFINE r == Raw("std", "file", len, pos)
<1>1. /\ r \in Stream /\ Good(r) /\ r.class = "std" /\ r.buf = "file"
      /\ r.len = len /\ r.pos = pos
  BY RawIs
<1> HIDE DEF r
<1> DEFINE t == tellg(r)
<1>2. /\ t \in Stream /\ Same(t, r) /\ t.pos = pos /\ t.eof = r.eof /\ t.fail = FALSE
      /\ t.ret = pos
  <2>1. seekpos(r, r.pos) = pos
    BY <1>1, SeekposIs
  <2> QED
    BY <1>1, <2>1, TellgIs
<1>3. StdInputStream(r, size) = [t EXCEPT !.class = "std", !.begin = t.ret, !.size = size]
  <2>1. size # Unknown
    BY DEF Unknown
  <2> QED
    BY <2>1 DEF StdInputStream
<1> HIDE DEF t
<1>4. StdInputStream(r, size) = [t EXCEPT !.class = "std", !.begin = pos, !.size = size]
  BY <1>2, <1>3
<1>5. LET s == StdInputStream(r, size)
      IN  /\ s \in Stream /\ s.class = "std" /\ s.buf = t.buf /\ s.len = t.len /\ s.pos = t.pos
          /\ s.begin = pos /\ s.size = size /\ s.eof = t.eof /\ s.fail = t.fail
  <2>1. PICK z \in Int, b \in Int : z = size /\ b = pos
    OBVIOUS
  <2>2. StdInputStream(r, size) = [t EXCEPT !.class = "std", !.begin = b, !.size = z]
    BY <1>4, <2>1
  <2>3. t \in Stream
    BY <1>2
  <2> QED
    BY <2>1, <2>2, <2>3 DEF Stream
<1> QED
  BY <1>1, <1>2, <1>5 DEF Good, Same, r

\* A seekable stream that is asked for its size.
LEMMA OpenedUnsized ==
    ASSUME NEW len \in Nat, NEW pos \in 0 .. len
    PROVE  LET s == StdInputStream(Raw("std", "file", len, pos), Unknown)
           IN  /\ s \in Stream /\ Good(s) /\ s.class = "std" /\ s.buf = "file"
               /\ s.len = len /\ s.pos = pos /\ s.begin = pos
               /\ s.size = IF pos = len THEN Unknown ELSE len - pos
<1> DEFINE r == Raw("std", "file", len, pos)
<1>1. /\ r \in Stream /\ Good(r) /\ r.class = "std" /\ r.buf = "file"
      /\ r.len = len /\ r.pos = pos
  BY RawIs
<1> HIDE DEF r
<1> DEFINE b == tellg(r)
           g == seekg(b, len)
           e == tellg(g)
           h == IF e.ret - b.ret = 0 THEN e ELSE seekg(e, b.ret)
           t == tellg(h)
           z == IF e.ret - b.ret > 0 THEN e.ret - b.ret ELSE Unknown
<1>2. /\ b \in Stream /\ b.buf = "file" /\ b.len = len /\ b.pos = pos /\ b.eof = FALSE /\ b.fail = FALSE
      /\ b.ret = pos
  <2>1. seekpos(r, r.pos) = pos
    BY <1>1, SeekposIs
  <2> QED
    <3>1. b \in Stream /\ Same(b, r) /\ b.pos = r.pos /\ b.eof = r.eof /\ b.fail = ~Good(r)
          /\ b.ret = (IF Good(r) THEN seekpos(r, r.pos) ELSE -1)
      BY <1>1, TellgIs
    <3>2. r.eof = FALSE
      BY <1>1 DEF Good, Stream
    <3> HIDE DEF b
    <3> QED
      BY <1>1, <2>1, <3>1, <3>2 DEF Same
<1>3. /\ g \in Stream /\ g.buf = "file" /\ g.len = len /\ g.pos = len /\ g.eof = FALSE /\ g.fail = FALSE
  <2> HIDE DEF b
  <2>1. seekpos(b, len) = len /\ len # -1
    BY <1>2, SeekposIs
  <2> QED
    <3>1. len \in Int
      OBVIOUS
    <3>2. g \in Stream /\ Same(g, b) /\ g.eof = FALSE
          /\ g.pos = (IF b.fail \/ seekpos(b, len) = -1 THEN b.pos ELSE len)
          /\ g.fail = (b.fail \/ seekpos(b, len) = -1)
      BY <1>2, <3>1, SeekgIs
    <3> HIDE DEF g
    <3> QED
      BY <1>2, <2>1, <3>2 DEF Same
<1>4. /\ e \in Stream /\ e.buf = "file" /\ e.len = len /\ e.pos = len /\ e.eof = FALSE /\ e.fail = FALSE
      /\ e.ret = len
  <2> HIDE DEF g
  <2>1. seekpos(g, g.pos) = len
    BY <1>3, SeekposIs
  <2>2. Good(g)
    BY <1>3 DEF Good
  <2> QED
    BY <1>3, <2>1, <2>2, TellgIs DEF Same
<1>5. StdInputStream(r, Unknown) = [t EXCEPT !.class = "std", !.begin = t.ret, !.size = z]
  <2>1. b = tellg(r) /\ e = tellg(seekg(b, r.len))
    BY <1>1
  <2> HIDE DEF b, e
  <2>2. try_get_stream_size(r).stream = h /\ try_get_stream_size(r).size = z
    BY <2>1 DEF try_get_stream_size
  <2> HIDE DEF h, z
  <2> QED
    BY <2>2 DEF StdInputStream
<1> HIDE DEF b, e, g
<1>6. /\ h \in Stream /\ h.buf = "file" /\ h.len = len /\ h.pos = pos /\ h.eof = FALSE /\ h.fail = FALSE
  <2>1. CASE pos = len
    <3>1. h = e
      BY <1>2, <1>4, <2>1
    <3> QED
      BY <1>4, <2>1, <3>1
  <2>2. CASE pos # len
    <3>1. h = seekg(e, pos)
      BY <1>2, <1>4, <2>2
    <3>2. seekpos(e, pos) = pos /\ pos # -1 /\ pos \in Int
      BY <1>4, SeekposIs
    <3> HIDE DEF h
    <3> QED
      BY <1>4, <3>1, <3>2, SeekgIs DEF Same
  <2> QED
    BY <2>1, <2>2
<1>7. z \in Int /\ z = IF pos = len THEN Unknown ELSE len - pos
  BY <1>2, <1>4 DEF Unknown
<1> HIDE DEF h, z
<1>8. /\ t \in Stream /\ t.buf = "file" /\ t.len = len /\ t.pos = pos /\ t.eof = FALSE /\ t.fail = FALSE
      /\ t.ret = pos
  <2>1. seekpos(h, h.pos) = pos
    BY <1>6, SeekposIs
  <2>2. Good(h)
    BY <1>6 DEF Good
  <2> QED
    BY <1>6, <2>1, <2>2, TellgIs DEF Same
<1> HIDE DEF t
<1>9. StdInputStream(r, Unknown) = [t EXCEPT !.class = "std", !.begin = pos, !.size = z]
  BY <1>5, <1>8
<1>10. LET s == StdInputStream(r, Unknown)
       IN  /\ s \in Stream /\ s.class = "std" /\ s.buf = t.buf /\ s.len = t.len /\ s.pos = t.pos
           /\ s.begin = pos /\ s.size = z /\ s.eof = t.eof /\ s.fail = t.fail
  BY <1>7, <1>8, <1>9 DEF Stream
<1> QED
  BY <1>7, <1>8, <1>10 DEF Good, r

\* A pipe, which looking for its size fails.
LEMMA OpenedPipe ==
    ASSUME NEW len \in Nat, NEW pos \in Nat
    PROVE  LET s == StdInputStream(Raw("std", "pipe", len, pos), Unknown)
           IN  /\ s \in Stream /\ ~Good(s) /\ s.class = "std" /\ s.buf = "pipe"
               /\ s.len = len /\ s.pos = pos /\ s.size = Unknown
<1> DEFINE r == Raw("std", "pipe", len, pos)
<1>1. /\ r \in Stream /\ Good(r) /\ r.class = "std" /\ r.buf = "pipe"
      /\ r.len = len /\ r.pos = pos
  BY RawIs
<1> HIDE DEF r
<1> DEFINE b == tellg(r)
           g == seekg(b, len)
           e == tellg(g)
           h == IF e.ret - b.ret = 0 THEN e ELSE seekg(e, b.ret)
           t == tellg(h)
           z == IF e.ret - b.ret > 0 THEN e.ret - b.ret ELSE Unknown
<1>2. /\ b \in Stream /\ b.buf = "pipe" /\ b.len = len /\ b.pos = pos
      /\ b.ret = -1
  <2>1. seekpos(r, r.pos) = -1
    BY <1>1, SeekposIs DEF Stream
  <2> QED
    BY <1>1, <2>1, TellgIs DEF Same
<1>3. /\ g \in Stream /\ g.buf = "pipe" /\ g.len = len /\ g.pos = pos /\ g.fail = TRUE
  <2> HIDE DEF b
  <2>1. seekpos(b, len) = -1
    BY <1>2, SeekposIs
  <2> QED
    <3>1. len \in Int
      OBVIOUS
    <3>2. g \in Stream /\ Same(g, b)
          /\ g.pos = (IF b.fail \/ seekpos(b, len) = -1 THEN b.pos ELSE len)
          /\ g.fail = (b.fail \/ seekpos(b, len) = -1)
      BY <1>2, <3>1, SeekgIs
    <3> HIDE DEF g
    <3> QED
      BY <1>2, <2>1, <3>2 DEF Same
<1>4. /\ e \in Stream /\ e.buf = "pipe" /\ e.len = len /\ e.pos = pos /\ e.fail = TRUE
      /\ e.ret = -1
  <2> HIDE DEF g
  <2>2. ~Good(g)
    BY <1>3 DEF Good
  <2> QED
    BY <1>3, <2>2, TellgIs DEF Same
<1>5. StdInputStream(r, Unknown) = [t EXCEPT !.class = "std", !.begin = t.ret, !.size = z]
  <2>1. b = tellg(r) /\ e = tellg(seekg(b, r.len))
    BY <1>1
  <2> HIDE DEF b, e
  <2>2. try_get_stream_size(r).stream = h /\ try_get_stream_size(r).size = z
    BY <2>1 DEF try_get_stream_size
  <2> HIDE DEF h, z
  <2> QED
    BY <2>2 DEF StdInputStream
<1> HIDE DEF b, e, g
<1>6. h = e /\ z = Unknown
  BY <1>2, <1>4 DEF Unknown
<1> HIDE DEF h, z
<1>8. /\ t \in Stream /\ t.buf = "pipe" /\ t.len = len /\ t.pos = pos /\ t.fail = TRUE
      /\ t.ret = -1
  <2>2. ~Good(e)
    BY <1>4 DEF Good
  <2> QED
    BY <1>4, <1>6, <2>2, TellgIs DEF Same
<1> HIDE DEF t
<1>9. StdInputStream(r, Unknown) = [t EXCEPT !.class = "std", !.begin = -1, !.size = -1]
  BY <1>5, <1>6, <1>8 DEF Unknown
<1>10. LET s == StdInputStream(r, Unknown)
       IN  /\ s \in Stream /\ s.class = "std" /\ s.buf = t.buf /\ s.len = t.len /\ s.pos = t.pos
           /\ s.size = -1 /\ s.fail = t.fail
  BY <1>8, <1>9 DEF Stream
<1> QED
  BY <1>8, <1>10 DEF Good, Unknown, r

\* Every way to open a stream.
LEMMA OpenedIs ==
    ASSUME NEW len \in Nat, NEW pos \in 0 .. len, NEW s \in Opened(len, pos)
    PROVE  \E n \in Nat : /\ Opening(s, pos, n) /\ Reached(s, s, pos, n, 0) /\ s.len = len
                          /\ Window(s, pos) = pos .. pos + n - 1
                          /\ Cardinality(Window(s, pos)) = n
<1>1. pos \in Nat /\ pos <= len /\ len \in Nat
  OBVIOUS
<1>2. ASSUME NEW n \in Nat, Window(s, pos) = pos .. pos + n - 1 PROVE Cardinality(Window(s, pos)) = n
  <2>1. pos \in Int /\ pos + n - 1 \in Int
    BY <1>1
  <2>2. Cardinality(pos .. pos + n - 1) = IF pos > pos + n - 1 THEN 0 ELSE (pos + n - 1) - pos + 1
    BY <2>1, FS_Interval
  <2> QED
    BY <1>1, <1>2, <2>2
<1>3. ASSUME s \in Stream, Good(s), s.buf # "pipe", s.pos = pos, NEW n \in Nat PROVE Reached(s, s, pos, n, 0)
  <2>1. Within(0, n) = 0 /\ pos + 0 = pos /\ 0 <= n
    BY <1>1 DEF Within
  <2> QED
    BY <1>3, <2>1 DEF Reached, Same
<1>4. ASSUME NEW size \in Nat, s = StdInputStream(Raw("std", "file", len, pos), size)
      PROVE  \E n \in Nat : /\ Opening(s, pos, n) /\ Reached(s, s, pos, n, 0) /\ s.len = len
                            /\ Window(s, pos) = pos .. pos + n - 1
  <2>1. /\ s \in Stream /\ Good(s) /\ s.class = "std" /\ s.buf = "file"
        /\ s.len = len /\ s.pos = pos /\ s.begin = pos /\ s.size = size
    BY <1>1, <1>4, OpenedSized
  <2>2. PICK n \in Nat : n = IF len - pos <= size THEN len - pos ELSE size
    BY <1>1
  <2>3. Opening(s, pos, n)
    BY <1>1, <2>1, <2>2 DEF Opening
  <2>4. Window(s, pos) = pos .. pos + n - 1
    <3>1. Min({len, pos + size}) = pos + n
      <4>1. PICK x \in Int : x = pos + size
        BY <1>1
      <4>2. Min({len, x}) = IF len <= x THEN len ELSE x
        BY MinOfIntegers
      <4> QED
        BY <1>1, <2>2, <4>1, <4>2
    <3>2. s.size # Unknown
      BY <2>1 DEF Unknown
    <3> QED
      BY <2>1, <3>1, <3>2 DEF Window
  <2> QED
    BY <1>3, <2>1, <2>3, <2>4
<1>5. ASSUME s = StdInputStream(Raw("std", "file", len, pos), Unknown)
      PROVE  \E n \in Nat : /\ Opening(s, pos, n) /\ Reached(s, s, pos, n, 0) /\ s.len = len
                            /\ Window(s, pos) = pos .. pos + n - 1
  <2>1. /\ s \in Stream /\ Good(s) /\ s.class = "std" /\ s.buf = "file"
        /\ s.len = len /\ s.pos = pos /\ s.begin = pos
        /\ s.size = IF pos = len THEN Unknown ELSE len - pos
    BY <1>5, OpenedUnsized
  <2>2. PICK n \in Nat : n = len - pos
    BY <1>1
  <2>3. Opening(s, pos, n)
    <3>1. CASE pos = len
      BY <1>1, <2>1, <2>2, <3>1 DEF Opening, Unknown
    <3>2. CASE pos # len
      BY <1>1, <2>1, <2>2, <3>2 DEF Opening, Unknown
    <3> QED
      BY <3>1, <3>2
  <2>4. Window(s, pos) = pos .. pos + n - 1
    <3>1. pos + n = len
      BY <1>1, <2>2
    <3>2. Min({len, pos + (len - pos)}) = len
      <4>1. pos + (len - pos) = len
        BY <1>1
      <4>2. Min({len, len}) = len
        BY MinOfIntegers
      <4> QED
        BY <4>1, <4>2
    <3>3. CASE pos = len
      BY <2>1, <3>1, <3>3 DEF Window
    <3>4. CASE pos # len
      <4>1. s.size = len - pos /\ s.size # Unknown
        BY <1>1, <2>1, <3>4 DEF Unknown
      <4>2. Window(s, pos) = pos .. Min({s.len, pos + s.size}) - 1
        BY <2>1, <4>1 DEF Window
      <4>3. Min({s.len, pos + s.size}) = len
        BY <2>1, <3>2, <4>1
      <4> QED
        BY <3>1, <4>2, <4>3
    <3> QED
      BY <3>3, <3>4
  <2> QED
    BY <1>3, <2>1, <2>3, <2>4
<1>6. ASSUME s = StdInputStream(Raw("std", "pipe", len, pos), Unknown)
      PROVE  \E n \in Nat : /\ Opening(s, pos, n) /\ Reached(s, s, pos, n, 0) /\ s.len = len
                            /\ Window(s, pos) = pos .. pos + n - 1
  <2>1. /\ s \in Stream /\ ~Good(s) /\ s.class = "std" /\ s.buf = "pipe"
        /\ s.len = len /\ s.pos = pos /\ s.size = -1
    BY <1>1, <1>6, OpenedPipe DEF Unknown
  <2>2. Opening(s, pos, 0)
    BY <1>1, <2>1 DEF Opening
  <2>3. Reached(s, s, pos, 0, 0)
    <3>1. Within(0, 0) = 0 /\ pos + 0 = pos
      BY <1>1 DEF Within
    <3> QED
      BY <2>1, <3>1 DEF Reached, Same
  <2>4. Window(s, pos) = pos .. pos + 0 - 1
    <3>1. pos .. pos + 0 - 1 = {}
      BY <1>1
    <3> QED
      BY <2>1, <3>1 DEF Window
  <2> QED
    BY <2>1, <2>2, <2>3, <2>4
<1>7. ASSUME pos = 0, s \in {StringInputStream(len), FileInputStream(len)}
      PROVE  \E n \in Nat : /\ Opening(s, pos, n) /\ Reached(s, s, pos, n, 0) /\ s.len = len
                            /\ Window(s, pos) = pos .. pos + n - 1
  <2>1. /\ s \in Stream /\ Good(s) /\ s.class # "std" /\ s.buf # "pipe"
        /\ s.len = len /\ s.pos = pos /\ s.size = len
    BY <1>1, <1>7, RawIs DEF StringInputStream, FileInputStream
  <2>2. Opening(s, pos, len)
    BY <1>1, <1>7, <2>1 DEF Opening
  <2>3. Window(s, pos) = pos .. pos + len - 1
    BY <1>1, <1>7, <2>1 DEF Window
  <2> QED
    BY <1>3, <2>1, <2>2, <2>3
<1>8. \E n \in Nat : /\ Opening(s, pos, n) /\ Reached(s, s, pos, n, 0) /\ s.len = len
                     /\ Window(s, pos) = pos .. pos + n - 1
  <2>1. \/ s = StdInputStream(Raw("std", "file", len, pos), Unknown)
        \/ \E size \in 0 .. len + 1 : s = StdInputStream(Raw("std", "file", len, pos), size)
        \/ s = StdInputStream(Raw("std", "pipe", len, pos), Unknown)
        \/ pos = 0 /\ s \in {StringInputStream(len), FileInputStream(len)}
    BY Zenon DEF Opened
  <2>2. \A size \in 0 .. len + 1 : size \in Nat
    OBVIOUS
  <2> QED
    BY <1>4, <1>5, <1>6, <1>7, <2>1, <2>2, Zenon
<1> QED
  BY <1>2, <1>8

-----------------------------------------------------------------------------
(* Streams: any calls.                                                     *)

\* q has only bytes of the window of n bytes from p.
Inside(q, p, n) == q \in Seq(Int) /\ \A i \in 1 .. Len(q) : q[i] \in p .. p + n - 1

\* Bytes within a window are inside it.
LEMMA InsideBytes ==
    ASSUME NEW p \in Nat, NEW n \in Nat, NEW x \in Nat, NEW k \in Nat, k > 0 => p <= x /\ x + k <= p + n
    PROVE  Inside(BytesFrom(x, k), p, n)
<1>1. /\ BytesFrom(x, k) \in Seq(Int) /\ Len(BytesFrom(x, k)) = k
      /\ \A i \in 1 .. k : BytesFrom(x, k)[i] = x + i - 1
  <2>1. x \in Int
    OBVIOUS
  <2> QED
    BY <2>1, BytesAre
<1>2. \A i \in 1 .. k : x + i - 1 \in p .. p + n - 1
  OBVIOUS
<1> QED
  BY <1>1, <1>2 DEF Inside

\* What is delivered inside a window stays inside it when more is.
LEMMA InsideJoin ==
    ASSUME NEW p \in Nat, NEW n \in Nat, NEW q, NEW r, Inside(q, p, n), Inside(r, p, n)
    PROVE  Inside(q \o r, p, n)
<1>1. /\ q \in Seq(Int) /\ r \in Seq(Int) /\ Len(q) \in Nat /\ Len(r) \in Nat
  BY DEF Inside
<1>2. /\ q \o r \in Seq(Int) /\ Len(q \o r) = Len(q) + Len(r)
      /\ \A i \in 1 .. Len(q) + Len(r) : (q \o r)[i] = IF i <= Len(q) THEN q[i] ELSE r[i - Len(q)]
  BY <1>1, ConcatProperties
<1>3. ASSUME NEW i \in 1 .. Len(q) + Len(r) PROVE (q \o r)[i] \in p .. p + n - 1
  <2>1. CASE i <= Len(q)
    BY <1>1, <1>2, <2>1 DEF Inside
  <2>2. CASE ~(i <= Len(q))
    <3>1. i - Len(q) \in 1 .. Len(r)
      BY <1>1, <2>2
    <3>2. r[i - Len(q)] \in p .. p + n - 1
      BY <3>1 DEF Inside
    <3> QED
      BY <1>2, <2>2, <3>2
  <2> QED
    BY <2>1, <2>2
<1> QED
  BY <1>2, <1>3 DEF Inside

\* A call of a stream of known size, wherever it is.
LEMMA AnyCall ==
    ASSUME NEW p \in Nat, NEW n \in Nat, NEW s, Opening(s, p, n), s.size # -1,
           NEW t \in Stream, Same(t, s), NEW c \in Int
    PROVE  call(t, c) \in Stream /\ Same(call(t, c), s) /\ Inside(call(t, c).got, p, n)
<1>1. t.class = s.class /\ t.buf = s.buf /\ t.len = s.len /\ t.begin = s.begin /\ t.size = s.size
      /\ t.pos \in Nat /\ t.len \in Nat
  BY DEF Same, Stream
<1>2. Inside(<<>>, p, n)
  <2>1. Inside(BytesFrom(0, 0), p, n)
    BY InsideBytes
  <2> QED
    BY <2>1, NoBytes
<1>3. ASSUME NEW u \in Stream, Same(u, s), call(t, c) = [u EXCEPT !.got = <<>>]
      PROVE  call(t, c) \in Stream /\ Same(call(t, c), s) /\ Inside(call(t, c).got, p, n)
  <2>1. PICK none \in Seq(Int) : none = <<>>
    BY BytesAre, NoBytes
  <2>2. call(t, c) = [u EXCEPT !.got = none]
    BY <1>3, <2>1
  <2>3. call(t, c) \in Stream /\ Same(call(t, c), u) /\ call(t, c).got = <<>>
    BY <2>1, <2>2 DEF Stream, Same
  <2>4. Same(call(t, c), s)
    BY <1>3, <2>3 DEF Same
  <2> QED
    BY <1>2, <2>3, <2>4
<1>4. CASE c = 0
  <2>1. call(t, c) = [tellg(t) EXCEPT !.got = <<>>]
    BY <1>4 DEF call
  <2>2. tellg(t) \in Stream /\ Same(tellg(t), t)
    BY TellgIs
  <2>3. Same(tellg(t), s)
    BY <2>2 DEF Same
  <2> QED
    BY <1>3, <2>1, <2>2, <2>3
<1>5. CASE c < 0
  <2>1. call(t, c) = [seek(t, c) EXCEPT !.got = <<>>]
    BY <1>5 DEF call
  <2>2. PICK x \in Int : x = t.pos + c
    BY <1>1
  <2>3. PICK g : g = seekg(t, x)
    OBVIOUS
  <2>4. g \in Stream /\ Same(g, t)
    BY <2>3, SeekgIs
  <2>5. tellg(g) \in Stream /\ Same(tellg(g), g)
    BY <2>4, TellgIs
  <2>6. seek(t, c) = tellg(g)
    BY <2>2, <2>3 DEF seek
  <2>7. Same(tellg(g), s)
    BY <2>4, <2>5 DEF Same
  <2> QED
    BY <1>3, <2>1, <2>5, <2>6, <2>7
<1>6. CASE c > 0 /\ s.class = "std"
  <2>1. /\ s.buf = "file" /\ s.begin = p /\ s.size \in Nat /\ p <= s.len
        /\ n = IF s.len - p <= s.size THEN s.len - p ELSE s.size
    BY <1>6 DEF Opening
  <2>2. PICK r : r = std_read(t, c)
    OBVIOUS
  <2>3. call(t, c) = r
    BY <1>1, <1>6, <2>2 DEF call, read
  <2>4. PICK z \in Nat, l \in Nat : z = s.size /\ l = s.len
    BY <1>1, <2>1
  <2> DEFINE rest == z - (t.pos - p)
             m == IF c <= rest THEN c ELSE rest
             k == IF l <= t.pos THEN 0 ELSE IF m <= l - t.pos THEN m ELSE l - t.pos
  <2>5. /\ r \in Stream /\ Same(r, t)
        /\ ~Good(t) \/ t.pos < p => r.got = <<>>
        /\ Good(t) /\ t.pos >= p /\ rest <= 0 => r.got = <<>>
        /\ Good(t) /\ t.pos >= p /\ rest > 0 => r.got = BytesFrom(t.pos, k)
    <3>1. c \in Nat
      BY <1>6
    <3>2. t.class = "std" /\ t.buf = "file" /\ t.begin = p /\ t.size = z /\ t.len = l
      BY <1>1, <1>6, <2>1, <2>4
    <3>3. /\ r \in Stream /\ Same(r, t)
          /\ ~Good(t) \/ t.pos < t.begin => r.got = <<>>
          /\ Good(t) /\ t.pos >= t.begin /\ t.size - (t.pos - t.begin) <= 0 => r.got = <<>>
          /\ Good(t) /\ t.pos >= t.begin /\ t.size - (t.pos - t.begin) > 0 =>
                r.got = BytesFrom(t.pos, LET q == t.size - (t.pos - t.begin)
                                         v == IF c <= q THEN c ELSE q
                                     IN  IF t.len <= t.pos THEN 0 ELSE IF v <= t.len - t.pos THEN v ELSE t.len - t.pos)
      BY <2>2, <3>1, <3>2, StdReadIs
    <3> QED
      BY <3>2, <3>3
  <2>6. Same(r, s)
    BY <2>5 DEF Same
  <2>7. CASE ~Good(t) \/ t.pos < p \/ rest <= 0
    <3>1. r.got = <<>>
      BY <1>1, <2>5, <2>7
    <3> QED
      BY <1>2, <2>3, <2>5, <2>6, <3>1
  <2>8. CASE Good(t) /\ t.pos >= p /\ rest > 0
    <3>1. k \in Nat /\ (k > 0 => p <= t.pos /\ t.pos + k <= p + n)
      BY <1>1, <1>6, <2>1, <2>4, <2>8
    <3> HIDE DEF k, rest
    <3>2. Inside(BytesFrom(t.pos, k), p, n)
      BY <1>1, <3>1, InsideBytes
    <3> QED
      BY <2>3, <2>5, <2>6, <2>8, <3>2
  <2> QED
    BY <1>1, <2>7, <2>8
<1>7. CASE c > 0 /\ s.class # "std"
  <2>1. p = 0 /\ n = s.len
    BY <1>7 DEF Opening
  <2>2. PICK r : r = istream_read(t, c)
    OBVIOUS
  <2>3. call(t, c) = r
    BY <1>1, <1>7, <2>2 DEF call, read
  <2>4. PICK k : k = Delivers(t, c)
    OBVIOUS
  <2>5. /\ r \in Stream /\ Same(r, t) /\ r.got = BytesFrom(t.pos, k) /\ k \in 0 .. c
        /\ ~Good(t) => k = 0
        /\ Good(t) => k = IF t.len <= t.pos THEN 0 ELSE IF c <= t.len - t.pos THEN c ELSE t.len - t.pos
    <3>1. c \in Nat
      BY <1>7
    <3> QED
      BY <2>2, <2>4, <3>1, ReadIs
  <2>6. k \in Nat /\ (k > 0 => p <= t.pos /\ t.pos + k <= p + n)
    BY <1>1, <1>7, <2>1, <2>5
  <2>7. Inside(r.got, p, n)
    BY <1>1, <2>5, <2>6, InsideBytes
  <2>8. Same(r, s)
    BY <2>5 DEF Same
  <2> QED
    BY <2>3, <2>5, <2>7, <2>8
<1> QED
  BY <1>4, <1>5, <1>6, <1>7

\* Whatever the calls, all that is delivered is in the window.
LEMMA WindowIsKept ==
    ASSUME NEW s, NEW p \in Nat, NEW n \in Nat, Opening(s, p, n), s.size # -1, NEW calls \in Seq(Int)
    PROVE  Inside(After(s, calls).all, p, n)
<1>1. PICK m \in Nat : m = Len(calls)
  OBVIOUS
<1>2. \A k \in 1 .. m : calls[k] \in Int
  BY <1>1
<1>3. PICK f : /\ f[1 .. 0] = [stream |-> s, all |-> <<>>]
               /\ \A k \in 1 .. m : f[1 .. k] = AfterStep(f[1 .. k - 1], calls[k])
               /\ After(s, calls) = f[1 .. m]
  <2>1. \E f : /\ f[1 .. 0] = [stream |-> s, all |-> <<>>]
               /\ \A k \in 1 .. Len(calls) : f[1 .. k] = AfterStep(f[1 .. k - 1], calls[k])
               /\ After(s, calls) = f[1 .. Len(calls)]
    BY AfterRuns, Zenon DEF AfterStep
  <2> QED
    BY <1>1, <2>1, Zenon
<1> DEFINE KeptInside(acc) == acc.stream \in Stream /\ Same(acc.stream, s) /\ Inside(acc.all, p, n)
           S == {k \in Nat : KeptInside(f[1 .. k])}
<1>4. ASSUME NEW acc, KeptInside(acc), NEW c \in Int PROVE KeptInside(AfterStep(acc, c))
  <2>1. PICK u : u = acc.stream
    OBVIOUS
  <2>2. u \in Stream /\ Same(u, s) /\ Inside(acc.all, p, n)
    BY <1>4, <2>1
  <2>3. call(u, c) \in Stream /\ Same(call(u, c), s) /\ Inside(call(u, c).got, p, n)
    BY <2>2, AnyCall
  <2>4. Inside(acc.all \o call(u, c).got, p, n)
    BY <2>2, <2>3, InsideJoin
  <2>5. AfterStep(acc, c).stream = call(u, c) /\ AfterStep(acc, c).all = acc.all \o call(u, c).got
    BY <2>1, AfterStepIs, Zenon
  <2> QED
    BY <2>3, <2>4, <2>5, Zenon
<1>5. 0 \in S
  <2>1. PICK b : b = [stream |-> s, all |-> <<>>]
    OBVIOUS
  <2>2. b.stream = s /\ b.all = <<>>
    BY <2>1
  <2>3. s \in Stream /\ Same(s, s)
    BY DEF Opening, Same
  <2>4. Inside(<<>>, p, n)
    <3>1. Inside(BytesFrom(0, 0), p, n)
      BY InsideBytes
    <3> QED
      BY <3>1, NoBytes
  <2>5. KeptInside(b)
    BY <2>2, <2>3, <2>4, Zenon
  <2>6. f[1 .. 0] = b
    BY <1>3, <2>1, Zenon
  <2>7. KeptInside(f[1 .. 0])
    BY <2>5, <2>6, Zenon
  <2> HIDE DEF KeptInside
  <2> QED
    BY <2>7
<1> HIDE DEF KeptInside
<1>6. ASSUME NEW k \in 1 .. m, k - 1 \in S PROVE k \in S
  <2>1. PICK acc : acc = f[1 .. k - 1]
    OBVIOUS
  <2>2. PICK c \in Int : c = calls[k]
    BY <1>2
  <2>3. KeptInside(acc)
    BY <1>6, <2>1
  <2>4. KeptInside(AfterStep(acc, c))
    BY <1>4, <2>3
  <2>5. f[1 .. k] = AfterStep(acc, c)
    BY <1>3, <2>1, <2>2, Zenon
  <2>6. KeptInside(f[1 .. k])
    BY <2>4, <2>5, Zenon
  <2> QED
    BY <2>6
<1>7. S \in SUBSET Nat
  OBVIOUS
<1> HIDE DEF S
<1>8. m \in S
  <2>1. \A k \in 0 .. m : k \in S
    BY <1>5, <1>6, <1>7, EveryPlace
  <2> QED
    BY <2>1
<1>9. KeptInside(f[1 .. m])
  BY <1>8 DEF S
<1> QED
  BY <1>3, <1>9, Zenon DEF KeptInside

-----------------------------------------------------------------------------
(* Streams: lines.                                                         *)

\* What read_line has after some turns.
Acc(stream, line, state) == [stream |-> stream, line |-> line, state |-> state]

\* The state of read_line's loop.
LEMMA AccIs ==
    ASSUME NEW u, NEW l, NEW st
    PROVE  Acc(u, l, st).stream = u /\ Acc(u, l, st).line = l /\ Acc(u, l, st).state = st
BY DEF Acc

\* What a turn of read_line's loop does.
LEMMA LineStepIs ==
    ASSUME NEW content, NEW u, NEW l, NEW st
    PROVE  LET r == read(u, 1)
               c == content[r.got[1] + 1]
               next == line_step(content, Acc(u, l, st))
           IN  /\ st \in {"done", "end", "bad"} => next = Acc(u, l, st)
               /\ st \in {"cr", "lf"} /\ r.got = <<>> => next = Acc(r, l, "end")
               /\ st = "cr" /\ r.got # <<>> /\ c = cr => next = Acc(r, l, "lf")
               /\ st = "cr" /\ r.got # <<>> /\ c # cr => next = Acc(r, Append(l, c), "cr")
               /\ st = "lf" /\ r.got # <<>> /\ c = lf => next = Acc(r, l, "done")
               /\ st = "lf" /\ r.got # <<>> /\ c # lf => next = Acc(r, l, "bad")
<1>0. PICK acc : acc = Acc(u, l, st)
  OBVIOUS
<1>1. PICK r : r = read(u, 1)
  OBVIOUS
<1>2. PICK c : c = content[r.got[1] + 1]
  OBVIOUS
<1>3. acc.stream = u /\ acc.line = l /\ acc.state = st
  BY <1>0, AccIs
<1>4. read(acc.stream, 1) = r
  BY <1>1, <1>3
<1>5. PICK y : y = [acc EXCEPT !.stream = r]
  OBVIOUS
<1>15. acc = [stream |-> u, line |-> l, state |-> st]
  BY <1>0 DEF Acc
<1>16. y = [stream |-> r, line |-> l, state |-> st]
  BY <1>5, <1>15
<1>6. /\ [acc EXCEPT !.stream = r, !.state = "end"] = Acc(r, l, "end")
      /\ [acc EXCEPT !.stream = r, !.state = "lf"] = Acc(r, l, "lf")
      /\ [acc EXCEPT !.stream = r, !.state = "done"] = Acc(r, l, "done")
      /\ [acc EXCEPT !.stream = r, !.state = "bad"] = Acc(r, l, "bad")
  <2>1. ASSUME NEW q PROVE [y EXCEPT !.state = q] = Acc(r, l, q)
    BY <1>16 DEF Acc
  <2>2. [acc EXCEPT !.stream = r, !.state = "end"] = [y EXCEPT !.state = "end"]
    BY <1>5
  <2>3. [acc EXCEPT !.stream = r, !.state = "lf"] = [y EXCEPT !.state = "lf"]
    BY <1>5
  <2>4. [acc EXCEPT !.stream = r, !.state = "done"] = [y EXCEPT !.state = "done"]
    BY <1>5
  <2>5. [acc EXCEPT !.stream = r, !.state = "bad"] = [y EXCEPT !.state = "bad"]
    BY <1>5
  <2> QED
    BY <2>1, <2>2, <2>3, <2>4, <2>5
<1>14. [acc EXCEPT !.stream = r, !.line = Append(acc.line, c)] = Acc(r, Append(l, c), st)
  <2>1. PICK w : w = Append(acc.line, c)
    OBVIOUS
  <2>2. [y EXCEPT !.line = w] = Acc(r, w, st)
    BY <1>16 DEF Acc
  <2>3. [acc EXCEPT !.stream = r, !.line = w] = [y EXCEPT !.line = w]
    BY <1>5
  <2>4. w = Append(l, c)
    BY <1>3, <2>1
  <2> QED
    BY <2>1, <2>2, <2>3, <2>4
<1>7. st \in {"done", "end", "bad"} => line_step(content, acc) = acc
  BY <1>3 DEF line_step
<1>8. st \in {"cr", "lf"} /\ r.got = <<>> => line_step(content, acc) = Acc(r, l, "end")
  BY <1>3, <1>4, <1>6 DEF line_step
<1>9. st = "cr" /\ r.got # <<>> /\ c = cr => line_step(content, acc) = Acc(r, l, "lf")
  BY <1>2, <1>3, <1>4, <1>6 DEF line_step
<1>10. st = "cr" /\ r.got # <<>> /\ c # cr => line_step(content, acc) = Acc(r, Append(l, c), "cr")
  BY <1>2, <1>3, <1>4, <1>14 DEF line_step
<1>11. st = "lf" /\ r.got # <<>> /\ c = lf => line_step(content, acc) = Acc(r, l, "done")
  BY <1>2, <1>3, <1>4, <1>6 DEF line_step
<1>12. st = "lf" /\ r.got # <<>> /\ c # lf => line_step(content, acc) = Acc(r, l, "bad")
  BY <1>2, <1>3, <1>4, <1>6 DEF line_step
<1>13. read(u, 1).got = r.got /\ content[read(u, 1).got[1] + 1] = c
  BY <1>1, <1>2
<1> QED
  BY <1>0, <1>1, <1>7, <1>8, <1>9, <1>10, <1>11, <1>12, <1>13, Zenon

\* Where the first line ends: e is the place of its CR, or behind the content.
Ends(content, e) ==
    /\ e \in 1 .. Len(content) + 1
    /\ \A i \in 1 .. e - 1 : content[i] # cr
    /\ e <= Len(content) => content[e] = cr

\* The line up to the first CR, or to the end.
LEMMA FirstLineIs ==
    ASSUME NEW content \in Seq(Int)
    PROVE  \E e : /\ Ends(content, e)
                  /\ FirstLine(content).line = SubSeq(content, 1, e - 1)
                  /\ FirstLine(content).bad <=> e < Len(content) /\ content[e + 1] # lf
                  /\ FirstLine(content).next = IF e + 1 <= Len(content) THEN e + 1 ELSE Len(content)
<1> DEFINE n == Len(content)
           B == {i \in 1 .. n : content[i] = cr}
           e == IF B = {} THEN n + 1 ELSE Min(B)
<1>1. n \in Nat
  OBVIOUS
<1>2. Ends(content, e)
  <2>1. CASE B = {}
    <3>1. e = n + 1
      BY <2>1
    <3>2. \A i \in 1 .. n : content[i] # cr
      BY <2>1
    <3> HIDE DEF e
    <3> QED
      BY <1>1, <3>1, <3>2 DEF Ends
  <2>2. CASE B # {}
    <3>1. B \in SUBSET Nat
      OBVIOUS
    <3>2. Min(B) \in B /\ \A y \in B : Min(B) <= y
      BY <2>2, <3>1, MinNumber
    <3>3. e = Min(B)
      BY <2>2
    <3> HIDE DEF e
    <3>4. e \in 1 .. n /\ content[e] = cr /\ \A y \in B : e <= y
      BY <3>2, <3>3
    <3>5. \A i \in 1 .. e - 1 : content[i] # cr
      <4> SUFFICES ASSUME NEW i \in 1 .. e - 1, content[i] = cr PROVE FALSE
        OBVIOUS
      <4>1. i \in 1 .. n /\ ~(e <= i)
        BY <1>1, <3>4
      <4>2. i \in B
        BY <4>1
      <4> QED
        BY <3>4, <4>1, <4>2
    <3> QED
      BY <1>1, <3>4, <3>5 DEF Ends
  <2> QED
    BY <2>1, <2>2
<1>3. FirstLine(content) =
        [line |-> SubSeq(content, 1, e - 1), bad |-> e < Len(content) /\ content[e + 1] # lf,
         next |-> Min({e + 1, Len(content)})]
  BY Zenon DEF FirstLine
<1> HIDE DEF e
<1>4. e + 1 \in Int /\ Len(content) \in Int
  BY <1>2 DEF Ends
<1>5. Min({e + 1, Len(content)}) = IF e + 1 <= Len(content) THEN e + 1 ELSE Len(content)
  BY <1>4, MinOfIntegers
<1>6. /\ FirstLine(content).line = SubSeq(content, 1, e - 1)
      /\ FirstLine(content).bad = (e < Len(content) /\ content[e + 1] # lf)
      /\ FirstLine(content).next = Min({e + 1, Len(content)})
  <2> DEFINE w == SubSeq(content, 1, e - 1)
             b == e < Len(content) /\ content[e + 1] # lf
             x == Min({e + 1, Len(content)})
  <2>1. FirstLine(content) = [line |-> w, bad |-> b, next |-> x]
    BY <1>3
  <2> HIDE DEF w, b, x
  <2>2. FirstLine(content).line = w /\ FirstLine(content).bad = b /\ FirstLine(content).next = x
    BY <2>1
  <2> QED
    BY <2>2, Zenon DEF w, b, x
<1> QED
  BY <1>2, <1>5, <1>6

\* What read_line has after k turns.
LineAt(u, l, st, s, content, e, k) ==
    LET n == Len(content)
    IN  \/ st = "cr" /\ k < e /\ l = SubSeq(content, 1, k) /\ Reached(u, s, 0, n, k)
        \/ st = "lf" /\ k = e /\ e <= n /\ l = SubSeq(content, 1, e - 1) /\ Reached(u, s, 0, n, k)
        \/ st = "done" /\ e < n /\ content[e + 1] = lf /\ l = SubSeq(content, 1, e - 1) /\ u.pos = e + 1
        \/ st = "end" /\ e >= n /\ l = SubSeq(content, 1, e - 1)
        \/ st = "bad" /\ e < n /\ content[e + 1] # lf

\* A turn.
LEMMA LineTurn ==
    ASSUME NEW content \in Seq(Int), NEW s, Opening(s, 0, Len(content)), NEW e, Ends(content, e),
           NEW k \in 0 .. Len(content), NEW u, NEW l, NEW st, LineAt(u, l, st, s, content, e, k)
    PROVE  \E v, w, q : /\ line_step(content, Acc(u, l, st)) = Acc(v, w, q)
                        /\ LineAt(v, w, q, s, content, e, k + 1)
<1> DEFINE next == line_step(content, Acc(u, l, st))
<1>1. PICK n \in Nat : n = Len(content)
  OBVIOUS
<1>2. /\ e \in 1 .. n + 1 /\ \A i \in 1 .. e - 1 : content[i] # cr
      /\ e <= n => content[e] = cr
  BY <1>1 DEF Ends
<1>3. PICK r : r = read(u, 1)
  OBVIOUS
<1>4. PICK c : c = content[r.got[1] + 1]
  OBVIOUS
<1>5. /\ st \in {"done", "end", "bad"} => next = Acc(u, l, st)
      /\ st \in {"cr", "lf"} /\ r.got = <<>> => next = Acc(r, l, "end")
      /\ st = "cr" /\ r.got # <<>> /\ c = cr => next = Acc(r, l, "lf")
      /\ st = "cr" /\ r.got # <<>> /\ c # cr => next = Acc(r, Append(l, c), "cr")
      /\ st = "lf" /\ r.got # <<>> /\ c = lf => next = Acc(r, l, "done")
      /\ st = "lf" /\ r.got # <<>> /\ c # lf => next = Acc(r, l, "bad")
  <2>1. LET x == read(u, 1)
            y == content[x.got[1] + 1]
        IN  /\ st \in {"done", "end", "bad"} => next = Acc(u, l, st)
            /\ st \in {"cr", "lf"} /\ x.got = <<>> => next = Acc(x, l, "end")
            /\ st = "cr" /\ x.got # <<>> /\ y = cr => next = Acc(x, l, "lf")
            /\ st = "cr" /\ x.got # <<>> /\ y # cr => next = Acc(x, Append(l, y), "cr")
            /\ st = "lf" /\ x.got # <<>> /\ y = lf => next = Acc(x, l, "done")
            /\ st = "lf" /\ x.got # <<>> /\ y # lf => next = Acc(x, l, "bad")
    BY LineStepIs
  <2> HIDE DEF next
  <2> QED
    BY <1>3, <1>4, <2>1
<1> HIDE DEF next
<1>6. ASSUME Reached(u, s, 0, n, k)
      PROVE  /\ Reached(r, s, 0, n, k + 1)
             /\ k < n => r.got # <<>> /\ c = content[k + 1]
             /\ k = n => r.got = <<>>
  <2>1. Reached(r, s, 0, n, k + 1) /\ r.got = BytesFrom(0 + Within(k, n), More(k, 1, n))
    <3>1. 0 \in Nat /\ k \in Nat /\ 1 \in Nat \ {0} /\ Opening(s, 0, n)
      BY <1>1
    <3> QED
      BY <1>3, <1>6, <3>1, ReadStep
  <2>2. 0 + Within(k, n) = k /\ k \in Int
    BY <1>1 DEF Within
  <2>3. CASE k < n
    <3>1. More(k, 1, n) = 1
      BY <1>1, <2>3 DEF More, Within
    <3>2. r.got = BytesFrom(k, 1)
      BY <2>1, <2>2, <3>1
    <3>3. Len(r.got) = 1 /\ r.got[1] = k
      <4>1. Len(BytesFrom(k, 1)) = 1 /\ BytesFrom(k, 1)[1] = k + 1 - 1
        <5>1. k \in Int /\ 1 \in Nat /\ 1 \in 1 .. 1
          OBVIOUS
        <5> QED
          BY <5>1, BytesAre
      <4> QED
        BY <2>2, <3>2, <4>1
    <3>4. r.got # <<>>
      <4>1. Len(<<>>) = 0
        OBVIOUS
      <4> QED
        BY <3>3, <4>1
    <3> QED
      BY <1>1, <1>4, <2>1, <2>3, <3>3, <3>4
  <2>4. CASE k = n
    <3>1. More(k, 1, n) = 0
      BY <1>1, <2>4 DEF More, Within
    <3>2. r.got = <<>>
      BY <2>1, <2>2, <3>1, NoBytes
    <3> QED
      BY <1>1, <2>1, <2>4, <3>2
  <2> QED
    BY <1>1, <2>1, <2>3, <2>4
<1>7. CASE st = "cr" /\ k < e /\ l = SubSeq(content, 1, k) /\ Reached(u, s, 0, n, k)
  <2>1. CASE k = n
    <3>1. e = n + 1 /\ e - 1 = n /\ e >= n
      BY <1>1, <1>2, <1>7, <2>1
    <3>2. next = Acc(r, l, "end")
      BY <1>5, <1>6, <1>7, <2>1
    <3>3. LineAt(r, l, "end", s, content, e, k + 1)
      BY <1>1, <1>7, <2>1, <3>1 DEF LineAt
    <3> QED
      BY <3>2, <3>3 DEF next
  <2>2. CASE k < n /\ content[k + 1] = cr
    <3>1. e = k + 1
      BY <1>1, <1>2, <1>7, <2>2
    <3>2. next = Acc(r, l, "lf")
      BY <1>5, <1>6, <1>7, <2>2
    <3>3. e - 1 = k /\ e <= n
      BY <1>1, <2>2, <3>1
    <3>4. LineAt(r, l, "lf", s, content, e, k + 1)
      BY <1>1, <1>6, <1>7, <3>1, <3>3 DEF LineAt
    <3> QED
      BY <3>2, <3>4 DEF next
  <2>3. CASE k < n /\ content[k + 1] # cr
    <3>1. k + 1 < e
      BY <1>1, <1>2, <1>7, <2>3
    <3>2. next = Acc(r, Append(l, content[k + 1]), "cr")
      BY <1>5, <1>6, <1>7, <2>3
    <3>3. Append(l, content[k + 1]) = SubSeq(content, 1, k + 1)
      <4>1. 1 \in 1 .. n + 1 /\ k \in 0 .. n /\ k + 1 \in 1 .. n /\ 0 \in 0 .. n
        BY <1>1, <2>3
      <4>2. /\ SubSeq(content, 0 + 1, k) \in Seq(Int) /\ Len(SubSeq(content, 0 + 1, k)) = k - 0
            /\ \A i \in 1 .. k - 0 : SubSeq(content, 0 + 1, k)[i] = content[0 + i]
        BY <1>1, <4>1, PartOf
      <4>3. /\ SubSeq(content, 0 + 1, k + 1) \in Seq(Int) /\ Len(SubSeq(content, 0 + 1, k + 1)) = k + 1 - 0
            /\ \A i \in 1 .. k + 1 - 0 : SubSeq(content, 0 + 1, k + 1)[i] = content[0 + i]
        <5>1. k + 1 \in 0 .. Len(content) /\ 0 \in 0 .. Len(content) /\ 0 <= k + 1
          BY <1>1, <4>1
        <5> QED
          BY <5>1, PartOf
      <4>4. PICK x \in Seq(Int), y \in Seq(Int) :
              x = SubSeq(content, 0 + 1, k) /\ y = SubSeq(content, 0 + 1, k + 1)
        BY <4>2, <4>3
      <4>5. /\ Len(x) = k /\ Len(y) = k + 1 /\ (\A i \in 1 .. k : x[i] = content[i])
            /\ \A i \in 1 .. k + 1 : y[i] = content[i]
        BY <4>2, <4>3, <4>4
      <4>6. PICK z \in Int : z = content[k + 1]
        BY <1>1, <4>1
      <4>7. Append(x, z) = y
        <5>1. Append(x, z) \in Seq(Int) /\ Len(Append(x, z)) = k + 1
              /\ \A i \in 1 .. k + 1 : Append(x, z)[i] = IF i <= k THEN x[i] ELSE z
          BY <4>5, AppendProperties
        <5>2. \A i \in 1 .. k + 1 : Append(x, z)[i] = y[i]
          <6> TAKE i \in 1 .. k + 1
          <6>1. CASE i <= k
            <7>1. i \in 1 .. k
              BY <6>1
            <7> QED
              BY <4>5, <5>1, <6>1, <7>1
          <6>2. CASE i = k + 1
            BY <4>5, <4>6, <5>1, <6>2
          <6>3. i <= k \/ i = k + 1
            OBVIOUS
          <6> QED
            BY <6>1, <6>2, <6>3
        <5> QED
          BY <4>5, <5>1, <5>2, SeqEqual
      <4>8. l = x /\ SubSeq(content, 1, k + 1) = y
        BY <1>7, <4>4
      <4> QED
        BY <4>6, <4>7, <4>8
    <3>4. LineAt(r, SubSeq(content, 1, k + 1), "cr", s, content, e, k + 1)
      BY <1>1, <1>6, <1>7, <3>1 DEF LineAt
    <3> QED
      BY <3>2, <3>3, <3>4 DEF next
  <2> QED
    BY <1>1, <2>1, <2>2, <2>3
<1>8. CASE st = "lf" /\ k = e /\ e <= n /\ l = SubSeq(content, 1, e - 1) /\ Reached(u, s, 0, n, k)
  <2>1. CASE k = n
    <3>1. next = Acc(r, l, "end")
      BY <1>5, <1>6, <1>8, <2>1
    <3>2. LineAt(r, l, "end", s, content, e, k + 1)
      BY <1>1, <1>8, <2>1 DEF LineAt
    <3> QED
      BY <3>1, <3>2 DEF next
  <2>2. CASE k < n /\ content[k + 1] = lf
    <3>1. next = Acc(r, l, "done")
      BY <1>5, <1>6, <1>8, <2>2
    <3>2. r.pos = e + 1
      <4>1. r.pos = 0 + Within(k + 1, n)
        BY <1>6, <1>8 DEF Reached
      <4> QED
        BY <1>1, <1>8, <2>2, <4>1 DEF Within
    <3>3. LineAt(r, l, "done", s, content, e, k + 1)
      BY <1>1, <1>8, <2>2, <3>2 DEF LineAt
    <3> QED
      BY <3>1, <3>3 DEF next
  <2>3. CASE k < n /\ content[k + 1] # lf
    <3>1. next = Acc(r, l, "bad")
      BY <1>5, <1>6, <1>8, <2>3
    <3>2. LineAt(r, l, "bad", s, content, e, k + 1)
      BY <1>1, <1>8, <2>3 DEF LineAt
    <3> QED
      BY <3>1, <3>2 DEF next
  <2> QED
    BY <1>1, <2>1, <2>2, <2>3
<1>9. CASE st \in {"done", "end", "bad"}
  <2>1. next = Acc(u, l, st)
    BY <1>5, <1>9
  <2>2. LineAt(u, l, st, s, content, e, k + 1)
    BY <1>9 DEF LineAt
  <2> QED
    BY <2>1, <2>2 DEF next
<1> QED
  BY <1>1, <1>7, <1>8, <1>9 DEF LineAt

\* read_line finds the first line.
LEMMA LineIsRead ==
    ASSUME NEW content \in Seq(Int), NEW s, Opening(s, 0, Len(content)), Reached(s, s, 0, Len(content), 0)
    PROVE  LET r == read_line(s, content)
               first == FirstLine(content)
           IN  /\ r.state = "bad" <=> first.bad
               /\ r.state # "bad" => r.line = first.line
               /\ r.state = "done" => r.stream.pos = first.next
<1>1. PICK n \in Nat : n = Len(content)
  OBVIOUS
<1>2. PICK e : /\ Ends(content, e)
               /\ FirstLine(content).line = SubSeq(content, 1, e - 1)
               /\ FirstLine(content).bad <=> e < n /\ content[e + 1] # lf
               /\ FirstLine(content).next = IF e + 1 <= n THEN e + 1 ELSE n
  BY <1>1, FirstLineIs
<1>3. e \in 1 .. n + 1
  BY <1>1, <1>2 DEF Ends
<1>4. PICK f : /\ f[1 .. 0] = Acc(s, <<>>, "cr")
               /\ \A k \in 1 .. n + 1 : f[1 .. k] = line_step(content, f[1 .. k - 1])
               /\ read_line(s, content) = f[1 .. n + 1]
  <2>1. \E f : /\ f[1 .. 0] = Acc(s, <<>>, "cr")
               /\ \A k \in 1 .. Len(content) + 1 : f[1 .. k] = line_step(content, f[1 .. k - 1])
               /\ read_line(s, content) = f[1 .. Len(content) + 1]
    BY LineRuns, Zenon DEF Acc
  <2> QED
    BY <1>1, <2>1, Zenon
<1> DEFINE Turned(acc, k) == \E u, l, st : acc = Acc(u, l, st) /\ LineAt(u, l, st, s, content, e, k)
           S == {k \in Nat : Turned(f[1 .. k], k)}
<1>5. 0 \in S
  <2>1. SubSeq(content, 1, 0) = <<>>
    <3>1. 0 \in 0 .. Len(content) /\ 0 + 1 = 1 /\ 0 - 0 = 0
      BY <1>1
    <3>2. SubSeq(content, 0 + 1, 0) \in Seq(Int) /\ Len(SubSeq(content, 0 + 1, 0)) = 0 - 0
      BY <3>1, PartOf
    <3> QED
      BY <3>1, <3>2, EmptySeq
  <2>2. LineAt(s, <<>>, "cr", s, content, e, 0)
    <3>1. 0 < e
      BY <1>3
    <3> QED
      BY <1>1, <2>1, <3>1 DEF LineAt
  <2>3. Turned(f[1 .. 0], 0)
    BY <1>4, <2>2, Zenon
  <2> HIDE DEF Turned
  <2> QED
    BY <2>3
<1>6. ASSUME NEW k \in 1 .. n + 1, k - 1 \in S PROVE k \in S
  <2>1. PICK acc : acc = f[1 .. k - 1]
    OBVIOUS
  <2>2. PICK u, l, st : acc = Acc(u, l, st) /\ LineAt(u, l, st, s, content, e, k - 1)
    BY <1>6, <2>1
  <2>3. PICK j \in 0 .. Len(content) : j = k - 1 /\ j + 1 = k
    BY <1>1
  <2>4. PICK v, w, q : line_step(content, Acc(u, l, st)) = Acc(v, w, q) /\ LineAt(v, w, q, s, content, e, j + 1)
    BY <1>2, <2>2, <2>3, LineTurn
  <2>5. f[1 .. k] = Acc(v, w, q)
    BY <1>4, <2>1, <2>2, <2>4, Zenon
  <2>6. Turned(f[1 .. k], k)
    BY <2>3, <2>4, <2>5, Zenon
  <2> HIDE DEF Turned
  <2> QED
    BY <2>6
<1>7. S \in SUBSET Nat
  OBVIOUS
<1> HIDE DEF S
<1>8. n + 1 \in S
  <2>1. \A k \in 0 .. n + 1 : k \in S
    <3>1. n + 1 \in Nat
      OBVIOUS
    <3> QED
      BY <1>5, <1>6, <1>7, <3>1, EveryPlace
  <2> QED
    BY <2>1
<1>9. PICK u, l, st : read_line(s, content) = Acc(u, l, st) /\ LineAt(u, l, st, s, content, e, n + 1)
  BY <1>4, <1>8 DEF S
<1>10. read_line(s, content).stream = u /\ read_line(s, content).line = l /\ read_line(s, content).state = st
  BY <1>9, AccIs
<1>11. \/ st = "done" /\ e < n /\ content[e + 1] = lf /\ l = SubSeq(content, 1, e - 1) /\ u.pos = e + 1
       \/ st = "end" /\ e >= n /\ l = SubSeq(content, 1, e - 1)
       \/ st = "bad" /\ e < n /\ content[e + 1] # lf
  BY <1>1, <1>3, <1>9 DEF LineAt
<1>12. st = "bad" <=> FirstLine(content).bad
  BY <1>2, <1>3, <1>11
<1>13. st # "bad" => l = FirstLine(content).line
  BY <1>2, <1>11
<1>14. st = "done" => u.pos = FirstLine(content).next
  BY <1>2, <1>3, <1>11
<1> QED
  BY <1>10, <1>12, <1>13, <1>14

\* A stream of content that is at its start and has all of it in its window.
LEMMA OpenedWhole ==
    ASSUME NEW len \in Nat, NEW s \in Opened(len, 0), s.buf # "pipe", s.size \in {Unknown, len}
    PROVE  /\ Opening(s, 0, len) /\ Reached(s, s, 0, len, 0)
           /\ s.size = Unknown => len = 0
<1>1. 0 \in 0 .. len
  OBVIOUS
<1>2. PICK n \in Nat : Opening(s, 0, n) /\ Reached(s, s, 0, n, 0) /\ s.len = len
  BY <1>1, OpenedIs
<1>3. n = len /\ (s.size = Unknown => len = 0)
  <2>1. CASE s.class = "std" /\ s.buf = "file" /\ s.size \in Nat
    BY <1>2, <2>1 DEF Opening, Unknown
  <2>2. CASE s.class = "std" /\ s.size = -1
    BY <1>2, <2>2 DEF Opening
  <2>3. CASE s.class # "std"
    <3>1. s.size = len
      <4>1. s \in {StringInputStream(len), FileInputStream(len)}
        <5>1. \/ s = StdInputStream(Raw("std", "file", len, 0), Unknown)
              \/ \E size \in 0 .. len + 1 : s = StdInputStream(Raw("std", "file", len, 0), size)
              \/ s = StdInputStream(Raw("std", "pipe", len, 0), Unknown)
              \/ s \in {StringInputStream(len), FileInputStream(len)}
          BY Zenon DEF Opened
        <5>2. s # StdInputStream(Raw("std", "file", len, 0), Unknown)
          BY <1>1, <2>3, OpenedUnsized
        <5>3. s # StdInputStream(Raw("std", "pipe", len, 0), Unknown)
          BY <2>3, OpenedPipe
        <5>4. ASSUME NEW size \in 0 .. len + 1 PROVE s # StdInputStream(Raw("std", "file", len, 0), size)
          <6>1. size \in Nat /\ 0 \in Nat
            OBVIOUS
          <6> QED
            BY <2>3, <6>1, OpenedSized
        <5> QED
          BY <5>1, <5>2, <5>3, <5>4
      <4> QED
        BY <4>1, RawIs DEF StringInputStream, FileInputStream
    <3> QED
      BY <1>2, <2>3, <3>1 DEF Opening, Unknown
  <2> QED
    BY <1>2, <2>1, <2>2, <2>3 DEF Opening
<1> QED
  BY <1>2, <1>3

\* read_stream_as_string returns the content if it fits.
LEMMA StringIsRead ==
    ASSUME NEW len \in Nat, NEW s, Opening(s, 0, len), Reached(s, s, 0, len, 0),
           s.size \in {Unknown, len}, s.size = Unknown => len = 0, NEW n \in Nat
    PROVE  read_stream_as_string(s, n) = IF len \in 1 .. n THEN {BytesFrom(0, len)} ELSE {}
<1>1. CASE s.size = Unknown
  BY <1>1 DEF read_stream_as_string
<1>2. CASE s.size = len /\ s.size # Unknown /\ len \notin 1 .. n
  <2>1. s.size < 1 \/ s.size > n
    BY <1>2
  <2> QED
    BY <1>2, <2>1 DEF read_stream_as_string
<1>3. CASE s.size = len /\ s.size # Unknown /\ len \in 1 .. n
  <2>1. len \in Nat \ {0} /\ ~(s.size < 1) /\ ~(s.size > n)
    BY <1>3
  <2>2. read_stream_as_string(s, n) = {read(s, len).got}
    BY <1>3, <2>1 DEF read_stream_as_string
  <2>3. read(s, len).got = BytesFrom(0 + Within(0, len), More(0, len, len))
    <3>1. 0 \in Nat
      OBVIOUS
    <3> QED
      BY <2>1, <3>1, ReadStep
  <2>4. 0 + Within(0, len) = 0 /\ More(0, len, len) = len
    BY DEF Within, More
  <2> QED
    BY <1>3, <2>2, <2>3, <2>4
<1> QED
  BY <1>1, <1>2, <1>3

-----------------------------------------------------------------------------
(* Pieces of a text.                                                       *)

\* The places a to b of a text.
LEMMA PieceIs ==
    ASSUME NEW s \in Seq(Int), NEW a \in Nat, NEW b \in Nat, 1 <= a, a <= b + 1, b <= Len(s)
    PROVE  /\ SubSeq(s, a, b) \in Seq(Int) /\ Len(SubSeq(s, a, b)) = b - a + 1
           /\ \A k \in 1 .. b - a + 1 : SubSeq(s, a, b)[k] = s[a + k - 1]
<1>1. Len(s) \in Nat
  OBVIOUS
<1>2. PICK i \in 0 .. Len(s) : i + 1 = a /\ i <= b /\ b - i = b - a + 1
  <2>1. a - 1 \in 0 .. Len(s) /\ (a - 1) + 1 = a /\ a - 1 <= b /\ b - (a - 1) = b - a + 1
    BY <1>1
  <2> QED
    BY <2>1
<1>3. b \in 0 .. Len(s)
  BY <1>1
<1>4. /\ SubSeq(s, i + 1, b) \in Seq(Int) /\ Len(SubSeq(s, i + 1, b)) = b - i
      /\ \A k \in 1 .. b - i : SubSeq(s, i + 1, b)[k] = s[i + k]
  BY <1>2, <1>3, PartOf
<1>5. ASSUME NEW k \in 1 .. b - a + 1 PROVE SubSeq(s, a, b)[k] = s[a + k - 1]
  <2>1. k \in 1 .. b - i /\ i + k = a + k - 1
    BY <1>2
  <2>2. SubSeq(s, i + 1, b)[k] = s[i + k]
    BY <1>4, <2>1
  <2> QED
    BY <1>2, <2>1, <2>2
<1> QED
  BY <1>2, <1>4, <1>5

\* A piece of a piece.
LEMMA PieceOfPiece ==
    ASSUME NEW s \in Seq(Int), NEW a \in Nat, NEW b \in Nat, 1 <= a, a <= b + 1, b <= Len(s),
           NEW c \in Nat, NEW d \in Nat, 1 <= c, c <= d + 1, d <= b - a + 1
    PROVE  SubSeq(SubSeq(s, a, b), c, d) = SubSeq(s, a + c - 1, a + d - 1)
<1>1. PICK t \in Seq(Int) : t = SubSeq(s, a, b)
  BY PieceIs
<1>2. Len(t) = b - a + 1 /\ \A k \in 1 .. b - a + 1 : t[k] = s[a + k - 1]
  BY <1>1, PieceIs
<1>3. PICK x \in Nat, y \in Nat : x = a + c - 1 /\ y = a + d - 1
  <2>1. a + c - 1 \in Nat /\ a + d - 1 \in Nat
    OBVIOUS
  <2> QED
    BY <2>1
<1>4. 1 <= x /\ x <= y + 1 /\ y <= Len(s) /\ d <= Len(t) /\ y - x + 1 = d - c + 1
  BY <1>2, <1>3
<1>5. PICK u \in Seq(Int) : u = SubSeq(t, c, d)
  BY <1>4, PieceIs
<1>6. Len(u) = d - c + 1 /\ \A k \in 1 .. d - c + 1 : u[k] = t[c + k - 1]
  <2>1. d <= Len(t)
    BY <1>4
  <2>2. /\ SubSeq(t, c, d) \in Seq(Int) /\ Len(SubSeq(t, c, d)) = d - c + 1
        /\ \A k \in 1 .. d - c + 1 : SubSeq(t, c, d)[k] = t[c + k - 1]
    BY <2>1, PieceIs
  <2> QED
    BY <1>5, <2>2
<1>7. PICK v \in Seq(Int) : v = SubSeq(s, x, y)
  BY <1>4, PieceIs
<1>8. Len(v) = y - x + 1 /\ \A k \in 1 .. y - x + 1 : v[k] = s[x + k - 1]
  BY <1>4, <1>7, PieceIs
<1>9. ASSUME NEW k \in 1 .. Len(u) PROVE u[k] = v[k]
  <2>1. PICK j \in 1 .. b - a + 1 : j = c + k - 1 /\ a + j - 1 = x + k - 1
    BY <1>3, <1>6
  <2>2. k \in 1 .. d - c + 1 /\ k \in 1 .. y - x + 1
    BY <1>4, <1>6
  <2>3. u[k] = t[j] /\ t[j] = s[a + j - 1] /\ v[k] = s[x + k - 1]
    BY <1>2, <1>6, <1>8, <2>1, <2>2
  <2> QED
    BY <2>1, <2>3
<1>10. u = v
  BY <1>4, <1>6, <1>8, <1>9, SeqEqual
<1> QED
  BY <1>1, <1>3, <1>5, <1>7, <1>10

\* Two pieces that follow each other.
LEMMA PieceJoin ==
    ASSUME NEW s \in Seq(Int), NEW a \in Nat, NEW b \in Nat, NEW c \in Nat,
           1 <= a, a <= b + 1, b <= c, c <= Len(s)
    PROVE  SubSeq(s, a, b) \o SubSeq(s, b + 1, c) = SubSeq(s, a, c)
<1>1. Len(s) \in Nat
  OBVIOUS
<1>2. a \in 1 .. Len(s) + 1 /\ b \in a - 1 .. Len(s) /\ c \in b .. Len(s)
  BY <1>1
<1> QED
  BY <1>2, ConcatAdjacentSubSeq

\* No places.
LEMMA PieceNone ==
    ASSUME NEW s \in Seq(Int), NEW a \in Nat, NEW b \in Nat, b < a
    PROVE  SubSeq(s, a, b) = <<>>
BY SubSeqEmpty

\* The values a text has.
LEMMA ToSetIs ==
    ASSUME NEW s \in Seq(Int)
    PROVE  ToSet(s) = {s[i] : i \in 1 .. Len(s)}
<1>1. DOMAIN s = 1 .. Len(s)
  OBVIOUS
<1> QED
  BY <1>1 DEF ToSet

\* The greatest element of a set of places.
LEMMA MaxNumber ==
    ASSUME NEW n \in Nat, NEW S \in SUBSET (1 .. n), S # {}
    PROVE  Max(S) \in S /\ \A y \in S : y <= Max(S)
<1> DEFINE T == {k \in Nat : \A y \in S : y <= k}
<1>1. T # {} /\ T \in SUBSET Nat
  <2>1. n \in T
    OBVIOUS
  <2> QED
    BY <2>1
<1>2. PICK x \in T : \A y \in T : x <= y
  BY <1>1, LeastNumber
<1>3. x \in Nat /\ \A y \in S : y <= x
  BY <1>2
<1>4. x \in S
  <2> SUFFICES ASSUME x \notin S PROVE FALSE
    OBVIOUS
  <2>1. PICK z \in S : TRUE
    OBVIOUS
  <2>2. x >= 1
    BY <1>3, <2>1
  <2>3. \A y \in S : y <= x - 1
    BY <1>3
  <2>4. x - 1 \in T
    BY <1>3, <2>2, <2>3
  <2> QED
    BY <1>2, <1>3, <2>4
<1>5. S \subseteq Int
  OBVIOUS
<1>6. Max(S) = x
  BY <1>3, <1>4, <1>5, MaxIs
<1> QED
  BY <1>3, <1>4, <1>6


-----------------------------------------------------------------------------
(* Trimming.                                                               *)

\* A text without anything to keep is blank.
LEMMA NothingKept ==
    ASSUME NEW s \in Seq(Int)
    PROVE  Kept(s, {blank}) = {} <=> ToSet(s) \subseteq {blank}
<1>1. ToSet(s) = {s[i] : i \in 1 .. Len(s)}
  BY ToSetIs
<1> QED
  BY <1>1 DEF Kept

\* What trimming a text leaves when it is not blank.
LEMMA TrimIs ==
    ASSUME NEW s \in Seq(Int), Kept(s, {blank}) # {}
    PROVE  \E a \in 1 .. Len(s), b \in 1 .. Len(s) :
               /\ a <= b /\ s[a] # blank /\ s[b] # blank
               /\ \A i \in 1 .. Len(s) : i < a \/ b < i => s[i] = blank
               /\ string_trim(s, {blank}) = SubSeq(s, a, b)
               /\ string_trim_left(string_trim_right_in_place(s, {blank}), {blank}) = SubSeq(s, a, b)
<1>1. PICK n \in Nat : n = Len(s)
  OBVIOUS
<1>2. PICK K \in SUBSET (1 .. n) : K = Kept(s, {blank}) /\ K # {}
  BY <1>1 DEF Kept
<1>3. \A i \in 1 .. n : i \in K <=> s[i] # blank
  BY <1>1, <1>2 DEF Kept
<1>4. PICK a \in 1 .. n : a = Min(K) /\ a \in K /\ \A y \in K : a <= y
  <2>1. K \in SUBSET Nat
    OBVIOUS
  <2> QED
    BY <1>2, <2>1, MinNumber
<1>5. PICK b \in 1 .. n : b = Max(K) /\ b \in K /\ \A y \in K : y <= b
  BY <1>2, MaxNumber
<1>6. PICK t \in Seq(Int) : t = SubSeq(s, 1, b) /\ Len(t) = b /\ \A k \in 1 .. b : t[k] = s[k]
  <2>1. b \in Nat /\ 1 <= b + 1 /\ b <= Len(s)
    BY <1>1
  <2>2. /\ SubSeq(s, 1, b) \in Seq(Int) /\ Len(SubSeq(s, 1, b)) = b - 1 + 1
        /\ \A k \in 1 .. b - 1 + 1 : SubSeq(s, 1, b)[k] = s[1 + k - 1]
    BY <2>1, PieceIs
  <2>3. Len(SubSeq(s, 1, b)) = b /\ \A k \in 1 .. b : SubSeq(s, 1, b)[k] = s[k]
    BY <2>1, <2>2
  <2> QED
    BY <2>2, <2>3
<1>7. Kept(t, {blank}) = K
  <2>1. ASSUME NEW i PROVE i \in Kept(t, {blank}) <=> i \in 1 .. b /\ t[i] # blank
    BY <1>6 DEF Kept
  <2>2. ASSUME NEW i \in K PROVE i \in 1 .. b /\ t[i] # blank
    <3>1. i \in 1 .. n
      OBVIOUS
    <3>2. i \in 1 .. b /\ s[i] # blank
      BY <1>3, <1>5, <3>1
    <3> QED
      BY <1>6, <3>2
  <2>3. ASSUME NEW i \in 1 .. b, t[i] # blank PROVE i \in K
    BY <1>3, <1>5, <1>6, <2>3
  <2> QED
    BY <2>1, <2>2, <2>3
<1>8. string_trim_left(t, {blank}) = SubSeq(t, a, b)
  BY <1>2, <1>4, <1>6, <1>7 DEF string_trim_left
<1>9. SubSeq(t, a, b) = SubSeq(s, a, b)
  <2>1. a <= b /\ a \in Nat /\ b \in Nat /\ 1 <= a /\ b <= Len(s) /\ b <= b - 1 + 1 /\ 1 <= b + 1
    BY <1>1, <1>4, <1>5
  <2>2. SubSeq(SubSeq(s, 1, b), a, b) = SubSeq(s, 1 + a - 1, 1 + b - 1)
    BY <2>1, PieceOfPiece
  <2>3. 1 + a - 1 = a /\ 1 + b - 1 = b
    BY <2>1
  <2> QED
    BY <1>6, <2>2, <2>3
<1>10. string_trim(s, {blank}) = SubSeq(s, a, b)
  <2>1. string_trim_right(s, {blank}) = t
    BY <1>2, <1>5, <1>6 DEF string_trim_right
  <2> QED
    BY <1>8, <1>9, <2>1 DEF string_trim
<1>11. string_trim_left(string_trim_right_in_place(s, {blank}), {blank}) = SubSeq(s, a, b)
  <2>1. string_trim_right_in_place(s, {blank}) = t
    BY <1>2, <1>5, <1>6 DEF string_trim_right_in_place
  <2> QED
    BY <1>8, <1>9, <2>1
<1>12. ASSUME NEW i \in 1 .. n, i < a \/ b < i PROVE s[i] = blank
  BY <1>3, <1>4, <1>5, <1>12
<1>13. a <= b /\ s[a] # blank /\ s[b] # blank
  BY <1>3, <1>4, <1>5
<1> QED
  BY <1>1, <1>10, <1>11, <1>12, <1>13

\* A blank text stays, or is taken away by the overload.
LEMMA TrimBlank ==
    ASSUME NEW s \in Seq(Int), Kept(s, {blank}) = {}
    PROVE  /\ string_trim(s, {blank}) = s
           /\ string_trim_left(string_trim_right_in_place(s, {blank}), {blank}) = <<>>
<1>1. string_trim_right(s, {blank}) = s /\ string_trim_left(s, {blank}) = s
  BY DEF string_trim_right, string_trim_left
<1>2. Kept(<<>>, {blank}) = {}
  <2>1. Len(<<>>) = 0
    OBVIOUS
  <2> QED
    BY <2>1 DEF Kept
<1>3. string_trim_right_in_place(s, {blank}) = <<>>
  BY DEF string_trim_right_in_place
<1> QED
  BY <1>1, <1>2, <1>3 DEF string_trim, string_trim_left

\* The conjuncts of EditsReversible on trimming, and on tokens.
TrimsEnds(s) ==
    LET r == string_trim(s, {blank})
    IN  /\ \E i, j \in 0 .. Len(s) :
            /\ i <= j /\ r = SubSeq(s, i + 1, j)
            /\ ToSet(SubSeq(s, 0 + 1, i)) \cup ToSet(SubSeq(s, j + 1, Len(s))) \subseteq {blank}
        /\ IF ToSet(s) \subseteq {blank} THEN r = s
           ELSE Head(r) # blank /\ Last(r) # blank
        /\ string_trim_left(string_trim_right_in_place(s, {blank}), {blank})
            = IF ToSet(s) \subseteq {blank} THEN <<>> ELSE r
        /\ resolve_file(s) = r

\* Trimming takes blanks from the ends and nothing else.
LEMMA Trims ==
    ASSUME NEW s \in Seq(Int)
    PROVE  TrimsEnds(s)
<1>1. PICK n \in Nat : n = Len(s)
  OBVIOUS
<1>2. PICK r : r = string_trim(s, {blank})
  OBVIOUS
<1>3. ASSUME NEW i \in 0 .. n, NEW j \in 0 .. n,
             \A k \in 1 .. n : k <= i \/ j < k => s[k] = blank
      PROVE  ToSet(SubSeq(s, 0 + 1, i)) \cup ToSet(SubSeq(s, j + 1, n)) \subseteq {blank}
  <2>1. 0 \in 0 .. Len(s) /\ i \in 0 .. Len(s) /\ 0 <= i /\ j \in 0 .. Len(s) /\ n \in 0 .. Len(s) /\ j <= n
    BY <1>1
  <2>2. PICK u \in Seq(Int) : /\ u = SubSeq(s, 0 + 1, i) /\ Len(u) = i - 0
                              /\ \A k \in 1 .. i - 0 : u[k] = s[0 + k]
    <3>1. /\ SubSeq(s, 0 + 1, i) \in Seq(Int) /\ Len(SubSeq(s, 0 + 1, i)) = i - 0
          /\ \A k \in 1 .. i - 0 : SubSeq(s, 0 + 1, i)[k] = s[0 + k]
      BY <2>1, PartOf, Zenon
    <3> QED
      BY <3>1, Zenon
  <2>3. PICK v \in Seq(Int) : /\ v = SubSeq(s, j + 1, n) /\ Len(v) = n - j
                              /\ \A k \in 1 .. n - j : v[k] = s[j + k]
    <3>1. /\ SubSeq(s, j + 1, n) \in Seq(Int) /\ Len(SubSeq(s, j + 1, n)) = n - j
          /\ \A k \in 1 .. n - j : SubSeq(s, j + 1, n)[k] = s[j + k]
      BY <2>1, PartOf, Zenon
    <3> QED
      BY <3>1, Zenon
  <2>4. ASSUME NEW k \in 1 .. Len(u) PROVE u[k] = blank
    <3>1. k \in 1 .. i - 0 /\ k \in 1 .. n /\ k <= i /\ 0 + k = k
      BY <2>2
    <3> QED
      BY <1>3, <2>2, <3>1
  <2>5. ASSUME NEW k \in 1 .. Len(v) PROVE v[k] = blank
    <3>1. k \in 1 .. n - j /\ j + k \in 1 .. n /\ j < j + k
      BY <2>3
    <3> QED
      BY <1>3, <2>3, <3>1
  <2>6. ToSet(u) = {u[k] : k \in 1 .. Len(u)} /\ ToSet(v) = {v[k] : k \in 1 .. Len(v)}
    BY ToSetIs
  <2>7. ToSet(u) \cup ToSet(v) \subseteq {blank}
    BY <2>4, <2>5, <2>6
  <2> QED
    BY <2>2, <2>3, <2>7
<1>4. CASE Kept(s, {blank}) = {}
  <2>1. ToSet(s) \subseteq {blank}
    BY <1>4, NothingKept
  <2>2. r = s /\ string_trim_left(string_trim_right_in_place(s, {blank}), {blank}) = <<>>
    BY <1>2, <1>4, TrimBlank
  <2>3. SubSeq(s, 0 + 1, n) = s
    BY <1>1, SubSeqFull
  <2>4. ToSet(SubSeq(s, 0 + 1, 0)) \cup ToSet(SubSeq(s, n + 1, n)) \subseteq {blank}
    <3>1. ASSUME NEW k \in 1 .. n, k <= 0 \/ n < k PROVE s[k] = blank
      BY <3>1
    <3>2. 0 \in 0 .. n /\ n \in 0 .. n
      BY <1>1
    <3> QED
      BY <1>3, <3>1, <3>2
  <2>5. \E i, j \in 0 .. Len(s) :
            /\ i <= j /\ r = SubSeq(s, i + 1, j)
            /\ ToSet(SubSeq(s, 0 + 1, i)) \cup ToSet(SubSeq(s, j + 1, Len(s))) \subseteq {blank}
    BY <1>1, <2>2, <2>3, <2>4
  <2>6. resolve_file(s) = r
    BY <1>2, <2>2 DEF resolve_file
  <2> QED
    BY <1>2, <2>1, <2>2, <2>5, <2>6 DEF TrimsEnds
<1>5. CASE Kept(s, {blank}) # {}
  <2>1. ~(ToSet(s) \subseteq {blank})
    BY <1>5, NothingKept
  <2>2. PICK a \in 1 .. n, b \in 1 .. n :
               /\ a <= b /\ s[a] # blank /\ s[b] # blank
               /\ \A i \in 1 .. n : i < a \/ b < i => s[i] = blank
               /\ r = SubSeq(s, a, b)
               /\ string_trim_left(string_trim_right_in_place(s, {blank}), {blank}) = r
    BY <1>1, <1>2, <1>5, TrimIs
  <2>3. PICK i \in 0 .. n : i = a - 1 /\ i + 1 = a /\ i <= b
    <3>1. a - 1 \in 0 .. n /\ (a - 1) + 1 = a /\ a - 1 <= b
      BY <2>2
    <3> QED
      BY <3>1
  <2>4. b \in 0 .. n
    OBVIOUS
  <2>5. ToSet(SubSeq(s, 0 + 1, i)) \cup ToSet(SubSeq(s, b + 1, n)) \subseteq {blank}
    <3>1. ASSUME NEW k \in 1 .. n, k <= i \/ b < k PROVE s[k] = blank
      BY <2>2, <2>3, <3>1
    <3> QED
      BY <1>3, <2>4, <3>1
  <2>6. \E x, y \in 0 .. Len(s) :
            /\ x <= y /\ r = SubSeq(s, x + 1, y)
            /\ ToSet(SubSeq(s, 0 + 1, x)) \cup ToSet(SubSeq(s, y + 1, Len(s))) \subseteq {blank}
    BY <1>1, <2>2, <2>3, <2>4, <2>5
  <2>7. PICK d \in Nat : d = b - a + 1 /\ d >= 1
    <3>1. b - a + 1 \in Nat /\ b - a + 1 >= 1
      BY <2>2
    <3> QED
      BY <3>1
  <2>8. r \in Seq(Int) /\ Len(r) = d /\ \A k \in 1 .. d : r[k] = s[a + k - 1]
    <3>1. a \in Nat /\ b \in Nat /\ 1 <= a /\ a <= b + 1 /\ b <= Len(s)
      BY <1>1, <2>2
    <3> QED
      BY <2>2, <2>7, <3>1, PieceIs
  <2>9. Head(r) # blank /\ Last(r) # blank
    <3>1. 1 \in 1 .. d /\ d \in 1 .. d /\ a + 1 - 1 = a /\ a + d - 1 = b
      BY <2>7
    <3>2. r[1] = s[a] /\ r[d] = s[b]
      BY <2>8, <3>1
    <3>3. Head(r) = r[1] /\ Last(r) = r[d]
      BY <2>8 DEF Last
    <3> QED
      BY <2>2, <3>2, <3>3
  <2>10. resolve_file(s) = r
    <3>1. CASE n > d
      BY <1>1, <1>2, <2>8, <3>1 DEF resolve_file
    <3>2. CASE ~(n > d)
      <4>1. a = 1 /\ b = n
        BY <2>7, <3>2
      <4>2. r = s
        BY <1>1, <2>2, <4>1, SubSeqFull
      <4> QED
        BY <1>1, <1>2, <2>8, <3>2, <4>2 DEF resolve_file
    <3> QED
      BY <3>1, <3>2
  <2> QED
    BY <1>2, <2>1, <2>2, <2>6, <2>9, <2>10 DEF TrimsEnds
<1> QED
  BY <1>4, <1>5

-----------------------------------------------------------------------------
(* Paths of URLs.                                                          *)

\* A text that ends in c.
LEMMA FrontAndLast ==
    ASSUME NEW f \in Seq(Int), NEW c \in Int, EndsIn(f, c)
    PROVE  Front(f) \in Seq(Int) /\ Front(f) \o <<c>> = f
<1>1. PICK n \in Nat : n = Len(f) /\ n >= 1 /\ f[n] = c
  <2>1. f # <<>> /\ f[Len(f)] = c
    BY DEF EndsIn, Last
  <2>2. Len(f) \in Nat \ {0}
    BY <2>1, EmptySeq
  <2> QED
    BY <2>1, <2>2
<1>2. SubSeq(f, 1, n) = SubSeq(f, 1, n - 1) \o <<f[n]>>
  <2>1. 1 \in 1 .. Len(f) /\ n \in 1 .. Len(f)
    BY <1>1
  <2> QED
    BY <2>1, SubSeqRecursiveSecond
<1>3. SubSeq(f, 1, n) = f
  BY <1>1, SubSeqFull
<1>4. SubSeq(f, 1, n - 1) \in Seq(Int)
  <2>1. PICK k \in Nat : k = n - 1 /\ 1 <= k + 1 /\ k <= Len(f)
    BY <1>1
  <2> QED
    BY <2>1, PieceIs
<1> QED
  BY <1>1, <1>2, <1>3, <1>4 DEF Front

\* A text that begins with c.
LEMMA HeadAndTail ==
    ASSUME NEW s \in Seq(Int), NEW c \in Int, BeginsWith(s, c)
    PROVE  Tail(s) \in Seq(Int) /\ <<c>> \o Tail(s) = s
<1>1. s # <<>> /\ Head(s) = c
  BY DEF BeginsWith
<1>2. PICK n \in Nat : n = Len(s) /\ n >= 1
  <2>1. Len(s) \in Nat \ {0}
    BY <1>1, EmptySeq
  <2> QED
    BY <2>1
<1>3. SubSeq(s, 1, n) = <<s[1]>> \o SubSeq(s, 1 + 1, n)
  <2>1. 1 \in 1 .. Len(s) /\ n \in 1 .. Len(s)
    BY <1>2
  <2> QED
    BY <2>1, SubSeqRecursiveFirst
<1>4. SubSeq(s, 1, n) = s
  BY <1>2, SubSeqFull
<1>5. Tail(s) = SubSeq(s, 2, n) /\ Tail(s) \in Seq(Int)
  BY <1>1, <1>2, TailIsSubSeq, HeadTailProperties
<1>6. s[1] = c
  BY <1>1
<1> QED
  BY <1>3, <1>4, <1>5, <1>6

\* Two parts of a URL are joined by one slash.
LEMMA PathJoins ==
    ASSUME NEW f \in Seq(Int), NEW s \in Seq(Int)
    PROVE  http_path_join(f, s) = (IF EndsIn(f, slash) THEN Front(f) ELSE f) \o <<slash>>
                                  \o (IF BeginsWith(s, slash) THEN Tail(s) ELSE s)
<1>1. slash \in Int /\ <<slash>> \in Seq(Int)
  BY DEF slash
<1>2. CASE EndsIn(f, slash)
  <2>1. Front(f) \o <<slash>> = f
    BY <1>1, <1>2, FrontAndLast
  <2> QED
    BY <1>2, <2>1 DEF http_path_join
<1>3. CASE ~EndsIn(f, slash)
  <2>1. CASE BeginsWith(s, slash)
    <3>1. Tail(s) \in Seq(Int) /\ <<slash>> \o Tail(s) = s
      BY <1>1, <2>1, HeadAndTail
    <3>2. (f \o <<slash>>) \o Tail(s) = f \o s
      BY <1>1, <3>1, ConcatAssociative
    <3>3. http_path_join(f, s) = f \o s
      BY <1>3, <2>1 DEF http_path_join
    <3> QED
      BY <1>3, <2>1, <3>2, <3>3
  <2>2. CASE ~BeginsWith(s, slash)
    BY <1>3, <2>2 DEF http_path_join
  <2> QED
    BY <2>1, <2>2
<1> QED
  BY <1>2, <1>3

-----------------------------------------------------------------------------
(* Splitting.                                                              *)

\* The places of a separator are in order: the n-th is the one up to which
\* there are n.
LEMMA Ranks ==
    ASSUME NEW L \in Nat, NEW at \in SUBSET (1 .. L)
    PROVE  \E R \in [0 .. L -> Nat] :
               /\ \A k \in 0 .. L : R[k] = Cardinality({j \in at : j <= k})
               /\ R[0] = 0 /\ R[L] = Cardinality(at)
               /\ \A k \in 1 .. L : R[k] = IF k \in at THEN R[k - 1] + 1 ELSE R[k - 1]
               /\ \A i, k \in 0 .. L : i <= k => R[i] <= R[k]
               /\ \A i \in 0 .. L, k \in at : i < k => R[i] < R[k]
<1> DEFINE Upto(k) == {j \in at : j <= k}
           R == [k \in 0 .. L |-> Cardinality(Upto(k))]
<1>1. IsFiniteSet(at) /\ \A k \in 0 .. L : IsFiniteSet(Upto(k)) /\ Cardinality(Upto(k)) \in Nat
  <2>1. IsFiniteSet(1 .. L)
    BY FS_Interval
  <2>2. IsFiniteSet(at)
    BY <2>1, FS_Subset
  <2>3. ASSUME NEW k \in 0 .. L PROVE IsFiniteSet(Upto(k))
    <3>1. Upto(k) \subseteq at
      OBVIOUS
    <3> HIDE DEF Upto
    <3> QED
      BY <2>2, <3>1, FS_Subset
  <2> HIDE DEF Upto
  <2> QED
    BY <2>2, <2>3, FS_CardinalityType
<1>2. Upto(0) = {} /\ Upto(L) = at
  <2>1. \A j \in at : j \in 1 .. L /\ ~(j <= 0) /\ j <= L
    OBVIOUS
  <2> QED
    BY <2>1
<1>3. ASSUME NEW k \in 1 .. L
      PROVE  R[k] = IF k \in at THEN R[k - 1] + 1 ELSE R[k - 1]
  <2>1. PICK i \in 0 .. L : i = k - 1
    <3>1. k - 1 \in 0 .. L
      OBVIOUS
    <3> QED
      BY <3>1
  <2>2. Upto(k) = IF k \in at THEN Upto(i) \cup {k} ELSE Upto(i)
    <3>1. \A j \in at : j \in 1 .. L /\ (j <= k <=> j <= i \/ j = k)
      BY <2>1
    <3> QED
      BY <3>1
  <2>3. k \notin Upto(i)
    BY <2>1
  <2>4. R[k] = Cardinality(Upto(k)) /\ R[i] = Cardinality(Upto(i))
    OBVIOUS
  <2> HIDE DEF Upto, R
  <2>5. Cardinality(Upto(i) \cup {k}) = Cardinality(Upto(i)) + 1
    BY <1>1, <2>3, FS_AddElement
  <2> QED
    BY <2>1, <2>2, <2>4, <2>5
<1>4. R \in [0 .. L -> Nat] /\ R[0] = 0 /\ R[L] = Cardinality(at)
  <2> HIDE DEF Upto
  <2>1. Cardinality({}) = 0
    BY FS_EmptySet
  <2> QED
    BY <1>1, <1>2, <2>1
<1>5. \A k \in 0 .. L : R[k] = Cardinality({j \in at : j <= k})
  OBVIOUS
<1> HIDE DEF R, Upto
<1>6. ASSUME NEW i \in 0 .. L PROVE \A k \in 0 .. L : i <= k => R[i] <= R[k]
  <2> DEFINE S == {k \in 0 .. L : i <= k => R[i] <= R[k]}
  <2>1. 0 \in S
    BY <1>4
  <2>2. ASSUME NEW k \in 1 .. L, k - 1 \in S PROVE k \in S
    <3>1. PICK m \in 0 .. L : m = k - 1
      <4>1. k - 1 \in 0 .. L
        OBVIOUS
      <4> QED
        BY <4>1
    <3>2. R[m] <= R[k] /\ R[m] \in Nat /\ R[k] \in Nat /\ R[i] \in Nat
      <4>1. R[k] = IF k \in at THEN R[m] + 1 ELSE R[m]
        BY <1>3, <3>1
      <4>2. R[m] \in Nat /\ R[k] \in Nat /\ R[i] \in Nat
        BY <1>4
      <4> QED
        BY <4>1, <4>2
    <3>3. i <= m => R[i] <= R[m]
      BY <2>2, <3>1
    <3>4. i <= k => i <= m \/ i = k
      BY <3>1
    <3> QED
      BY <3>2, <3>3, <3>4
  <2>3. S \in SUBSET Nat
    OBVIOUS
  <2> HIDE DEF S
  <2>4. \A k \in 0 .. L : k \in S
    BY <2>1, <2>2, <2>3, EveryPlace
  <2> QED
    BY <2>4 DEF S
<1>7. ASSUME NEW i \in 0 .. L, NEW k \in at, i < k PROVE R[i] < R[k]
  <2>1. PICK m \in 0 .. L : m = k - 1 /\ i <= m
    <3>1. k - 1 \in 0 .. L /\ i <= k - 1
      BY <1>7
    <3> QED
      BY <3>1
  <2>2. R[k] = R[m] + 1 /\ R[i] <= R[m] /\ R[m] \in Nat /\ R[i] \in Nat
    <3>1. k \in 1 .. L
      OBVIOUS
    <3> QED
      BY <1>3, <1>4, <1>6, <2>1, <3>1
  <2> QED
    BY <2>2
<1> QED
  BY <1>3, <1>4, <1>5, <1>6, <1>7

\* Where the tokens of a text end.
CutAt(s, c, N, cut) ==
    /\ cut[1] = 0
    /\ \A n \in 1 .. N :
        /\ cut[n] < cut[n + 1] /\ s[cut[n + 1]] = c
        /\ \A k \in 1 .. Len(s) : cut[n] < k /\ k < cut[n + 1] => s[k] # c
    /\ \A k \in 1 .. Len(s) : cut[N + 1] < k => s[k] # c

\* The cuts are all the separators, in order.
LEMMA CutsAre ==
    ASSUME NEW s \in Seq(Int), NEW c \in Int
    PROVE  \E N \in Nat : /\ Cuts(s, c) \in [1 .. N + 1 -> 0 .. Len(s)]
                          /\ CutAt(s, c, N, Cuts(s, c))
<1>1. PICK L \in Nat : L = Len(s)
  OBVIOUS
<1>2. PICK at \in SUBSET (1 .. L) : at = {i \in 1 .. Len(s) : s[i] = c}
  BY <1>1
<1>3. PICK R \in [0 .. L -> Nat] :
               /\ \A k \in 0 .. L : R[k] = Cardinality({j \in at : j <= k})
               /\ R[0] = 0 /\ R[L] = Cardinality(at)
               /\ \A k \in 1 .. L : R[k] = IF k \in at THEN R[k - 1] + 1 ELSE R[k - 1]
               /\ \A i, k \in 0 .. L : i <= k => R[i] <= R[k]
               /\ \A i \in 0 .. L, k \in at : i < k => R[i] < R[k]
  BY Ranks
<1>4. PICK N \in Nat : N = Cardinality(at) /\ R[L] = N
  <2>1. R[L] \in Nat
    OBVIOUS
  <2> QED
    BY <1>3, <2>1
<1>5. PICK cut : cut = Cuts(s, c)
  OBVIOUS
<1>6. /\ cut = [n \in 1 .. N + 1 |-> IF n = 1 THEN 0
                                     ELSE CHOOSE i \in at : Cardinality({j \in at : j <= i}) = n - 1]
  BY <1>2, <1>4, <1>5 DEF Cuts
<1>7. ASSUME NEW n \in 1 .. N + 1
      PROVE  /\ cut[n] \in 0 .. L /\ R[cut[n]] = n - 1
             /\ IF n = 1 THEN cut[n] = 0 ELSE cut[n] \in at
  <2>1. CASE n = 1
    BY <1>3, <1>6, <2>1
  <2>2. CASE n # 1
    <3>1. PICK m \in 1 .. N : m = n - 1
      <4>1. n - 1 \in 1 .. N
        BY <2>2
      <4> QED
        BY <4>1
    <3> DEFINE T == {k \in 0 .. L : R[k] >= m}
    <3>2. L \in T /\ T \in SUBSET Nat
      BY <1>4
    <3>3. PICK k \in T : \A y \in T : k <= y
      <4> HIDE DEF T
      <4> QED
        BY <3>2, LeastNumber
    <3>4. k \in 0 .. L /\ R[k] >= m /\ \A y \in 0 .. L : R[y] >= m => k <= y
      BY <3>3
    <3> HIDE DEF T
    <3>5. k # 0
      BY <1>3, <3>4
    <3>6. PICK h \in 0 .. L : h = k - 1 /\ h < k
      <4>1. k - 1 \in 0 .. L /\ k - 1 < k
        BY <3>4, <3>5
      <4> QED
        BY <4>1
    <3>7. R[h] < m /\ R[h] \in Nat /\ R[k] \in Nat
      <4>1. R[h] \in Nat /\ R[k] \in Nat
        BY <3>4
      <4>2. ~(R[h] >= m)
        BY <3>4, <3>6
      <4> QED
        BY <4>1, <4>2
    <3>8. R[k] = IF k \in at THEN R[h] + 1 ELSE R[h]
      <4>1. k \in 1 .. L
        BY <3>4, <3>5
      <4> QED
        BY <1>3, <3>6, <4>1
    <3>9. k \in at /\ R[k] = m
      BY <3>4, <3>7, <3>8
    <3>10. k \in at /\ Cardinality({j \in at : j <= k}) = n - 1
      BY <1>3, <3>1, <3>4, <3>9
    <3>11. PICK place : place = (CHOOSE i \in at : Cardinality({j \in at : j <= i}) = n - 1)
      OBVIOUS
    <3>12. place \in at /\ Cardinality({j \in at : j <= place}) = n - 1
      BY <3>10, <3>11, Zenon
    <3>13. cut[n] = place
      BY <1>6, <2>2, <3>11
    <3>14. place \in 0 .. L
      BY <3>12
    <3> QED
      BY <1>3, <2>2, <3>12, <3>13, <3>14
  <2> QED
    BY <2>1, <2>2
<1>8. cut \in [1 .. N + 1 -> 0 .. L]
  BY <1>6, <1>7
<1>9. ASSUME NEW n \in 1 .. N
      PROVE  /\ cut[n] < cut[n + 1] /\ s[cut[n + 1]] = c
             /\ \A k \in 1 .. Len(s) : cut[n] < k /\ k < cut[n + 1] => s[k] # c
  <2>1. PICK x \in 0 .. L : x = cut[n] /\ R[x] = n - 1
    <3>1. n \in 1 .. N + 1
      OBVIOUS
    <3> QED
      BY <1>7, <3>1
  <2>2. PICK y \in at : y = cut[n + 1] /\ R[y] = n
    <3>1. PICK m \in 1 .. N + 1 : m = n + 1 /\ m # 1 /\ m - 1 = n
      <4>1. n + 1 \in 1 .. N + 1 /\ n + 1 # 1 /\ (n + 1) - 1 = n
        OBVIOUS
      <4> QED
        BY <4>1
    <3> QED
      BY <1>7, <3>1
  <2>3. y \in 0 .. L /\ s[y] = c
    BY <1>2, SMTT(30)
  <2>4. x < y
    <3> SUFFICES ASSUME y <= x PROVE FALSE
      BY <2>1, <2>3
    <3>1. R[y] <= R[x]
      BY <1>3, <2>3
    <3> QED
      BY <2>1, <2>2, <3>1
  <2>5. ASSUME NEW k \in 1 .. Len(s), x < k, k < y, s[k] = c PROVE FALSE
    <3>1. k \in at /\ k \in 0 .. L
      BY <1>1, <1>2, <2>5
    <3>2. R[x] < R[k] /\ R[k] < R[y] /\ R[k] \in Nat
      BY <1>3, <2>5, <3>1
    <3> QED
      BY <2>1, <2>2, <3>2
  <2> QED
    BY <2>1, <2>2, <2>3, <2>4, <2>5
<1>10. ASSUME NEW k \in 1 .. Len(s), cut[N + 1] < k, s[k] = c PROVE FALSE
  <2>1. PICK x \in 0 .. L : x = cut[N + 1] /\ R[x] = N
    <3>1. N + 1 \in 1 .. N + 1 /\ (N + 1) - 1 = N
      OBVIOUS
    <3> QED
      BY <1>7, <3>1
  <2>2. k \in at /\ k \in 0 .. L /\ L \in 0 .. L /\ k <= L
    BY <1>1, <1>2, <1>10
  <2>3. R[x] < R[k] /\ R[k] <= R[L] /\ R[k] \in Nat
    BY <1>3, <1>10, <2>1, <2>2
  <2> QED
    BY <1>4, <2>1, <2>3
<1>11. cut[1] = 0
  <2>1. 1 \in 1 .. N + 1
    OBVIOUS
  <2> QED
    BY <1>7, <2>1
<1>12. CutAt(s, c, N, cut)
  BY <1>9, <1>10, <1>11 DEF CutAt
<1> QED
  BY <1>1, <1>5, <1>8, <1>12

\* A separator behind every token.
EndedTokens(tokens) == FlattenSeq([n \in 1 .. Len(tokens) |-> Append(tokens[n], colon)])

\* Tokens that lie in a row, a separator behind each, give the row.
LEMMA EndedRow ==
    ASSUME NEW M \in Nat, NEW tokens \in [1 .. M -> Seq(Int)], NEW row \in Seq(Int),
           NEW off \in [0 .. M -> 0 .. Len(row)], off[0] = 0,
           \A i \in 1 .. M :
               /\ off[i] = off[i - 1] + Len(tokens[i]) + 1 /\ row[off[i]] = colon
               /\ \A k \in 1 .. Len(tokens[i]) : tokens[i][k] = row[off[i - 1] + k]
    PROVE  EndedTokens(tokens) = SubSeq(row, 1, off[M])
<1>1. tokens \in Seq(Seq(Int)) /\ Len(tokens) = M
  OBVIOUS
<1>2. PICK e : e = [n \in 1 .. M |-> Append(tokens[n], colon)]
  OBVIOUS
<1>3. colon \in Int
  BY DEF colon
<1>4. ASSUME NEW i \in 1 .. M
      PROVE  /\ e[i] \in Seq(Int) /\ Len(e[i]) = Len(tokens[i]) + 1
             /\ \A k \in 1 .. Len(tokens[i]) : e[i][k] = tokens[i][k]
             /\ e[i][Len(tokens[i]) + 1] = colon
  <2>1. PICK t \in Seq(Int) : t = tokens[i]
    OBVIOUS
  <2>2. /\ Append(t, colon) \in Seq(Int) /\ Len(Append(t, colon)) = Len(t) + 1
        /\ \A k \in 1 .. Len(t) : Append(t, colon)[k] = t[k]
        /\ Append(t, colon)[Len(t) + 1] = colon
    BY <1>3, AppendProperties
  <2>3. e[i] = Append(t, colon)
    BY <1>2, <2>1
  <2> QED
    BY <2>1, <2>2, <2>3
<1>5. e \in Seq(Seq(Int)) /\ Len(e) = M
  <2>1. e \in [1 .. M -> Seq(Int)]
    BY <1>2, <1>4
  <2> QED
    BY <2>1
<1>6. ASSUME NEW i \in 1 .. M
      PROVE  /\ off[i] = off[i - 1] + Len(e[i])
             /\ \A k \in 1 .. Len(e[i]) : e[i][k] = row[off[i - 1] + k]
  <2>1. PICK t \in Seq(Int) : t = tokens[i]
    OBVIOUS
  <2>2. PICK m \in 0 .. M : m = i - 1
    <3>1. i - 1 \in 0 .. M
      OBVIOUS
    <3> QED
      BY <3>1
  <2>3. PICK x \in Nat, y \in Nat, l \in Nat : x = off[m] /\ y = off[i] /\ l = Len(t)
    <3>1. off[m] \in Nat /\ off[i] \in Nat /\ Len(t) \in Nat
      OBVIOUS
    <3> QED
      BY <3>1
  <2>4. y = x + l + 1 /\ row[y] = colon /\ \A k \in 1 .. l : t[k] = row[x + k]
    BY <2>1, <2>2, <2>3
  <2>5. Len(e[i]) = l + 1 /\ (\A k \in 1 .. l : e[i][k] = t[k]) /\ e[i][l + 1] = colon
    BY <1>4, <2>1, <2>3
  <2>6. ASSUME NEW k \in 1 .. l + 1 PROVE e[i][k] = row[x + k]
    <3>1. CASE k = l + 1
      <4>1. x + k = y
        BY <2>4, <3>1
      <4> QED
        BY <2>4, <2>5, <3>1, <4>1
    <3>2. CASE k # l + 1
      <4>1. k \in 1 .. l
        BY <3>2
      <4> QED
        BY <2>4, <2>5, <4>1
    <3> QED
      BY <3>1, <3>2
  <2> QED
    BY <2>2, <2>3, <2>4, <2>5, <2>6
<1>7. FlattenSeq(e) = First(row, off[M])
  <2>1. /\ off \in [0 .. Len(e) -> 0 .. Len(row)]
        /\ \A i \in 1 .. Len(e) :
               /\ off[i] = off[i - 1] + Len(e[i])
               /\ \A k \in 1 .. Len(e[i]) : e[i][k] = row[off[i - 1] + k]
    BY <1>5, <1>6
  <2>2. FlattenSeq(e) = First(row, off[Len(e)])
    BY <1>5, <2>1, FlattenRow
  <2> QED
    BY <1>5, <2>2
<1>8. First(row, off[M]) = SubSeq(row, 1, off[M])
  <2>1. PICK a \in Nat : a = off[M] /\ a <= Len(row)
    <3>1. M \in 0 .. M
      OBVIOUS
    <3>2. off[M] \in 0 .. Len(row)
      BY <3>1
    <3> QED
      BY <3>2
  <2>2. \A m \in 1 .. a : row[m] \in Int
    BY <2>1
  <2>3. /\ First(row, a) \in Seq(Int) /\ Len(First(row, a)) = a
        /\ \A m \in 1 .. a : First(row, a)[m] = row[m]
    BY <2>2, FirstPlaces
  <2>4. /\ SubSeq(row, 1, a) \in Seq(Int) /\ Len(SubSeq(row, 1, a)) = a - 1 + 1
        /\ \A k \in 1 .. a - 1 + 1 : SubSeq(row, 1, a)[k] = row[1 + k - 1]
    <3>1. 1 <= a + 1
      OBVIOUS
    <3> QED
      BY <2>1, <3>1, PieceIs
  <2>5. Len(SubSeq(row, 1, a)) = a /\ \A k \in 1 .. a : SubSeq(row, 1, a)[k] = row[k]
    BY <2>4
  <2>6. First(row, a) = SubSeq(row, 1, a)
    BY <2>3, <2>4, <2>5, SeqEqual
  <2> QED
    BY <2>1, <2>6
<1> QED
  BY <1>1, <1>2, <1>7, <1>8 DEF EndedTokens

\* The tokens and the remainder of a text, between its cuts.
SplitAt(s, N, cut, items, rest) ==
    /\ cut \in [1 .. N + 1 -> 0 .. Len(s)] /\ CutAt(s, colon, N, cut)
    /\ items \in [1 .. N -> Seq(Int)]
    /\ \A n \in 1 .. N :
        /\ items[n] = SubSeq(s, cut[n] + 1, cut[n + 1] - 1)
        /\ Len(items[n]) = cut[n + 1] - cut[n] - 1
        /\ \A k \in 1 .. Len(items[n]) : items[n][k] = s[cut[n] + k]
    /\ rest \in Seq(Int) /\ rest = SubSeq(s, cut[N + 1] + 1, Len(s))
    /\ Len(rest) = Len(s) - cut[N + 1]
    /\ \A k \in 1 .. Len(rest) : rest[k] = s[cut[N + 1] + k]

\* What string_split_with_remainder gives.
LEMMA SplitIs ==
    ASSUME NEW s \in Seq(Int)
    PROVE  LET p == string_split_with_remainder(s, colon)
           IN  \E N \in Nat : \E cut : SplitAt(s, N, cut, p.items, p.remainder)
<1>1. colon \in Int
  BY DEF colon
<1>2. PICK cut : cut = Cuts(s, colon)
  OBVIOUS
<1>3. PICK N \in Nat : cut \in [1 .. N + 1 -> 0 .. Len(s)] /\ CutAt(s, colon, N, cut)
  BY <1>1, <1>2, CutsAre
<1>4. Len(cut) = N + 1
  BY <1>3
<1>5. PICK items : items = [n \in 1 .. N |-> SubSeq(s, cut[n] + 1, cut[n + 1] - 1)]
  OBVIOUS
<1>6. PICK rest : rest = SubSeq(s, cut[N + 1] + 1, Len(s))
  OBVIOUS
<1>7. /\ string_split_with_remainder(s, colon).items = items
      /\ string_split_with_remainder(s, colon).remainder = rest
  <2>1. (N + 1) - 1 = N
    OBVIOUS
  <2> QED
    BY <1>2, <1>4, <1>5, <1>6, <2>1 DEF string_split_with_remainder
<1>8. ASSUME NEW n \in 1 .. N
      PROVE  /\ items[n] \in Seq(Int)
             /\ items[n] = SubSeq(s, cut[n] + 1, cut[n + 1] - 1)
             /\ Len(items[n]) = cut[n + 1] - cut[n] - 1
             /\ \A k \in 1 .. Len(items[n]) : items[n][k] = s[cut[n] + k]
  <2>1. items[n] = SubSeq(s, cut[n] + 1, cut[n + 1] - 1)
    BY <1>5
  <2>2. PICK x \in 0 .. Len(s), y \in 0 .. Len(s) : x = cut[n] /\ y = cut[n + 1] /\ x < y
    <3>1. n \in 1 .. N + 1 /\ n + 1 \in 1 .. N + 1
      OBVIOUS
    <3>2. cut[n] \in 0 .. Len(s) /\ cut[n + 1] \in 0 .. Len(s)
      BY <1>3, <3>1
    <3>3. cut[n] < cut[n + 1]
      BY <1>3 DEF CutAt
    <3> QED
      BY <3>2, <3>3
  <2>3. PICK z \in 0 .. Len(s) : z = y - 1 /\ x <= z
    <3>1. y - 1 \in 0 .. Len(s) /\ x <= y - 1
      BY <2>2
    <3> QED
      BY <3>1
  <2>4. /\ SubSeq(s, x + 1, z) \in Seq(Int) /\ Len(SubSeq(s, x + 1, z)) = z - x
        /\ \A k \in 1 .. z - x : SubSeq(s, x + 1, z)[k] = s[x + k]
    BY <2>3, PartOf
  <2>5. items[n] = SubSeq(s, x + 1, z)
    BY <2>1, <2>2, <2>3
  <2>6. z - x = y - x - 1
    BY <2>3
  <2>7. /\ items[n] \in Seq(Int) /\ Len(items[n]) = y - x - 1
        /\ \A k \in 1 .. Len(items[n]) : items[n][k] = s[x + k]
    BY <2>4, <2>5, <2>6
  <2> QED
    BY <2>1, <2>2, <2>7
<1>9. items \in [1 .. N -> Seq(Int)]
  BY <1>5, <1>8
<1>10. /\ rest \in Seq(Int) /\ Len(rest) = Len(s) - cut[N + 1]
       /\ \A k \in 1 .. Len(rest) : rest[k] = s[cut[N + 1] + k]
  <2>1. PICK x \in 0 .. Len(s) : x = cut[N + 1]
    <3>1. N + 1 \in 1 .. N + 1
      OBVIOUS
    <3> QED
      BY <1>3, <3>1
  <2>2. PICK z \in 0 .. Len(s) : z = Len(s) /\ x <= z
    <3>1. Len(s) \in 0 .. Len(s) /\ x <= Len(s)
      OBVIOUS
    <3> QED
      BY <3>1
  <2>3. /\ SubSeq(s, x + 1, z) \in Seq(Int) /\ Len(SubSeq(s, x + 1, z)) = z - x
        /\ \A k \in 1 .. z - x : SubSeq(s, x + 1, z)[k] = s[x + k]
    BY <2>2, PartOf, ZenonT(30)
  <2> QED
    BY <1>6, <2>1, <2>2, <2>3
<1>11. SplitAt(s, N, cut, items, rest)
  BY <1>3, <1>6, <1>8, <1>9, <1>10 DEF SplitAt
<1> QED
  BY <1>7, <1>11

\* The conjuncts of EditsReversible on tokens and labels.
SplitsTokens(s) ==
    LET p == string_split_with_remainder(s, colon)
    IN  /\ EndedTokens(p.items) \o p.remainder = s
        /\ \A n \in 1 .. Len(p.items) : colon \notin ToSet(p.items[n])
        /\ colon \notin ToSet(p.remainder)
        /\ EndedTokens(string_split(s, colon)) \in {s, Append(s, colon)}
        /\ get_label_name(s) = Append(p.items, p.remainder)[1]

\* The tokens of a split give the text again, and contain no separator.
LEMMA Splits ==
    ASSUME NEW s \in Seq(Int)
    PROVE  SplitsTokens(s)
<1>1. PICK L \in Nat : L = Len(s)
  OBVIOUS
<1>2. PICK items, rest : /\ items = string_split_with_remainder(s, colon).items
                         /\ rest = string_split_with_remainder(s, colon).remainder
  OBVIOUS
<1>3. PICK N \in Nat : \E cut : SplitAt(s, N, cut, items, rest)
  BY <1>2, SplitIs
<1>4. PICK cut : SplitAt(s, N, cut, items, rest)
  BY <1>3
<1>5. /\ cut \in [1 .. N + 1 -> 0 .. L] /\ CutAt(s, colon, N, cut)
      /\ items \in [1 .. N -> Seq(Int)]
      /\ \A n \in 1 .. N :
          /\ items[n] = SubSeq(s, cut[n] + 1, cut[n + 1] - 1)
          /\ Len(items[n]) = cut[n + 1] - cut[n] - 1
          /\ \A k \in 1 .. Len(items[n]) : items[n][k] = s[cut[n] + k]
      /\ rest \in Seq(Int) /\ rest = SubSeq(s, cut[N + 1] + 1, L)
      /\ Len(rest) = L - cut[N + 1]
      /\ \A k \in 1 .. Len(rest) : rest[k] = s[cut[N + 1] + k]
  BY <1>1, <1>4 DEF SplitAt
<1>6. /\ cut[1] = 0
      /\ \A n \in 1 .. N :
          /\ cut[n] < cut[n + 1] /\ s[cut[n + 1]] = colon
          /\ \A k \in 1 .. L : cut[n] < k /\ k < cut[n + 1] => s[k] # colon
      /\ \A k \in 1 .. L : cut[N + 1] < k => s[k] # colon
  BY <1>1, <1>5 DEF CutAt
<1>7. Len(items) = N /\ items \in Seq(Seq(Int))
  BY <1>5
<1>8. PICK z \in 0 .. L : z = cut[N + 1]
  <2>1. N + 1 \in 1 .. N + 1
    OBVIOUS
  <2> QED
    BY <1>5, <2>1
<1>9. ASSUME NEW n \in 1 .. N
      PROVE  /\ cut[n] \in 0 .. L /\ cut[n + 1] \in 0 .. L
             /\ cut[n + 1] = cut[n] + Len(items[n]) + 1
  <2>1. n \in 1 .. N + 1 /\ n + 1 \in 1 .. N + 1
    OBVIOUS
  <2>2. cut[n] \in 0 .. L /\ cut[n + 1] \in 0 .. L /\ Len(items[n]) = cut[n + 1] - cut[n] - 1
    BY <1>5, <2>1
  <2> QED
    BY <2>2
<1>10. EndedTokens(items) = SubSeq(s, 1, z)
  <2>1. PICK off : off = [i \in 0 .. N |-> cut[i + 1]]
    OBVIOUS
  <2>2. off \in [0 .. N -> 0 .. Len(s)]
    <3>1. ASSUME NEW i \in 0 .. N PROVE cut[i + 1] \in 0 .. Len(s)
      <4>1. i + 1 \in 1 .. N + 1
        OBVIOUS
      <4> QED
        BY <1>1, <1>5, <4>1
    <3> QED
      BY <2>1, <3>1
  <2>3. off[0] = 0 /\ off[N] = z
    <3>1. 0 \in 0 .. N /\ N \in 0 .. N /\ 0 + 1 = 1
      OBVIOUS
    <3> QED
      BY <1>6, <1>8, <2>1, <3>1
  <2>4. ASSUME NEW i \in 1 .. N
        PROVE  /\ off[i] = off[i - 1] + Len(items[i]) + 1 /\ s[off[i]] = colon
               /\ \A k \in 1 .. Len(items[i]) : items[i][k] = s[off[i - 1] + k]
    <3>1. i \in 0 .. N /\ i - 1 \in 0 .. N /\ (i - 1) + 1 = i
      OBVIOUS
    <3>2. off[i] = cut[i + 1] /\ off[i - 1] = cut[i]
      BY <2>1, <3>1
    <3> QED
      BY <1>5, <1>6, <1>9, <3>2, ZenonT(30)
  <2> QED
    BY <1>5, <2>2, <2>3, <2>4, EndedRow
<1>11. EndedTokens(items) \o rest = s
  <2>1. SubSeq(s, 1, z) \o SubSeq(s, z + 1, L) = SubSeq(s, 1, L)
    <3>1. z \in Nat /\ 1 <= z + 1 /\ z <= L /\ L <= Len(s)
      BY <1>1
    <3> QED
      BY <3>1, PieceJoin
  <2>2. SubSeq(s, 1, L) = s
    BY <1>1, SubSeqFull
  <2> QED
    BY <1>5, <1>8, <1>10, <2>1, <2>2
<1>12. ASSUME NEW n \in 1 .. N PROVE colon \notin ToSet(items[n])
  <2>1. PICK t \in Seq(Int) : t = items[n]
    BY <1>5
  <2>2. PICK x \in 0 .. L, y \in 0 .. L : x = cut[n] /\ y = cut[n + 1] /\ y = x + Len(t) + 1
    BY <1>9, <2>1
  <2>0. PICK l \in Nat : l = Len(t) /\ y = x + l + 1
    BY <2>2
  <2>3. ASSUME NEW k \in 1 .. Len(t) PROVE t[k] # colon
    <3>0. k \in 1 .. l
      BY <2>0
    <3>1. x + k \in 1 .. L /\ x < x + k /\ x + k < y
      BY <2>0, <3>0
    <3>2. s[x + k] # colon
      BY <1>6, <2>2, <3>1
    <3>3. t[k] = s[x + k]
      BY <1>5, <2>1, <2>2
    <3> QED
      BY <3>2, <3>3
  <2>4. ToSet(t) = {t[k] : k \in 1 .. Len(t)}
    BY ToSetIs
  <2> QED
    BY <2>1, <2>3, <2>4
<1>13. colon \notin ToSet(rest)
  <2>1. ASSUME NEW k \in 1 .. Len(rest) PROVE rest[k] # colon
    <3>0. Len(rest) = L - z
      BY <1>5, <1>8
    <3>1. z + k \in 1 .. L /\ z < z + k
      BY <3>0
    <3>2. s[z + k] # colon
      BY <1>6, <1>8, <3>1
    <3> QED
      BY <1>5, <1>8, <3>2
  <2>2. ToSet(rest) = {rest[k] : k \in 1 .. Len(rest)}
    BY <1>5, ToSetIs
  <2> QED
    BY <2>1, <2>2
<1>14. /\ Append(items, rest) \in Seq(Seq(Int)) /\ Len(Append(items, rest)) = N + 1
       /\ \A i \in 1 .. N : Append(items, rest)[i] = items[i]
       /\ Append(items, rest)[N + 1] = rest
  <2>1. items \in Seq(Seq(Int)) /\ rest \in Seq(Int)
    BY <1>5, <1>7
  <2>2. /\ Append(items, rest) \in Seq(Seq(Int)) /\ Len(Append(items, rest)) = Len(items) + 1
        /\ \A i \in 1 .. Len(items) : Append(items, rest)[i] = items[i]
        /\ Append(items, rest)[Len(items) + 1] = rest
    BY <2>1, AppendProperties, SMT
  <2> QED
    BY <1>7, <2>2
<1>15. EndedTokens(string_split(s, colon)) \in {s, Append(s, colon)}
  <2>1. CASE rest = <<>>
    <3>1. Len(rest) = 0
      BY <2>1
    <3>2. z = L
      BY <1>5, <1>8, <3>1
    <3>3. EndedTokens(items) = s
      BY <1>1, <1>10, <3>2, SubSeqFull
    <3>4. string_split(s, colon) = items
      BY <1>2, <2>1 DEF string_split
    <3> QED
      BY <3>3, <3>4
  <2>2. CASE rest # <<>>
    <3>1. PICK tokens : tokens = Append(items, rest)
      OBVIOUS
    <3>2. /\ tokens \in Seq(Seq(Int)) /\ Len(tokens) = N + 1
          /\ (\A i \in 1 .. N : tokens[i] = items[i]) /\ tokens[N + 1] = rest
      BY <1>14, <3>1
    <3>3. PICK M \in Nat : M = N + 1
      OBVIOUS
    <3>4. tokens \in [1 .. M -> Seq(Int)]
      BY <3>2, <3>3
    <3>5. PICK row \in Seq(Int) : /\ row = Append(s, colon) /\ Len(row) = L + 1
                                  /\ (\A k \in 1 .. L : row[k] = s[k]) /\ row[L + 1] = colon
      <4>1. colon \in Int
        BY DEF colon
      <4> QED
        BY <1>1, <4>1, AppendProperties
    <3>6. PICK off : off = [i \in 0 .. M |-> IF i <= N THEN cut[i + 1] ELSE L + 1]
      OBVIOUS
    <3>7. off \in [0 .. M -> 0 .. Len(row)]
      <4>1. ASSUME NEW i \in 0 .. M PROVE (IF i <= N THEN cut[i + 1] ELSE L + 1) \in 0 .. Len(row)
        <5>1. CASE i <= N
          <6>1. i + 1 \in 1 .. N + 1
            BY <5>1
          <6>2. cut[i + 1] \in 0 .. L
            BY <1>5, <6>1
          <6> QED
            BY <3>5, <5>1, <6>2
        <5>2. CASE ~(i <= N)
          BY <3>5, <5>2
        <5> QED
          BY <5>1, <5>2
      <4> QED
        BY <3>6, <4>1
    <3>8. off[0] = 0 /\ off[M] = L + 1
      <4>1. 0 \in 0 .. M /\ 0 <= N /\ 0 + 1 = 1 /\ M \in 0 .. M /\ ~(M <= N)
        BY <3>3
      <4> QED
        BY <1>6, <3>6, <4>1
    <3>9. ASSUME NEW i \in 1 .. M
          PROVE  /\ off[i] = off[i - 1] + Len(tokens[i]) + 1 /\ row[off[i]] = colon
                 /\ \A k \in 1 .. Len(tokens[i]) : tokens[i][k] = row[off[i - 1] + k]
      <4>1. i \in 0 .. M /\ i - 1 \in 0 .. M /\ (i - 1) + 1 = i /\ i - 1 <= N
        BY <3>3
      <4>2. off[i - 1] = cut[i]
        BY <3>6, <4>1
      <4>3. CASE i <= N
        <5>0. i \in 1 .. N
          BY <4>3
        <5>1. PICK t \in Seq(Int) : t = items[i]
          BY <1>5, <5>0
        <5>2. tokens[i] = t
          BY <3>2, <5>0, <5>1
        <5>3. PICK x \in 0 .. L, y \in 0 .. L : x = cut[i] /\ y = cut[i + 1] /\ y = x + Len(t) + 1
          BY <1>9, <5>0, <5>1
        <5>8. PICK l \in Nat : l = Len(t) /\ y = x + l + 1
          BY <5>3
        <5>4. off[i] = y
          BY <3>6, <4>1, <4>3, <5>3
        <5>5. s[y] = colon /\ y \in 1 .. L
          <6>1. s[y] = colon
            BY <1>6, <5>0, <5>3
          <6>2. y \in 1 .. L
            BY <5>8
          <6> QED
            BY <6>1, <6>2
        <5>6. ASSUME NEW k \in 1 .. Len(t) PROVE t[k] = row[x + k]
          <6>0. k \in 1 .. l
            BY <5>8
          <6>1. x + k \in 1 .. L
            BY <5>8, <6>0
          <6>2. t[k] = s[x + k]
            BY <1>5, <5>0, <5>1, <5>3
          <6> QED
            BY <3>5, <6>1, <6>2
        <5>7. row[y] = colon
          BY <3>5, <5>5
        <5> QED
          BY <4>2, <5>2, <5>3, <5>4, <5>6, <5>7
      <4>4. CASE ~(i <= N)
        <5>1. i = N + 1
          BY <3>3, <4>4
        <5>2. tokens[i] = rest /\ off[i - 1] = z /\ off[i] = L + 1
          BY <1>8, <3>2, <3>6, <4>1, <4>2, <4>4, <5>1
        <5>3. Len(rest) = L - z /\ \A k \in 1 .. Len(rest) : rest[k] = s[z + k]
          BY <1>5, <1>8
        <5>4. ASSUME NEW k \in 1 .. Len(rest) PROVE rest[k] = row[z + k]
          <6>1. z + k \in 1 .. L
            BY <5>3
          <6> QED
            BY <3>5, <5>3, <6>1
        <5>5. L + 1 = z + Len(rest) + 1
          BY <5>3
        <5> QED
          BY <3>5, <5>2, <5>4, <5>5
      <4> QED
        BY <4>3, <4>4
    <3>10. EndedTokens(tokens) = SubSeq(row, 1, L + 1)
      <4>1. EndedTokens(tokens) = SubSeq(row, 1, off[M])
        BY <3>4, <3>7, <3>8, <3>9, EndedRow
      <4> QED
        BY <3>8, <4>1
    <3>11. SubSeq(row, 1, L + 1) = row
      BY <3>5, SubSeqFull
    <3>12. string_split(s, colon) = tokens
      BY <1>2, <2>2, <3>1 DEF string_split
    <3> QED
      BY <3>5, <3>10, <3>11, <3>12
  <2> QED
    BY <2>1, <2>2
<1>16. get_label_name(s) = Append(items, rest)[1]
  <2>1. PICK at \in SUBSET (1 .. L) : at = {i \in 1 .. Len(s) : s[i] = colon}
    BY <1>1
  <2>2. get_label_name(s) = IF at = {} THEN s ELSE SubSeq(s, 1, Min(at) - 1)
    BY <2>1 DEF get_label_name
  <2>3. /\ \A i \in 1 .. N : Append(items, rest)[i] = items[i]
        /\ Append(items, rest)[N + 1] = rest
    BY <1>14
  <2>4. CASE N = 0
    <3>1. cut[N + 1] = 0
      BY <1>6, <2>4
    <3>2. at = {}
      <4>1. \A k \in 1 .. L : s[k] # colon
        BY <1>6, <3>1
      <4> QED
        BY <1>1, <2>1, <4>1
    <3>3. rest = s
      BY <1>1, <1>5, <3>1, SubSeqFull
    <3> QED
      BY <2>2, <2>3, <2>4, <3>2, <3>3
  <2>5. CASE N # 0
    <3>1. 1 \in 1 .. N /\ 1 + 1 = 2
      BY <2>5
    <3>2. PICK y \in 0 .. L : y = cut[2] /\ 0 < y /\ s[y] = colon
      BY <1>6, <1>9, <3>1
    <3>3. \A k \in 1 .. L : k < y => s[k] # colon
      <4>1. \A k \in 1 .. L : 0 < k /\ k < y => s[k] # colon
        BY <1>6, <3>1, <3>2
      <4> QED
        BY <4>1
    <3>4. y \in at /\ \A k \in at : y <= k
      BY <1>1, <2>1, <3>2, <3>3
    <3>5. Min(at) = y
      <4>1. Min(at) \in at /\ \A k \in at : Min(at) <= k
        <5>1. at \in SUBSET Nat /\ at # {}
          BY <3>4
        <5> QED
          BY <5>1, MinNumber
      <4>2. Min(at) <= y /\ y <= Min(at) /\ Min(at) \in 1 .. L
        BY <3>4, <4>1
      <4> QED
        BY <4>2
    <3>6. items[1] = SubSeq(s, 1, y - 1)
      <4>1. items[1] = SubSeq(s, cut[1] + 1, cut[1 + 1] - 1)
        BY <1>5, <3>1
      <4>2. cut[1] + 1 = 1 /\ cut[1 + 1] - 1 = y - 1
        BY <1>6, <3>2
      <4> QED
        BY <4>1, <4>2
    <3>7. Append(items, rest)[1] = items[1]
      BY <2>3, <3>1
    <3>8. get_label_name(s) = SubSeq(s, 1, y - 1)
      BY <2>2, <3>4, <3>5
    <3> QED
      BY <3>6, <3>7, <3>8
  <2> QED
    BY <2>4, <2>5
<1> QED
  BY <1>2, <1>7, <1>11, <1>12, <1>13, <1>15, <1>16 DEF SplitsTokens

-----------------------------------------------------------------------------
(* Replacement.                                                            *)

\* Where std::search, from left on, finds the pattern first.
LEMMA FoundFirst ==
    ASSUME NEW s \in Seq(Int), NEW q \in Seq(Int), Len(q) >= 1, NEW left \in 1 .. Len(s) + 1,
           Found(s, q, left) # {}
    PROVE  LET k == Min(Found(s, q, left))
           IN  /\ k \in Nat /\ left <= k /\ k + Len(q) <= Len(s) + 1 /\ k + Len(q) \in 1 .. Len(s) + 1
               /\ SubSeq(s, k, k + Len(q) - 1) = q
               /\ \A j \in left .. k - 1 : j \notin Found(s, q, left)
<1>1. PICK L \in Nat, P \in Nat : L = Len(s) /\ P = Len(q) /\ P >= 1
  OBVIOUS
<1>2. PICK F : F = Found(s, q, left)
  OBVIOUS
<1>3. \A k : k \in F <=> k \in left .. L - P + 1 /\ SubSeq(s, k, k + P - 1) = q
  BY <1>1, <1>2 DEF Found
<1>4. left \in Nat /\ left >= 1
  OBVIOUS
<1>5. F \in SUBSET Nat /\ F # {}
  <2>1. \A k \in left .. L - P + 1 : k \in Nat
    BY <1>4
  <2> QED
    BY <1>2, <1>3, <2>1
<1>6. PICK k \in F : k = Min(F) /\ \A y \in F : k <= y
  BY <1>5, MinNumber
<1>7. k \in left .. L - P + 1 /\ SubSeq(s, k, k + P - 1) = q
  BY <1>3
<1>8. k \in Nat /\ left <= k /\ k + P <= L + 1 /\ k + P \in 1 .. L + 1
  BY <1>1, <1>4, <1>7
<1>9. ASSUME NEW j \in left .. k - 1 PROVE j \notin F
  BY <1>4, <1>6, <1>8
<1> QED
  BY <1>1, <1>2, <1>6, <1>7, <1>8, <1>9

\* A recursion towards the end of a text.
EndEquation(M, stop, A, B, N, g) ==
    g = [l \in 1 .. M |-> IF l \in stop THEN A[l] ELSE B[l] \o g[N[l]]]

\* It has a solution.
LEMMA TowardsTheEnd ==
    ASSUME NEW M \in Nat, NEW stop, NEW A \in [1 .. M -> Seq(Int)], NEW B \in [1 .. M -> Seq(Int)],
           NEW N \in [1 .. M -> 1 .. M], \A l \in 1 .. M : l \notin stop => l < N[l]
    PROVE  \E g : EndEquation(M, stop, A, B, N, g)
<1> DEFINE Solves(g, k) == \A l \in 1 .. M : l > M - k => g[l] = IF l \in stop THEN A[l] ELSE B[l] \o g[N[l]]
           S == {k \in 0 .. M : \E g : DOMAIN g = 1 .. M /\ g = [l \in 1 .. M |-> g[l]] /\ Solves(g, k)}
<1>1. 0 \in S
  <2>1. DOMAIN A = 1 .. M /\ A = [l \in 1 .. M |-> A[l]] /\ Solves(A, 0)
    OBVIOUS
  <2> HIDE DEF Solves
  <2> QED
    BY <2>1
<1>2. ASSUME NEW k \in 1 .. M, k - 1 \in S PROVE k \in S
  <2>1. PICK g : DOMAIN g = 1 .. M /\ g = [l \in 1 .. M |-> g[l]] /\ Solves(g, k - 1)
    BY <1>2
  <2>2. PICK a \in 1 .. M : a = M - k + 1
    <3>1. M - k + 1 \in 1 .. M
      OBVIOUS
    <3> QED
      BY <3>1
  <2>3. \A l \in 1 .. M : l > a => g[l] = IF l \in stop THEN A[l] ELSE B[l] \o g[N[l]]
    <3>1. \A l \in 1 .. M : l > a => l > M - (k - 1)
      BY <2>2
    <3> QED
      BY <2>1, <3>1
  <2>4. PICK v : v = IF a \in stop THEN A[a] ELSE B[a] \o g[N[a]]
    OBVIOUS
  <2>5. PICK h : h = [l \in 1 .. M |-> IF l = a THEN v ELSE g[l]]
    OBVIOUS
  <2>6. \A l \in 1 .. M : l >= a /\ l \notin stop => N[l] # a /\ N[l] \in 1 .. M
    BY <2>2
  <2>7. ASSUME NEW l \in 1 .. M, l > M - k PROVE h[l] = IF l \in stop THEN A[l] ELSE B[l] \o h[N[l]]
    <3>1. CASE l = a
      <4>1. h[l] = v
        BY <2>5, <3>1
      <4>2. l \notin stop => h[N[l]] = g[N[l]]
        BY <2>5, <2>6, <3>1
      <4> QED
        BY <2>4, <3>1, <4>1, <4>2
    <3>2. CASE l # a
      <4>1. l > a
        BY <2>2, <2>7, <3>2
      <4>2. h[l] = g[l]
        BY <2>5, <3>2
      <4>3. l \notin stop => h[N[l]] = g[N[l]]
        BY <2>5, <2>6, <4>1
      <4> QED
        BY <2>3, <4>1, <4>2, <4>3
    <3> QED
      BY <3>1, <3>2
  <2>8. DOMAIN h = 1 .. M /\ h = [l \in 1 .. M |-> h[l]]
    BY <2>5
  <2>9. Solves(h, k)
    BY <2>7
  <2> HIDE DEF Solves
  <2> QED
    BY <2>8, <2>9
<1>3. S \in SUBSET Nat
  OBVIOUS
<1>4. M \in S
  <2> HIDE DEF S
  <2>1. \A k \in 0 .. M : k \in S
    BY <1>1, <1>2, <1>3, EveryPlace
  <2> QED
    BY <2>1
<1>5. PICK g : DOMAIN g = 1 .. M /\ g = [l \in 1 .. M |-> g[l]] /\ Solves(g, M)
  BY <1>4
<1>6. \A l \in 1 .. M : g[l] = IF l \in stop THEN A[l] ELSE B[l] \o g[N[l]]
  <2>1. \A l \in 1 .. M : l > M - M
    OBVIOUS
  <2> QED
    BY <1>5, <2>1
<1>7. g = [l \in 1 .. M |-> IF l \in stop THEN A[l] ELSE B[l] \o g[N[l]]]
  BY <1>5, <1>6
<1> QED
  BY <1>7 DEF EndEquation

\* f goes from each place of s to the next one behind an occurrence of q.
ReplaceRun(s, q, r, f) ==
    \A left \in 1 .. Len(s) + 1 :
        f[left] = IF Found(s, q, left) = {} THEN SubSeq(s, left, Len(s))
                  ELSE SubSeq(s, left, Min(Found(s, q, left)) - 1) \o r
                       \o f[Min(Found(s, q, left)) + Len(q)]

\* The text before the first occurrence, with the replacement.
LEMMA ReplacedPart ==
    ASSUME NEW s \in Seq(Int), NEW q \in Seq(Int), Len(q) >= 1, NEW r \in Seq(Int),
           NEW left \in 1 .. Len(s) + 1, Found(s, q, left) # {}
    PROVE  SubSeq(s, left, Min(Found(s, q, left)) - 1) \o r \in Seq(Int)
<1>1. PICK k \in Nat : k = Min(Found(s, q, left)) /\ left <= k /\ k + Len(q) <= Len(s) + 1
  BY FoundFirst
<1>2. PICK b \in Nat : b = k - 1 /\ left <= b + 1 /\ b <= Len(s)
  <2>1. k - 1 \in Nat /\ left <= (k - 1) + 1 /\ k - 1 <= Len(s)
    BY <1>1
  <2> QED
    BY <2>1
<1>3. left \in Nat /\ 1 <= left
  OBVIOUS
<1>4. SubSeq(s, left, b) \in Seq(Int)
  BY <1>2, <1>3, PieceIs
<1> QED
  BY <1>1, <1>2, <1>4, ConcatProperties

\* The function of string_replace does.
LEMMA ReplaceRuns ==
    ASSUME NEW s \in Seq(Int), NEW q \in Seq(Int), Len(q) >= 1, NEW r \in Seq(Int)
    PROVE  \E f \in [1 .. Len(s) + 1 -> Seq(Int)] :
               string_replace(s, q, r) = f[1] /\ ReplaceRun(s, q, r, f)
<1>1. PICK M \in Nat : M = Len(s) + 1 /\ M >= 1
  <2>1. Len(s) \in Nat
    OBVIOUS
  <2> QED
    BY <2>1
<1>2. PICK stop : stop = {l \in 1 .. M : Found(s, q, l) = {}}
  OBVIOUS
<1>3. PICK A : A = [l \in 1 .. M |-> SubSeq(s, l, Len(s))]
  OBVIOUS
<1>4. PICK B : B = [l \in 1 .. M |-> IF l \in stop THEN s ELSE SubSeq(s, l, Min(Found(s, q, l)) - 1) \o r]
  OBVIOUS
<1>5. PICK N : N = [l \in 1 .. M |-> IF l \in stop THEN l ELSE Min(Found(s, q, l)) + Len(q)]
  OBVIOUS
<1>6. A \in [1 .. M -> Seq(Int)]
  <2>1. ASSUME NEW l \in 1 .. M PROVE SubSeq(s, l, Len(s)) \in Seq(Int)
    <3>1. l \in Nat /\ 1 <= l /\ l <= Len(s) + 1 /\ Len(s) \in Nat /\ Len(s) <= Len(s)
      BY <1>1
    <3> QED
      BY <3>1, PieceIs
  <2> QED
    BY <1>3, <2>1
<1>7. B \in [1 .. M -> Seq(Int)]
  <2>1. ASSUME NEW l \in 1 .. M, l \notin stop
        PROVE  SubSeq(s, l, Min(Found(s, q, l)) - 1) \o r \in Seq(Int)
    <3>1. l \in 1 .. Len(s) + 1 /\ Found(s, q, l) # {}
      BY <1>1, <1>2, <2>1
    <3> QED
      BY <3>1, ReplacedPart
  <2> QED
    BY <1>4, <2>1
<1>8. ASSUME NEW l \in 1 .. M, l \notin stop
      PROVE  Min(Found(s, q, l)) + Len(q) \in 1 .. M /\ l < Min(Found(s, q, l)) + Len(q)
  <2>1. l \in 1 .. Len(s) + 1 /\ Found(s, q, l) # {}
    BY <1>1, <1>2, <1>8
  <2>2. PICK k \in Nat : k = Min(Found(s, q, l)) /\ l <= k /\ k + Len(q) \in 1 .. Len(s) + 1
    BY <2>1, FoundFirst
  <2>3. l < k + Len(q)
    <3>1. Len(q) \in Nat /\ Len(q) >= 1 /\ l \in Nat
      OBVIOUS
    <3> QED
      BY <2>2, <3>1
  <2> QED
    BY <1>1, <2>2, <2>3
<1>9. N \in [1 .. M -> 1 .. M] /\ \A l \in 1 .. M : l \notin stop => l < N[l]
  BY <1>5, <1>8
<1>10. PICK g : g = [l \in 1 .. M |-> IF l \in stop THEN A[l] ELSE B[l] \o g[N[l]]]
  <2>1. PICK g : EndEquation(M, stop, A, B, N, g)
    BY <1>6, <1>7, <1>9, TowardsTheEnd
  <2>2. g = [l \in 1 .. M |-> IF l \in stop THEN A[l] ELSE B[l] \o g[N[l]]]
    BY <2>1, Zenon DEF EndEquation
  <2> QED
    BY <2>2, Zenon
<1> DEFINE e(f, left) ==
        LET found == Found(s, q, left)
        IN  IF found = {} THEN SubSeq(s, left, Len(s))
            ELSE SubSeq(s, left, Min(found) - 1) \o r \o f[Min(found) + Len(q)]
<1>11. g = [left \in 1 .. Len(s) + 1 |-> e(g, left)]
  <2>1. ASSUME NEW l \in 1 .. M PROVE (IF l \in stop THEN A[l] ELSE B[l] \o g[N[l]]) = e(g, l)
    <3>1. CASE l \in stop
      <4>1. Found(s, q, l) = {}
        BY <1>2, <3>1
      <4> QED
        BY <1>3, <3>1, <4>1
    <3>2. CASE l \notin stop
      <4>1. Found(s, q, l) # {}
        BY <1>2, <3>2
      <4> QED
        BY <1>4, <1>5, <3>2, <4>1
    <3> QED
      BY <3>1, <3>2
  <2> HIDE DEF e
  <2> QED
    BY <1>1, <1>10, <2>1
<1> DEFINE f == CHOOSE f : f = [left \in 1 .. Len(s) + 1 |-> e(f, left)]
<1>12. f = [left \in 1 .. Len(s) + 1 |-> e(f, left)]
  <2> HIDE DEF e
  <2> QED
    BY <1>11, Zenon
<1>13. string_replace(s, q, r) = f[1]
  BY Zenon DEF string_replace
<1> HIDE DEF f
<1>14. ASSUME NEW left \in 1 .. Len(s) + 1 PROVE f[left] = e(f, left)
  <2> HIDE DEF e
  <2> QED
    BY <1>12
<1>15. ReplaceRun(s, q, r, f)
  BY <1>14 DEF ReplaceRun
<1>16. \A l \in 1 .. M : f[l] \in Seq(Int)
  <2> DEFINE W == {l \in 1 .. M : f[l] \notin Seq(Int)}
  <2> SUFFICES ASSUME W # {} PROVE FALSE
    OBVIOUS
  <2>1. W \in SUBSET (1 .. M)
    OBVIOUS
  <2>2. PICK l \in W : \A y \in W : y <= l
    <3> HIDE DEF W
    <3> QED
      BY <2>1, MaxNumber
  <2>3. l \in 1 .. M /\ f[l] \notin Seq(Int) /\ l \in 1 .. Len(s) + 1
    BY <1>1, <2>2
  <2>4. CASE l \in stop
    <3>1. f[l] = A[l]
      BY <1>2, <1>3, <1>14, <2>3, <2>4
    <3> QED
      BY <1>6, <2>3, <3>1
  <2>5. CASE l \notin stop
    <3>1. PICK x \in 1 .. M : x = N[l] /\ x = Min(Found(s, q, l)) + Len(q) /\ l < x
      BY <1>5, <1>8, <2>3, <2>5
    <3>2. f[x] \in Seq(Int)
      <4>1. x \notin W
        BY <2>2, <2>3, <3>1
      <4> QED
        BY <4>1
    <3>3. B[l] \in Seq(Int) /\ B[l] = SubSeq(s, l, Min(Found(s, q, l)) - 1) \o r
      BY <1>4, <1>7, <2>3, <2>5
    <3>4. Found(s, q, l) # {}
      BY <1>2, <2>3, <2>5
    <3>5. f[l] = B[l] \o f[x]
      BY <1>14, <2>3, <3>1, <3>3, <3>4
    <3>6. B[l] \o f[x] \in Seq(Int)
      BY <3>2, <3>3, ConcatProperties
    <3> QED
      BY <2>3, <3>5, <3>6
  <2> QED
    BY <2>4, <2>5
<1>17. f \in [1 .. Len(s) + 1 -> Seq(Int)]
  <2> HIDE DEF e
  <2> QED
    BY <1>1, <1>12, <1>16
<1> QED
  BY <1>13, <1>15, <1>17

\* The places F of a text that begins at a are the places G.
Shifted(F, G, a) ==
    /\ F = {} <=> G = {}
    /\ F # {} => Min(G) = a + Min(F) - 1

\* What is found in the text from a on.
LEMMA FoundShift ==
    ASSUME NEW s \in Seq(Int), NEW q \in Seq(Int), Len(q) >= 1, NEW a \in 1 .. Len(s) + 1,
           NEW t, t = SubSeq(s, a, Len(s)), NEW x \in 1 .. Len(t) + 1,
           NEW z, z = a + x - 1
    PROVE  Shifted(Found(t, q, x), Found(s, q, z), a)
<1>1. PICK L \in Nat, P \in Nat : L = Len(s) /\ P = Len(q) /\ P >= 1
  OBVIOUS
<1>0. a \in Nat /\ a >= 1 /\ a <= L + 1 /\ L <= Len(s)
  BY <1>1
<1>3. t \in Seq(Int) /\ Len(t) = L - a + 1
  BY <1>0, <1>1, PieceIs
<1>2. a \in Nat /\ a >= 1 /\ a <= L + 1 /\ L <= Len(s) /\ x \in Nat /\ x >= 1 /\ x <= L - a + 2
  BY <1>0, <1>3
<1>4. PICK F : F = Found(t, q, x)
  OBVIOUS
<1>5. PICK G : G = Found(s, q, a + x - 1)
  OBVIOUS
<1>6. \A j : j \in F <=> j \in x .. Len(t) - P + 1 /\ SubSeq(t, j, j + P - 1) = q
  BY <1>1, <1>4 DEF Found
<1>7. \A j : j \in G <=> j \in a + x - 1 .. L - P + 1 /\ SubSeq(s, j, j + P - 1) = q
  BY <1>1, <1>5 DEF Found
<1>8. ASSUME NEW j \in Nat PROVE j \in F <=> a + j - 1 \in G
  <2>1. j \in x .. Len(t) - P + 1 <=> a + j - 1 \in a + x - 1 .. L - P + 1
    BY <1>2, <1>3
  <2>2. ASSUME j \in x .. Len(t) - P + 1
        PROVE  SubSeq(t, j, j + P - 1) = SubSeq(s, a + j - 1, (a + j - 1) + P - 1)
    <3>1. PICK d \in Nat : d = j + P - 1 /\ d <= L - a + 1 /\ 1 <= j /\ j <= d + 1
      <4>1. j + P - 1 \in Nat /\ j + P - 1 <= L - a + 1 /\ 1 <= j /\ j <= j + P - 1 + 1
        BY <1>1, <1>2, <1>3, <2>2
      <4> QED
        BY <4>1
    <3>2. SubSeq(SubSeq(s, a, L), j, d) = SubSeq(s, a + j - 1, a + d - 1)
      BY <1>2, <3>1, PieceOfPiece
    <3>3. a + d - 1 = (a + j - 1) + P - 1
      BY <1>2, <3>1
    <3> QED
      BY <1>1, <3>1, <3>2, <3>3
  <2> QED
    BY <1>6, <1>7, <2>1, <2>2
<1>9. ASSUME NEW i \in G PROVE \E j \in Nat : i = a + j - 1 /\ j \in F
  <2>1. i \in a + x - 1 .. L - P + 1
    BY <1>7
  <2>2. i - a + 1 \in Nat /\ i = a + (i - a + 1) - 1
    BY <1>2, <2>1
  <2> QED
    BY <1>8, <2>2
<1>10. F \in SUBSET Nat /\ G \in SUBSET Nat
  <2>1. \A j \in x .. Len(t) - P + 1 : j \in Nat
    BY <1>2
  <2>2. \A j \in a + x - 1 .. L - P + 1 : j \in Nat
    BY <1>2
  <2> QED
    BY <1>6, <1>7, <2>1, <2>2
<1>11. F = {} <=> G = {}
  <2>1. ASSUME NEW j \in F PROVE G # {}
    BY <1>8, <1>10
  <2>2. ASSUME NEW i \in G PROVE F # {}
    BY <1>9
  <2> QED
    BY <2>1, <2>2
<1>12. ASSUME F # {} PROVE Min(G) = a + Min(F) - 1
  <2>1. PICK k \in F : k = Min(F) /\ \A y \in F : k <= y
    BY <1>10, <1>12, MinNumber
  <2>2. PICK m \in G : m = Min(G) /\ \A y \in G : m <= y
    BY <1>10, <1>11, <1>12, MinNumber
  <2>3. k \in Nat /\ m \in Nat
    BY <1>10
  <2>4. m <= a + k - 1
    BY <1>8, <2>2, <2>3
  <2>5. PICK j \in Nat : m = a + j - 1 /\ j \in F
    BY <1>9
  <2>6. k <= j
    BY <2>1, <2>5
  <2>7. m = a + k - 1
    <3>1. j >= k /\ a + j - 1 <= a + k - 1
      BY <2>4, <2>5, <2>6
    <3>2. j = k
      BY <1>2, <2>3, <3>1
    <3> QED
      BY <2>5, <3>2
  <2> QED
    BY <2>1, <2>2, <2>7
<1> QED
  BY <1>4, <1>5, <1>11, <1>12 DEF Shifted

\* The search goes on in the rest of a text as it would in the rest alone.
LEMMA ReplaceRest ==
    ASSUME NEW s \in Seq(Int), NEW q \in Seq(Int), Len(q) >= 1, NEW r \in Seq(Int),
           NEW f \in [1 .. Len(s) + 1 -> Seq(Int)], ReplaceRun(s, q, r, f),
           NEW a \in 1 .. Len(s) + 1
    PROVE  string_replace(SubSeq(s, a, Len(s)), q, r) = f[a]
<1>1. PICK L \in Nat, P \in Nat : L = Len(s) /\ P = Len(q) /\ P >= 1
  OBVIOUS
<1>2. a \in Nat /\ a >= 1 /\ a <= L + 1 /\ L <= Len(s)
  BY <1>1
<1>3. PICK t \in Seq(Int) : t = SubSeq(s, a, L) /\ Len(t) = L - a + 1
  <2>1. SubSeq(s, a, L) \in Seq(Int) /\ Len(SubSeq(s, a, L)) = L - a + 1
    BY <1>2, PieceIs
  <2> QED
    BY <2>1
<1>4. PICK h \in [1 .. Len(t) + 1 -> Seq(Int)] : string_replace(t, q, r) = h[1] /\ ReplaceRun(t, q, r, h)
  BY ReplaceRuns
<1>5. PICK M \in Nat : M = L - a + 2 /\ M = Len(t) + 1 /\ M >= 1
  <2>1. L - a + 2 \in Nat /\ L - a + 2 = (L - a + 1) + 1 /\ L - a + 2 >= 1
    BY <1>2
  <2> QED
    BY <1>3, <2>1
<1> DEFINE W == {x \in 1 .. M : h[x] # f[a + x - 1]}
<1>6. W = {}
  <2> SUFFICES ASSUME W # {} PROVE FALSE
    OBVIOUS
  <2>1. W \in SUBSET (1 .. M)
    OBVIOUS
  <2>2. PICK w \in W : \A y \in W : y <= w
    <3> HIDE DEF W
    <3> QED
      BY <2>1, MaxNumber
  <2>3. PICK x \in 1 .. M : h[x] # f[a + x - 1] /\ \A y \in 1 .. M : y > x => h[y] = f[a + y - 1]
    <3>1. w \in 1 .. M /\ h[w] # f[a + w - 1]
      OBVIOUS
    <3>2. ASSUME NEW y \in 1 .. M, y > w PROVE h[y] = f[a + y - 1]
      <4>1. ~(y <= w)
        BY <3>1, <3>2
      <4>2. y \notin W
        BY <2>2, <4>1
      <4> QED
        BY <4>2
    <3> HIDE DEF W
    <3> QED
      BY <3>1, <3>2
  <2> HIDE DEF W
  <2>4. PICK z \in 1 .. Len(s) + 1 : z = a + x - 1
    <3>1. a + x - 1 \in 1 .. Len(s) + 1
      BY <1>1, <1>2, <1>5, <2>3
    <3> QED
      BY <3>1
  <2>5. /\ h[x] = IF Found(t, q, x) = {} THEN SubSeq(t, x, Len(t))
                  ELSE SubSeq(t, x, Min(Found(t, q, x)) - 1) \o r \o h[Min(Found(t, q, x)) + P]
        /\ f[z] = IF Found(s, q, z) = {} THEN SubSeq(s, z, L)
                  ELSE SubSeq(s, z, Min(Found(s, q, z)) - 1) \o r \o f[Min(Found(s, q, z)) + P]
    <3>1. x \in 1 .. Len(t) + 1
      BY <1>5, <2>3
    <3> QED
      BY <1>1, <1>4, <2>4, <3>1 DEF ReplaceRun
  <2>6. /\ Found(t, q, x) = {} <=> Found(s, q, z) = {}
        /\ Found(t, q, x) # {} => Min(Found(s, q, z)) = a + Min(Found(t, q, x)) - 1
    <3>1. x \in 1 .. Len(t) + 1 /\ t = SubSeq(s, a, Len(s))
      BY <1>1, <1>3, <1>5, <2>3
    <3>2. Shifted(Found(t, q, x), Found(s, q, z), a)
      BY <2>4, <3>1, FoundShift
    <3> QED
      BY <3>2 DEF Shifted
  <2>7. x \in Nat /\ 1 <= x /\ x <= L - a + 2
    BY <1>5, <2>3
  <2>8. CASE Found(t, q, x) = {}
    <3>1. PICK d \in Nat : d = Len(t) /\ d = L - a + 1
      BY <1>3
    <3>2. SubSeq(SubSeq(s, a, L), x, d) = SubSeq(s, a + x - 1, a + d - 1)
      <4>1. x <= d + 1 /\ d <= L - a + 1
        BY <1>2, <2>7, <3>1
      <4> QED
        BY <1>2, <2>7, <4>1, PieceOfPiece
    <3>3. a + d - 1 = L
      BY <1>2, <3>1
    <3> QED
      BY <1>3, <2>3, <2>4, <2>5, <2>6, <2>8, <3>1, <3>2, <3>3
  <2>9. CASE Found(t, q, x) # {}
    <3>1. PICK k \in Nat : k = Min(Found(t, q, x)) /\ x <= k /\ k + P <= Len(t) + 1
      <4>1. x \in 1 .. Len(t) + 1
        BY <1>5, <2>3
      <4> QED
        BY <1>1, <2>9, <4>1, FoundFirst
    <3>8. k >= 1 /\ x <= k /\ k <= L - a + 1 /\ k + P > x /\ k + P <= M
      <4>1. x <= k /\ P >= 1 /\ k + P <= M /\ M = L - a + 2
        BY <1>1, <1>5, <3>1
      <4> QED
        BY <1>2, <2>7, <4>1
    <3>2. Min(Found(s, q, z)) = a + k - 1
      BY <2>6, <2>9, <3>1
    <3>3. SubSeq(t, x, k - 1) = SubSeq(s, z, (a + k - 1) - 1)
      <4>1. PICK d \in Nat : d = k - 1 /\ x <= d + 1 /\ d <= L - a + 1
        <5>1. k >= 1 /\ x <= k /\ k <= L - a + 1
          BY <3>8
        <5>2. k - 1 \in Nat /\ x <= (k - 1) + 1 /\ k - 1 <= L - a + 1
          BY <1>2, <2>7, <5>1
        <5> QED
          BY <5>2
      <4>2. SubSeq(SubSeq(s, a, L), x, d) = SubSeq(s, a + x - 1, a + d - 1)
        BY <1>2, <2>7, <4>1, PieceOfPiece
      <4>3. a + d - 1 = (a + k - 1) - 1
        BY <1>2, <3>1, <4>1
      <4> QED
        BY <1>3, <2>4, <4>1, <4>2, <4>3
    <3>4. h[k + P] = f[(a + k - 1) + P]
      <4>1. k + P \in 1 .. M /\ k + P > x /\ a + (k + P) - 1 = (a + k - 1) + P
        BY <1>2, <2>7, <3>8
      <4>2. h[k + P] = f[a + (k + P) - 1]
        BY <2>3, <4>1
      <4> QED
        BY <4>1, <4>2
    <3>5. h[x] = SubSeq(t, x, k - 1) \o r \o h[k + P]
      BY <2>5, <2>9, <3>1
    <3>6. f[z] = SubSeq(s, z, (a + k - 1) - 1) \o r \o f[(a + k - 1) + P]
      BY <2>5, <2>6, <2>9, <3>2
    <3> QED
      BY <2>3, <2>4, <3>3, <3>4, <3>5, <3>6
  <2> QED
    BY <2>8, <2>9
<1>7. h[1] = f[a]
  <2>1. 1 \in 1 .. M /\ a + 1 - 1 = a
    BY <1>2, <1>5
  <2>2. h[1] = f[a + 1 - 1]
    BY <1>6, <2>1
  <2> QED
    BY <2>1, <2>2
<1> QED
  BY <1>1, <1>3, <1>4, <1>7

\* The first occurrence is replaced, and then what is behind it.
ReplacesFirst(s, q, r) ==
    \A k, x : k = Min(Found(s, q, 1)) /\ x = k + Len(q) =>
        string_replace(s, q, r)
            = SubSeq(s, 1, k - 1) \o r \o string_replace(SubSeq(s, x, Len(s)), q, r)

\* What a replacement does first.
LEMMA ReplaceStep ==
    ASSUME NEW s \in Seq(Int), NEW q \in Seq(Int), Len(q) >= 1, NEW r \in Seq(Int)
    PROVE  /\ string_replace(s, q, r) \in Seq(Int)
           /\ Found(s, q, 1) = {} => string_replace(s, q, r) = s
           /\ Found(s, q, 1) # {} => ReplacesFirst(s, q, r)
<1>1. PICK f \in [1 .. Len(s) + 1 -> Seq(Int)] : string_replace(s, q, r) = f[1] /\ ReplaceRun(s, q, r, f)
  BY ReplaceRuns
<1>2. 1 \in 1 .. Len(s) + 1
  <2>1. Len(s) \in Nat
    OBVIOUS
  <2> QED
    BY <2>1
<1>3. f[1] = IF Found(s, q, 1) = {} THEN SubSeq(s, 1, Len(s))
             ELSE SubSeq(s, 1, Min(Found(s, q, 1)) - 1) \o r \o f[Min(Found(s, q, 1)) + Len(q)]
  BY <1>1, <1>2 DEF ReplaceRun
<1>4. SubSeq(s, 1, Len(s)) = s
  BY SubSeqFull
<1>5. ASSUME Found(s, q, 1) # {}
      PROVE  f[Min(Found(s, q, 1)) + Len(q)]
                 = string_replace(SubSeq(s, Min(Found(s, q, 1)) + Len(q), Len(s)), q, r)
  <2>1. PICK x \in 1 .. Len(s) + 1 : x = Min(Found(s, q, 1)) + Len(q)
    BY <1>2, <1>5, FoundFirst
  <2>2. string_replace(SubSeq(s, x, Len(s)), q, r) = f[x]
    BY <1>1, ReplaceRest
  <2> QED
    BY <2>1, <2>2
<1>6. f[1] \in Seq(Int)
  BY <1>2
<1> QED
  BY <1>1, <1>3, <1>4, <1>5, <1>6 DEF ReplacesFirst

\* The pattern q is at j, character by character.
HasAt(s, q, j) ==
    j \in 1 .. Len(s) - Len(q) + 1 /\ \A i \in 1 .. Len(q) : s[j + i - 1] = q[i]

\* That is where it is found.
LEMMA FoundAt ==
    ASSUME NEW s \in Seq(Int), NEW q \in Seq(Int), Len(q) >= 1, NEW j \in Int
    PROVE  j \in Found(s, q, 1) <=> HasAt(s, q, j)
<1>1. PICK L \in Nat, P \in Nat : L = Len(s) /\ P = Len(q) /\ P >= 1
  OBVIOUS
<1>2. j \in Found(s, q, 1) <=> j \in 1 .. L - P + 1 /\ SubSeq(s, j, j + P - 1) = q
  BY <1>1 DEF Found
<1>3. ASSUME j \in 1 .. L - P + 1
      PROVE  SubSeq(s, j, j + P - 1) = q <=> \A i \in 1 .. P : s[j + i - 1] = q[i]
  <2>1. PICK b \in Nat : b = j + P - 1 /\ j \in Nat /\ 1 <= j /\ j <= b + 1 /\ b <= Len(s) /\ b - j + 1 = P
    <3>1. /\ j + P - 1 \in Nat /\ j \in Nat /\ 1 <= j /\ j <= (j + P - 1) + 1 /\ j + P - 1 <= Len(s)
          /\ (j + P - 1) - j + 1 = P
      BY <1>1, <1>3
    <3> QED
      BY <3>1
  <2>2. PICK t \in Seq(Int) : t = SubSeq(s, j, b) /\ Len(t) = P /\ \A i \in 1 .. P : t[i] = s[j + i - 1]
    <3>1. /\ SubSeq(s, j, b) \in Seq(Int) /\ Len(SubSeq(s, j, b)) = b - j + 1
          /\ \A k \in 1 .. b - j + 1 : SubSeq(s, j, b)[k] = s[j + k - 1]
      BY <2>1, PieceIs
    <3> QED
      BY <2>1, <3>1
  <2>3. t = q <=> \A i \in 1 .. P : t[i] = q[i]
    BY <1>1, <2>2, SeqEqual
  <2> QED
    BY <2>1, <2>2, <2>3
<1> QED
  BY <1>1, <1>2, <1>3 DEF HasAt

\* Where one character is found.
LEMMA FoundOne ==
    ASSUME NEW s \in Seq(Int), NEW c \in Int, NEW j \in Int
    PROVE  j \in Found(s, <<c>>, 1) <=> j \in 1 .. Len(s) /\ s[j] = c
<1>1. <<c>> \in Seq(Int) /\ Len(<<c>>) = 1 /\ <<c>>[1] = c
  OBVIOUS
<1>2. PICK q \in Seq(Int) : q = <<c>> /\ Len(q) = 1 /\ q[1] = c
  BY <1>1
<1>3. j \in Found(s, q, 1) <=> HasAt(s, q, j)
  <2>1. Len(q) >= 1
    BY <1>2
  <2> QED
    BY <2>1, FoundAt
<1>4. 1 .. Len(s) - Len(q) + 1 = 1 .. Len(s)
  <2>1. Len(s) \in Nat /\ Len(s) - 1 + 1 = Len(s)
    OBVIOUS
  <2> QED
    BY <1>2, <2>1
<1>5. (\A i \in 1 .. Len(q) : s[j + i - 1] = q[i]) <=> s[j] = c
  <2>1. 1 .. Len(q) = {1} /\ j + 1 - 1 = j
    BY <1>2
  <2> QED
    BY <1>2, <2>1
<1> QED
  BY <1>2, <1>3, <1>4, <1>5 DEF HasAt

\* A text in three parts.
LEMMA ThreeParts ==
    ASSUME NEW a \in Seq(Int), NEW r \in Seq(Int), NEW b \in Seq(Int), NEW m, m = a \o r \o b
    PROVE  /\ m \in Seq(Int) /\ Len(m) = Len(a) + Len(r) + Len(b)
           /\ \A i \in 1 .. Len(a) : m[i] = a[i]
           /\ \A i \in 1 .. Len(r) : m[Len(a) + i] = r[i]
           /\ \A i \in 1 .. Len(b) : m[Len(a) + Len(r) + i] = b[i]
<1>1. PICK A \in Nat, R \in Nat, B \in Nat : A = Len(a) /\ R = Len(r) /\ B = Len(b)
  OBVIOUS
<1>2. PICK u \in Seq(Int) : /\ u = a \o r /\ Len(u) = A + R
                            /\ \A i \in 1 .. A + R : u[i] = IF i <= A THEN a[i] ELSE r[i - A]
  <2>1. /\ a \o r \in Seq(Int) /\ Len(a \o r) = Len(a) + Len(r)
        /\ \A i \in 1 .. Len(a) + Len(r) : (a \o r)[i] = IF i <= Len(a) THEN a[i] ELSE r[i - Len(a)]
    BY ConcatProperties
  <2> QED
    BY <1>1, <2>1
<1>3. /\ m \in Seq(Int) /\ Len(m) = A + R + B
      /\ \A i \in 1 .. A + R + B : m[i] = IF i <= A + R THEN u[i] ELSE b[i - (A + R)]
  BY <1>1, <1>2, ConcatProperties
<1>4. ASSUME NEW i \in 1 .. A PROVE m[i] = a[i]
  <2>1. i \in 1 .. A + R /\ i \in 1 .. A + R + B /\ i <= A /\ i <= A + R
    OBVIOUS
  <2> QED
    BY <1>2, <1>3, <2>1
<1>5. ASSUME NEW i \in 1 .. R PROVE m[A + i] = r[i]
  <2>1. PICK j \in 1 .. A + R : j = A + i /\ j - A = i /\ ~(j <= A) /\ j <= A + R /\ j \in 1 .. A + R + B
    <3>1. A + i \in 1 .. A + R /\ (A + i) - A = i /\ ~(A + i <= A) /\ A + i <= A + R /\ A + i \in 1 .. A + R + B
      OBVIOUS
    <3> QED
      BY <3>1
  <2>2. m[j] = u[j] /\ u[j] = r[j - A]
    BY <1>2, <1>3, <2>1
  <2> QED
    BY <2>1, <2>2
<1>6. ASSUME NEW i \in 1 .. B PROVE m[A + R + i] = b[i]
  <2>1. PICK j \in 1 .. A + R + B : j = A + R + i /\ j - (A + R) = i /\ ~(j <= A + R)
    <3>1. A + R + i \in 1 .. A + R + B /\ (A + R + i) - (A + R) = i /\ ~(A + R + i <= A + R)
      OBVIOUS
    <3> QED
      BY <3>1
  <2>2. m[j] = b[j - (A + R)]
    BY <1>3, <2>1
  <2> QED
    BY <2>1, <2>2
<1> QED
  BY <1>1, <1>3, <1>4, <1>5, <1>6

\* The last of its parts.
LEMMA ThirdPart ==
    ASSUME NEW a \in Seq(Int), NEW r \in Seq(Int), NEW b \in Seq(Int), NEW m, m = a \o r \o b,
           NEW x, x = Len(a) + Len(r) + 1
    PROVE  SubSeq(m, x, Len(m)) = b
<1>1. PICK A \in Nat, R \in Nat, B \in Nat : A = Len(a) /\ R = Len(r) /\ B = Len(b)
  OBVIOUS
<1>2. m \in Seq(Int) /\ Len(m) = A + R + B /\ \A i \in 1 .. B : m[A + R + i] = b[i]
  BY <1>1, ThreeParts
<1>3. PICK L \in Nat : L = Len(m) /\ L = A + R + B
  BY <1>2
<1>4. x \in Nat /\ 1 <= x /\ x <= L + 1 /\ L <= Len(m) /\ L - x + 1 = B
  BY <1>1, <1>3
<1>5. PICK t \in Seq(Int) : t = SubSeq(m, x, L) /\ Len(t) = B /\ \A k \in 1 .. B : t[k] = m[x + k - 1]
  <2>1. /\ SubSeq(m, x, L) \in Seq(Int) /\ Len(SubSeq(m, x, L)) = L - x + 1
        /\ \A k \in 1 .. L - x + 1 : SubSeq(m, x, L)[k] = m[x + k - 1]
    <3>1. PICK v \in Seq(Int), y \in Nat : v = m /\ y = x
      BY <1>2, <1>4
    <3>2. /\ SubSeq(v, y, L) \in Seq(Int) /\ Len(SubSeq(v, y, L)) = L - y + 1
          /\ \A k \in 1 .. L - y + 1 : SubSeq(v, y, L)[k] = v[y + k - 1]
      <4>1. 1 <= y /\ y <= L + 1 /\ L <= Len(v)
        BY <1>4, <3>1
      <4> QED
        BY <4>1, PieceIs
    <3> QED
      BY <3>1, <3>2
  <2> QED
    BY <1>4, <2>1
<1>6. ASSUME NEW k \in 1 .. B PROVE t[k] = b[k]
  <2>1. x + k - 1 = A + R + k
    BY <1>1
  <2> QED
    BY <1>2, <1>5, <2>1, SMTT(30)
<1>7. t = b
  BY <1>1, <1>5, <1>6, SeqEqual
<1> QED
  BY <1>3, <1>5, <1>7

\* And the first.
LEMMA FirstPart ==
    ASSUME NEW a \in Seq(Int), NEW r \in Seq(Int), NEW b \in Seq(Int), NEW m, m = a \o r \o b,
           NEW x, x = Len(a)
    PROVE  SubSeq(m, 1, x) = a
<1>1. PICK A \in Nat, R \in Nat, B \in Nat : A = Len(a) /\ R = Len(r) /\ B = Len(b)
  OBVIOUS
<1>2. m \in Seq(Int) /\ Len(m) = A + R + B /\ \A i \in 1 .. A : m[i] = a[i]
  BY <1>1, ThreeParts
<1>3. 1 <= A + 1 /\ A <= Len(m) /\ A - 1 + 1 = A
  BY <1>2
<1>4. /\ SubSeq(m, 1, A) \in Seq(Int) /\ Len(SubSeq(m, 1, A)) = A - 1 + 1
      /\ \A k \in 1 .. A - 1 + 1 : SubSeq(m, 1, A)[k] = m[1 + k - 1]
  <2>1. PICK v \in Seq(Int) : v = m
    BY <1>2
  <2>2. 1 <= A + 1 /\ A <= Len(v)
    BY <1>3, <2>1
  <2>3. /\ SubSeq(v, 1, A) \in Seq(Int) /\ Len(SubSeq(v, 1, A)) = A - 1 + 1
        /\ \A k \in 1 .. A - 1 + 1 : SubSeq(v, 1, A)[k] = v[1 + k - 1]
    BY <2>2, PieceIs
  <2> QED
    BY <2>1, <2>3
<1>5. Len(SubSeq(m, 1, A)) = A /\ \A k \in 1 .. A : SubSeq(m, 1, A)[k] = m[k]
  <2>1. ASSUME NEW k \in 1 .. A PROVE SubSeq(m, 1, A)[k] = m[k]
    <3>1. k \in 1 .. A - 1 + 1 /\ 1 + k - 1 = k
      OBVIOUS
    <3>2. SubSeq(m, 1, A)[k] = m[1 + k - 1]
      BY <1>4, <3>1
    <3> QED
      BY <3>1, <3>2
  <2> QED
    BY <1>3, <1>4, <2>1
<1>6. SubSeq(m, 1, A) = a
  BY <1>1, <1>2, <1>4, <1>5, SeqEqual
<1> QED
  BY <1>1, <1>6

\* mark is in none of a text's places.
Unmarked(s) == \A i \in 1 .. Len(s) : s[i] # mark

\* The conjunct of EditsReversible on replacement.
Reverses(s, q) ==
    LET m == string_replace(s, q, <<mark>>)
    IN  Found(m, q, 1) = {} /\ string_replace(m, <<mark>>, q) = s

\* The first occurrence, and the texts around it.
LEMMA ReplaceParts ==
    ASSUME NEW s \in Seq(Int), NEW q \in Seq(Int), Len(q) >= 1, NEW r \in Seq(Int),
           Found(s, q, 1) # {}
    PROVE  \E a, b \in Seq(Int) :
               /\ s = a \o q \o b /\ Len(a) + Len(q) + Len(b) = Len(s)
               /\ string_replace(s, q, r) = a \o r \o string_replace(b, q, r)
               /\ \A j \in 1 .. Len(a) : j \notin Found(s, q, 1)
<1>1. PICK L \in Nat, P \in Nat : L = Len(s) /\ P = Len(q) /\ P >= 1
  OBVIOUS
<1>2. 1 \in 1 .. Len(s) + 1
  BY <1>1
<1>3. PICK k \in Nat : /\ k = Min(Found(s, q, 1)) /\ 1 <= k /\ k + P <= L + 1
                       /\ SubSeq(s, k, k + P - 1) = q
                       /\ \A j \in 1 .. k - 1 : j \notin Found(s, q, 1)
  BY <1>1, <1>2, FoundFirst
<1>4. PICK a : a = SubSeq(s, 1, k - 1)
  OBVIOUS
<1>5. PICK b : b = SubSeq(s, k + P, L)
  OBVIOUS
<1>6. string_replace(s, q, r) = a \o r \o string_replace(b, q, r)
  <2>1. PICK x : x = k + P
    OBVIOUS
  <2>2. string_replace(s, q, r) = SubSeq(s, 1, k - 1) \o r \o string_replace(SubSeq(s, x, Len(s)), q, r)
    <3>1. ReplacesFirst(s, q, r)
      BY ReplaceStep
    <3>2. k = Min(Found(s, q, 1)) /\ x = k + Len(q)
      BY <1>1, <1>3, <2>1
    <3> QED
      BY <3>1, <3>2, Zenon DEF ReplacesFirst
  <2> QED
    BY <1>1, <1>4, <1>5, <2>1, <2>2
<1>7. PICK x \in Nat, y \in Nat, z \in Nat :
          /\ x = k - 1 /\ y = k + P - 1 /\ z = k + P /\ x + 1 = k /\ y + 1 = z
          /\ 1 <= x + 1 /\ x <= y /\ y <= L /\ 1 <= z /\ z <= L + 1 /\ L <= Len(s) /\ x <= Len(s)
  <2>1. /\ k - 1 \in Nat /\ k + P - 1 \in Nat /\ k + P \in Nat
        /\ (k - 1) + 1 = k /\ (k + P - 1) + 1 = k + P /\ 1 <= (k - 1) + 1 /\ k - 1 <= k + P - 1
        /\ k + P - 1 <= L /\ 1 <= k + P /\ k + P <= L + 1 /\ L <= Len(s) /\ k - 1 <= Len(s)
    <3>1. P >= 1 /\ 1 <= k /\ k + P <= L + 1 /\ L = Len(s)
      BY <1>1, <1>3
    <3> QED
      BY <3>1
  <2> QED
    BY <2>1
<1>8. a \in Seq(Int) /\ Len(a) = x
  <2>1. SubSeq(s, 1, x) \in Seq(Int) /\ Len(SubSeq(s, 1, x)) = x - 1 + 1
    BY <1>7, PieceIs
  <2>2. x - 1 + 1 = x
    OBVIOUS
  <2> QED
    BY <1>4, <1>7, <2>1, <2>2
<1>9. b \in Seq(Int) /\ Len(b) = L - z + 1
  <2>1. SubSeq(s, z, L) \in Seq(Int) /\ Len(SubSeq(s, z, L)) = L - z + 1
    BY <1>7, PieceIs
  <2> QED
    BY <1>5, <1>7, <2>1
<1>10. a \o q \o b = s
  <2>1. SubSeq(s, 1, x) \o SubSeq(s, x + 1, y) = SubSeq(s, 1, y)
    <3>1. 1 <= x + 1 /\ x <= y /\ y <= Len(s)
      BY <1>1, <1>7
    <3> QED
      BY <3>1, PieceJoin
  <2>2. SubSeq(s, 1, y) \o SubSeq(s, y + 1, L) = SubSeq(s, 1, L)
    <3>1. 1 <= y + 1 /\ y <= L /\ L <= Len(s)
      BY <1>7
    <3> QED
      BY <3>1, PieceJoin
  <2>3. SubSeq(s, 1, L) = s
    BY <1>1, SubSeqFull
  <2>4. a = SubSeq(s, 1, x) /\ q = SubSeq(s, x + 1, y) /\ b = SubSeq(s, y + 1, L)
    BY <1>3, <1>4, <1>5, <1>7
  <2> QED
    BY <2>1, <2>2, <2>3, <2>4
<1>11. Len(a) + Len(q) + Len(b) = Len(s)
  BY <1>1, <1>7, <1>8, <1>9
<1>12. \A j \in 1 .. Len(a) : j \notin Found(s, q, 1)
  BY <1>3, <1>7, <1>8
<1> QED
  BY <1>6, <1>8, <1>9, <1>10, <1>11, <1>12

\* A replacement leaves no pattern behind and, undone, gives the text again.
LEMMA ReplaceReverses ==
    ASSUME NEW q \in Seq(Int), Len(q) >= 1, Unmarked(q), NEW s \in Seq(Int), Unmarked(s)
    PROVE  Reverses(s, q)
<1>1. PICK r \in Seq(Int) : r = <<mark>> /\ Len(r) = 1 /\ r[1] = mark
  <2>1. mark \in Int
    BY DEF mark
  <2>2. <<mark>> \in Seq(Int) /\ Len(<<mark>>) = 1 /\ <<mark>>[1] = mark
    BY <2>1
  <2> QED
    BY <2>2
<1>2. PICK P \in Nat : P = Len(q) /\ P >= 1
  OBVIOUS
<1> DEFINE Wrong == {t \in Seq(Int) : Unmarked(t) /\ ~Reverses(t, q)}
           Lengths == {Len(t) : t \in Wrong}
<1> SUFFICES ASSUME Wrong # {} PROVE FALSE
  OBVIOUS
<1>3. PICK n \in Lengths : \A y \in Lengths : n <= y
  <2>1. Lengths \in SUBSET Nat /\ Lengths # {}
    <3>1. \A t \in Wrong : Len(t) \in Nat
      OBVIOUS
    <3> HIDE DEF Wrong
    <3> QED
      BY <3>1
  <2> HIDE DEF Lengths
  <2> QED
    BY <2>1, LeastNumber
<1>4. PICK t \in Seq(Int) : Unmarked(t) /\ ~Reverses(t, q) /\ Len(t) = n
  BY <1>3
<1>5. ASSUME NEW b \in Seq(Int), Unmarked(b), Len(b) < Len(t)
      PROVE  Found(string_replace(b, q, r), q, 1) = {} /\ string_replace(string_replace(b, q, r), r, q) = b
  <2>1. Reverses(b, q)
    <3> SUFFICES ASSUME ~Reverses(b, q) PROVE FALSE
      OBVIOUS
    <3>1. b \in Wrong
      BY <1>5
    <3>2. Len(b) \in Lengths
      BY <3>1
    <3>3. n <= Len(b) /\ Len(b) \in Nat /\ Len(t) \in Nat
      BY <1>3, <3>2
    <3> QED
      BY <1>4, <1>5, <3>3
  <2> QED
    BY <1>1, <2>1 DEF Reverses
<1> HIDE DEF Wrong, Lengths
<1>6. PICK m \in Seq(Int) : m = string_replace(t, q, r)
  BY ReplaceStep
<1>7. ~(Found(m, q, 1) = {} /\ string_replace(m, r, q) = t)
  BY <1>1, <1>4, <1>6 DEF Reverses
<1>8. CASE Found(t, q, 1) = {}
  <2>1. m = t
    BY <1>6, <1>8, ReplaceStep
  <2>2. Found(t, r, 1) = {}
    <3> SUFFICES ASSUME NEW j \in Found(t, r, 1) PROVE FALSE
      OBVIOUS
    <3>1. j \in Int
      BY DEF Found
    <3>2. j \in 1 .. Len(t) /\ t[j] = mark
      <4>1. mark \in Int
        BY DEF mark
      <4> QED
        BY <1>1, <3>1, <4>1, FoundOne
    <3> QED
      BY <1>4, <3>2 DEF Unmarked
  <2>3. string_replace(t, r, q) = t
    <3>1. Len(r) >= 1
      BY <1>1
    <3> QED
      BY <2>2, <3>1, ReplaceStep
  <2> QED
    BY <1>7, <1>8, <2>1, <2>3
<1>9. CASE Found(t, q, 1) # {}
  <2>1. PICK a \in Seq(Int), b \in Seq(Int) :
               /\ t = a \o q \o b /\ Len(a) + Len(q) + Len(b) = Len(t)
               /\ string_replace(t, q, r) = a \o r \o string_replace(b, q, r)
               /\ \A j \in 1 .. Len(a) : j \notin Found(t, q, 1)
    BY <1>9, ReplaceParts
  <2>2. PICK A \in Nat, B \in Nat : A = Len(a) /\ B = Len(b) /\ A + P + B = Len(t)
    BY <1>2, <2>1
  <2>3. /\ \A i \in 1 .. A : t[i] = a[i]
        /\ \A i \in 1 .. B : t[A + P + i] = b[i]
    BY <1>2, <2>1, <2>2, ThreeParts
  <2>4. Unmarked(a) /\ Unmarked(b)
    <3>1. ASSUME NEW i \in 1 .. A PROVE a[i] # mark
      <4>1. i \in 1 .. Len(t)
        BY <2>2
      <4> QED
        BY <1>4, <2>3, <4>1 DEF Unmarked
    <3>2. ASSUME NEW i \in 1 .. B PROVE b[i] # mark
      <4>0. 1 <= i /\ i <= B /\ A + P + B = Len(t)
        BY <2>2
      <4>1. A + P + i \in 1 .. Len(t)
        BY <4>0
      <4> QED
        BY <1>4, <2>3, <4>1 DEF Unmarked
    <3> QED
      BY <2>2, <3>1, <3>2 DEF Unmarked
  <2>5. PICK u \in Seq(Int) : u = string_replace(b, q, r) /\ Found(u, q, 1) = {} /\ string_replace(u, r, q) = b
    <3>1. Len(b) < Len(t)
      BY <1>2, <2>2
    <3>2. string_replace(b, q, r) \in Seq(Int)
      BY ReplaceStep
    <3> QED
      BY <1>5, <2>4, <3>1, <3>2
  <2>6. m = a \o r \o u
    BY <1>6, <2>1, <2>5
  <2>7. PICK U \in Nat : U = Len(u)
    OBVIOUS
  <2>8. /\ Len(m) = A + 1 + U /\ m[A + 1] = mark
        /\ \A i \in 1 .. A : m[i] = a[i]
        /\ \A i \in 1 .. U : m[A + 1 + i] = u[i]
    <3>1. /\ Len(m) = Len(a) + Len(r) + Len(u)
          /\ \A i \in 1 .. Len(a) : m[i] = a[i]
          /\ \A i \in 1 .. Len(r) : m[Len(a) + i] = r[i]
          /\ \A i \in 1 .. Len(u) : m[Len(a) + Len(r) + i] = u[i]
      BY <2>6, ThreeParts
    <3> QED
      BY <1>1, <2>2, <2>7, <3>1
  <2>9. Found(m, q, 1) = {}
    <3> SUFFICES ASSUME NEW w \in Found(m, q, 1) PROVE FALSE
      OBVIOUS
    <3>1. PICK j \in Int : j = w /\ j \in Found(m, q, 1)
      BY DEF Found
    <3>2. HasAt(m, q, j)
      BY <3>1, FoundAt
    <3>3. j \in 1 .. (A + 1 + U) - P + 1 /\ \A i \in 1 .. P : m[j + i - 1] = q[i]
      BY <1>2, <2>8, <3>2 DEF HasAt
    <3>4. \A i \in 1 .. P : j + i - 1 # A + 1
      BY <1>2, <2>8, <3>3 DEF Unmarked
    <3>5. j + P - 1 < A + 1 \/ j > A + 1
      <4> SUFFICES ASSUME j + P - 1 >= A + 1, j <= A + 1 PROVE FALSE
        BY <3>3
      <4>1. A + 2 - j \in 1 .. P /\ j + (A + 2 - j) - 1 = A + 1
        BY <3>3
      <4> QED
        BY <3>4, <4>1
    <3>6. CASE j + P - 1 < A + 1
      <4>1. j \in 1 .. Len(t) - P + 1 /\ j \in 1 .. A
        <5>1. j \in Int /\ j >= 1 /\ j + P - 1 < A + 1 /\ P >= 1 /\ Len(t) = A + P + B
          BY <1>2, <2>2, <3>3, <3>6
        <5> QED
          BY <5>1
      <4>2. ASSUME NEW i \in 1 .. P PROVE t[j + i - 1] = q[i]
        <5>1. PICK x \in 1 .. A : x = j + i - 1
          <6>1. j + i - 1 \in 1 .. A
            BY <3>3, <3>6
          <6> QED
            BY <6>1
        <5>2. t[x] = a[x] /\ m[x] = a[x] /\ m[x] = q[i]
          BY <2>3, <2>8, <3>3, <5>1
        <5> QED
          BY <5>1, <5>2
      <4>3. HasAt(t, q, j)
        BY <1>2, <4>1, <4>2 DEF HasAt
      <4>4. j \in Found(t, q, 1)
        BY <4>3, FoundAt
      <4> QED
        BY <2>1, <2>2, <4>1, <4>4
    <3>7. CASE j > A + 1
      <4>1. PICK h \in Int : h = j - (A + 1) /\ h \in 1 .. U - P + 1
        <5>1. j - (A + 1) \in 1 .. U - P + 1
          BY <3>3, <3>7
        <5> QED
          BY <5>1
      <4>2. ASSUME NEW i \in 1 .. P PROVE u[h + i - 1] = q[i]
        <5>1. PICK x \in 1 .. U : x = h + i - 1 /\ A + 1 + x = j + i - 1
          <6>1. h + i - 1 \in 1 .. U /\ A + 1 + (h + i - 1) = j + i - 1
            BY <3>3, <4>1
          <6> QED
            BY <6>1
        <5>2. m[A + 1 + x] = u[x] /\ m[j + i - 1] = q[i]
          BY <2>8, <3>3
        <5> QED
          BY <5>1, <5>2
      <4>3. HasAt(u, q, h)
        BY <1>2, <2>7, <4>1, <4>2 DEF HasAt
      <4>4. h \in Found(u, q, 1)
        BY <4>3, FoundAt
      <4> QED
        BY <2>5, <4>4
    <3> QED
      BY <3>5, <3>6, <3>7
  <2>10. Found(m, r, 1) # {} /\ Min(Found(m, r, 1)) = A + 1
    <3>1. mark \in Int
      BY DEF mark
    <3>2. \A j \in Int : j \in Found(m, r, 1) <=> j \in 1 .. Len(m) /\ m[j] = mark
      BY <1>1, <3>1, FoundOne
    <3>3. A + 1 \in Found(m, r, 1)
      <4>1. A + 1 \in Int /\ A + 1 \in 1 .. Len(m)
        BY <2>8
      <4> QED
        BY <2>8, <3>2, <4>1
    <3>4. PICK F : F = Found(m, r, 1)
      OBVIOUS
    <3>5. F \in SUBSET Nat /\ F # {}
      <4>1. \A j \in F : j \in 1 .. Len(m) - Len(r) + 1
        BY <3>4 DEF Found
      <4>2. \A j \in F : j \in Nat
        BY <4>1
      <4> QED
        BY <3>3, <3>4, <4>2
    <3>6. PICK k \in F : k = Min(F) /\ \A y \in F : k <= y
      BY <3>5, MinNumber
    <3>7. k \in Nat /\ k <= A + 1 /\ k \in 1 .. Len(m) /\ m[k] = mark
      BY <3>2, <3>3, <3>4, <3>5, <3>6
    <3>8. k = A + 1
      <4> SUFFICES ASSUME k # A + 1 PROVE FALSE
        OBVIOUS
      <4>1. k \in 1 .. A
        BY <3>7
      <4>2. m[k] = a[k] /\ a[k] # mark
        BY <2>2, <2>4, <2>8, <4>1 DEF Unmarked
      <4> QED
        BY <3>7, <4>2
    <3> QED
      BY <3>3, <3>4, <3>6, <3>8
  <2>11. string_replace(m, r, q) = a \o q \o b
    <3>1. PICK k \in Nat, x \in Nat : k = A + 1 /\ x = A + 2 /\ k - 1 = A /\ x = k + Len(r)
      <4>1. A + 1 \in Nat /\ A + 2 \in Nat /\ (A + 1) - 1 = A /\ A + 2 = (A + 1) + Len(r)
        BY <1>1
      <4> QED
        BY <4>1
    <3>2. ReplacesFirst(m, r, q)
      <4>1. Len(r) >= 1
        BY <1>1
      <4>2. Found(m, r, 1) # {}
        BY <2>10
      <4> QED
        BY <4>1, <4>2, ReplaceStep
    <3>3. k = Min(Found(m, r, 1))
      BY <2>10, <3>1
    <3>4. string_replace(m, r, q)
              = SubSeq(m, 1, k - 1) \o q \o string_replace(SubSeq(m, x, Len(m)), r, q)
      BY <3>1, <3>2, <3>3, Zenon DEF ReplacesFirst
    <3>5. SubSeq(m, 1, A) = a
      BY <2>2, <2>6, FirstPart
    <3>6. SubSeq(m, x, Len(m)) = u
      <4>1. x = Len(a) + Len(r) + 1
        BY <1>1, <2>2, <3>1
      <4> QED
        BY <2>6, <4>1, ThirdPart
    <3> QED
      BY <2>5, <3>1, <3>4, <3>5, <3>6
  <2> QED
    BY <1>7, <2>1, <2>9, <2>11
<1> QED
  BY <1>8, <1>9

\* s with d for every c.
Mapped(s, c, d) == [i \in 1 .. Len(s) |-> IF s[i] = c THEN d ELSE s[i]]

\* It is a text of the same length.
LEMMA MappedIs ==
    ASSUME NEW s \in Seq(Int), NEW c \in Int, NEW d \in Int
    PROVE  /\ Mapped(s, c, d) \in Seq(Int) /\ Len(Mapped(s, c, d)) = Len(s)
           /\ \A i \in 1 .. Len(s) : Mapped(s, c, d)[i] = IF s[i] = c THEN d ELSE s[i]
<1>1. Len(s) \in Nat /\ \A i \in 1 .. Len(s) : (IF s[i] = c THEN d ELSE s[i]) \in Int
  OBVIOUS
<1>2. PICK m : m = Mapped(s, c, d)
  OBVIOUS
<1>3. m \in [1 .. Len(s) -> Int]
  BY <1>1, <1>2 DEF Mapped
<1>4. m \in Seq(Int) /\ Len(m) = Len(s)
  BY <1>1, <1>3
<1>5. \A i \in 1 .. Len(s) : m[i] = IF s[i] = c THEN d ELSE s[i]
  BY <1>2 DEF Mapped
<1> QED
  BY <1>2, <1>4, <1>5

\* Replacing one character by another.
LEMMA ReplaceCharacter ==
    ASSUME NEW c \in Int, NEW d \in Int, NEW s \in Seq(Int)
    PROVE  string_replace(s, <<c>>, <<d>>) = Mapped(s, c, d)
<1>1. PICK q \in Seq(Int) : q = <<c>> /\ Len(q) = 1 /\ q[1] = c
  <2>1. <<c>> \in Seq(Int) /\ Len(<<c>>) = 1 /\ <<c>>[1] = c
    OBVIOUS
  <2> QED
    BY <2>1
<1>2. PICK r \in Seq(Int) : r = <<d>> /\ Len(r) = 1 /\ r[1] = d
  <2>1. <<d>> \in Seq(Int) /\ Len(<<d>>) = 1 /\ <<d>>[1] = d
    OBVIOUS
  <2> QED
    BY <2>1
<1>3. Len(q) >= 1
  BY <1>1
<1> DEFINE Wrong == {t \in Seq(Int) : string_replace(t, q, r) # Mapped(t, c, d)}
           Lengths == {Len(t) : t \in Wrong}
<1>4. SUFFICES ASSUME Wrong # {} PROVE FALSE
  BY <1>1, <1>2
<1>5. PICK n \in Lengths : \A y \in Lengths : n <= y
  <2>1. Lengths \in SUBSET Nat /\ Lengths # {}
    <3>1. \A t \in Wrong : Len(t) \in Nat
      OBVIOUS
    <3> HIDE DEF Wrong
    <3> QED
      BY <1>4, <3>1
  <2> HIDE DEF Lengths
  <2> QED
    BY <2>1, LeastNumber
<1>6. PICK t \in Seq(Int) : string_replace(t, q, r) # Mapped(t, c, d) /\ Len(t) = n
  BY <1>5
<1>7. ASSUME NEW b \in Seq(Int), Len(b) < Len(t) PROVE string_replace(b, q, r) = Mapped(b, c, d)
  <2> SUFFICES ASSUME string_replace(b, q, r) # Mapped(b, c, d) PROVE FALSE
    OBVIOUS
  <2>1. b \in Wrong
    OBVIOUS
  <2>2. Len(b) \in Lengths
    BY <2>1
  <2>3. n <= Len(b) /\ Len(b) \in Nat /\ Len(t) \in Nat
    BY <1>5, <2>2
  <2> QED
    BY <1>6, <1>7, <2>3
<1> HIDE DEF Wrong, Lengths
<1>8. PICK v \in Seq(Int) : v = Mapped(t, c, d) /\ Len(v) = Len(t)
                            /\ \A i \in 1 .. Len(t) : v[i] = IF t[i] = c THEN d ELSE t[i]
  BY MappedIs
<1>9. \A j \in Int : j \in Found(t, q, 1) <=> j \in 1 .. Len(t) /\ t[j] = c
  BY <1>1, FoundOne
<1>10. CASE Found(t, q, 1) = {}
  <2>1. string_replace(t, q, r) = t
    BY <1>3, <1>10, ReplaceStep
  <2>2. ASSUME NEW i \in 1 .. Len(t) PROVE v[i] = t[i]
    <3>1. t[i] # c
      BY <1>9, <1>10
    <3> QED
      BY <1>8, <3>1
  <2>3. v = t
    BY <1>8, <2>2, SeqEqual
  <2> QED
    BY <1>6, <1>8, <2>1, <2>3
<1>11. CASE Found(t, q, 1) # {}
  <2>1. PICK a \in Seq(Int), b \in Seq(Int) :
               /\ t = a \o q \o b /\ Len(a) + Len(q) + Len(b) = Len(t)
               /\ string_replace(t, q, r) = a \o r \o string_replace(b, q, r)
               /\ \A j \in 1 .. Len(a) : j \notin Found(t, q, 1)
    BY <1>3, <1>11, ReplaceParts
  <2>2. PICK A \in Nat, B \in Nat : A = Len(a) /\ B = Len(b) /\ A + 1 + B = Len(t)
    BY <1>1, <2>1
  <2>3. /\ \A i \in 1 .. A : t[i] = a[i]
        /\ t[A + 1] = c
        /\ \A i \in 1 .. B : t[A + 1 + i] = b[i]
    <3>1. /\ \A i \in 1 .. Len(a) : t[i] = a[i]
          /\ \A i \in 1 .. Len(q) : t[Len(a) + i] = q[i]
          /\ \A i \in 1 .. Len(b) : t[Len(a) + Len(q) + i] = b[i]
      BY <2>1, ThreeParts
    <3> QED
      BY <1>1, <2>2, <3>1
  <2>4. PICK u \in Seq(Int) : /\ u = string_replace(b, q, r) /\ Len(u) = B
                              /\ \A i \in 1 .. B : u[i] = IF b[i] = c THEN d ELSE b[i]
    <3>1. Len(b) < Len(t)
      BY <2>2
    <3>2. string_replace(b, q, r) = Mapped(b, c, d)
      BY <1>7, <3>1
    <3>3. /\ Mapped(b, c, d) \in Seq(Int) /\ Len(Mapped(b, c, d)) = Len(b)
          /\ \A i \in 1 .. Len(b) : Mapped(b, c, d)[i] = IF b[i] = c THEN d ELSE b[i]
      BY MappedIs
    <3> QED
      BY <2>2, <3>2, <3>3
  <2>5. PICK m \in Seq(Int) : m = string_replace(t, q, r)
    BY <1>3, ReplaceStep
  <2>6. /\ Len(m) = A + 1 + B
        /\ \A i \in 1 .. A : m[i] = a[i]
        /\ m[A + 1] = d
        /\ \A i \in 1 .. B : m[A + 1 + i] = u[i]
    <3>1. m = a \o r \o u
      BY <2>1, <2>4, <2>5
    <3>2. /\ Len(m) = Len(a) + Len(r) + Len(u)
          /\ \A i \in 1 .. Len(a) : m[i] = a[i]
          /\ \A i \in 1 .. Len(r) : m[Len(a) + i] = r[i]
          /\ \A i \in 1 .. Len(u) : m[Len(a) + Len(r) + i] = u[i]
      BY <3>1, ThreeParts
    <3> QED
      <4>1. Len(a) = A /\ Len(r) = 1 /\ Len(u) = B /\ r[1] = d /\ 1 \in 1 .. 1
        BY <1>2, <2>2, <2>4
      <4>2. m[A + 1] = d
        BY <3>2, <4>1
      <4> QED
        BY <3>2, <4>1, <4>2
  <2>7. ASSUME NEW i \in 1 .. A + 1 + B PROVE m[i] = v[i]
    <3>0. i \in 1 .. Len(t) /\ v[i] = IF t[i] = c THEN d ELSE t[i]
      BY <1>8, <2>2
    <3>1. CASE i <= A
      <4>1. i \in 1 .. A
        BY <3>1
      <4>2. t[i] # c
        BY <1>9, <2>1, <2>2, <3>0, <4>1
      <4> QED
        BY <2>3, <2>6, <3>0, <4>1, <4>2
    <3>2. CASE i = A + 1
      BY <2>3, <2>6, <3>0, <3>2
    <3>3. CASE i > A + 1
      <4>1. PICK j \in 1 .. B : i = A + 1 + j
        <5>1. i - (A + 1) \in 1 .. B /\ i = A + 1 + (i - (A + 1))
          BY <3>3
        <5> QED
          BY <5>1
      <4>2. m[i] = u[j] /\ t[i] = b[j] /\ u[j] = IF b[j] = c THEN d ELSE b[j]
        BY <2>3, <2>4, <2>6, <4>1
      <4> QED
        BY <3>0, <4>2
    <3>4. i <= A \/ i = A + 1 \/ i > A + 1
      OBVIOUS
    <3> QED
      BY <3>1, <3>2, <3>3, <3>4
  <2>8. m = v
    <3>1. Len(m) = Len(v) /\ \A i \in 1 .. Len(m) : m[i] = v[i]
      BY <1>8, <2>2, <2>6, <2>7
    <3> QED
      BY <3>1, SeqEqual
  <2> QED
    BY <1>6, <1>8, <2>5, <2>8
<1> QED
  BY <1>10, <1>11

\* Which places of a text c is in.
Lacks(s, c) == \A i \in 1 .. Len(s) : s[i] # c

\* A path for a Windows guest has no slash and gives the path for the others
\* again, unless the parts have a backslash.
LEMMA TempPath ==
    ASSUME NEW f \in Seq(Int), NEW s \in Seq(Int)
    PROVE  LET w == make_temp_path(f, s, TRUE)
           IN  /\ slash \notin ToSet(w)
               /\ Lacks(f, backslash) /\ Lacks(s, backslash) =>
                    make_temp_path(f, s, FALSE) = string_replace(w, <<backslash>>, <<slash>>)
<1>1. slash \in Int /\ backslash \in Int /\ slash # backslash
  BY DEF slash, backslash
<1>2. PICK path : path = IF f = <<>> \/ EndsIn(f, slash) THEN f \o s ELSE f \o <<slash>> \o s
  OBVIOUS
<1>3. PICK r \in Seq(Int) : r = <<slash>> /\ Len(r) = 1 /\ r[1] = slash
  <2>1. <<slash>> \in Seq(Int) /\ Len(<<slash>>) = 1 /\ <<slash>>[1] = slash
    BY <1>1
  <2> QED
    BY <2>1
<1>4. path \in Seq(Int) /\ (Lacks(f, backslash) /\ Lacks(s, backslash) => Lacks(path, backslash))
  <2>1. CASE f = <<>> \/ EndsIn(f, slash)
    <3>1. path = f \o s
      BY <1>2, <2>1
    <3>2. /\ path \in Seq(Int) /\ Len(path) = Len(f) + Len(s)
          /\ \A i \in 1 .. Len(f) + Len(s) : path[i] = IF i <= Len(f) THEN f[i] ELSE s[i - Len(f)]
      BY <3>1, ConcatProperties
    <3>3. ASSUME Lacks(f, backslash), Lacks(s, backslash), NEW i \in 1 .. Len(path) PROVE path[i] # backslash
      <4>1. PICK F \in Nat, S \in Nat : F = Len(f) /\ S = Len(s)
        OBVIOUS
      <4>2. CASE i <= F
        <5>1. i \in 1 .. F
          BY <3>2, <4>1, <4>2
        <5> QED
          BY <3>2, <3>3, <4>1, <4>2, <5>1 DEF Lacks
      <4>3. CASE ~(i <= F)
        <5>1. PICK j \in 1 .. S : j = i - F
          <6>1. i - F \in 1 .. S
            BY <3>2, <4>1, <4>3
          <6> QED
            BY <6>1
        <5> QED
          BY <3>2, <3>3, <4>1, <4>3, <5>1 DEF Lacks
      <4> QED
        BY <4>2, <4>3
    <3> QED
      BY <3>2, <3>3 DEF Lacks
  <2>2. CASE ~(f = <<>> \/ EndsIn(f, slash))
    <3>1. path = f \o r \o s
      BY <1>2, <1>3, <2>2
    <3>2. PICK F \in Nat, S \in Nat : F = Len(f) /\ S = Len(s)
      OBVIOUS
    <3>3. /\ path \in Seq(Int) /\ Len(path) = F + 1 + S
          /\ \A i \in 1 .. F : path[i] = f[i]
          /\ path[F + 1] = slash
          /\ \A i \in 1 .. S : path[F + 1 + i] = s[i]
      <4>1. /\ path \in Seq(Int) /\ Len(path) = Len(f) + Len(r) + Len(s)
            /\ \A i \in 1 .. Len(f) : path[i] = f[i]
            /\ \A i \in 1 .. Len(r) : path[Len(f) + i] = r[i]
            /\ \A i \in 1 .. Len(s) : path[Len(f) + Len(r) + i] = s[i]
        BY <3>1, ThreeParts
      <4> QED
        BY <1>3, <3>2, <4>1
    <3>4. ASSUME Lacks(f, backslash), Lacks(s, backslash), NEW i \in 1 .. F + 1 + S PROVE path[i] # backslash
      <4>1. CASE i <= F
        <5>1. i \in 1 .. F
          BY <4>1
        <5> QED
          BY <3>2, <3>3, <3>4, <5>1 DEF Lacks
      <4>2. CASE i = F + 1
        BY <1>1, <3>3, <4>2
      <4>3. CASE i > F + 1
        <5>1. PICK j \in 1 .. S : i = F + 1 + j
          <6>1. i - (F + 1) \in 1 .. S /\ i = F + 1 + (i - (F + 1))
            BY <4>3
          <6> QED
            BY <6>1
        <5> QED
          BY <3>2, <3>3, <3>4, <5>1 DEF Lacks
      <4>4. i <= F \/ i = F + 1 \/ i > F + 1
        OBVIOUS
      <4> QED
        BY <4>1, <4>2, <4>3, <4>4
    <3> QED
      BY <3>3, <3>4 DEF Lacks
  <2> QED
    BY <2>1, <2>2
<1>5. PICK p \in Seq(Int) : p = path
  BY <1>4
<1>6. PICK w \in Seq(Int) : /\ w = make_temp_path(f, s, TRUE) /\ Len(w) = Len(p)
                            /\ \A i \in 1 .. Len(p) : w[i] = IF p[i] = slash THEN backslash ELSE p[i]
  <2>1. make_temp_path(f, s, TRUE) = string_replace(p, <<slash>>, <<backslash>>)
    BY <1>2, <1>5 DEF make_temp_path
  <2>2. make_temp_path(f, s, TRUE) = Mapped(p, slash, backslash)
    BY <1>1, <2>1, ReplaceCharacter
  <2>3. /\ Mapped(p, slash, backslash) \in Seq(Int) /\ Len(Mapped(p, slash, backslash)) = Len(p)
        /\ \A i \in 1 .. Len(p) : Mapped(p, slash, backslash)[i] = IF p[i] = slash THEN backslash ELSE p[i]
    BY <1>1, MappedIs
  <2> QED
    BY <2>2, <2>3
<1>7. slash \notin ToSet(w)
  <2>1. ToSet(w) = {w[i] : i \in 1 .. Len(w)}
    BY ToSetIs
  <2> QED
    BY <1>1, <1>6, <2>1
<1>8. ASSUME Lacks(f, backslash), Lacks(s, backslash)
      PROVE  make_temp_path(f, s, FALSE) = string_replace(w, <<backslash>>, <<slash>>)
  <2>1. Lacks(p, backslash)
    BY <1>4, <1>5, <1>8
  <2>2. PICK u \in Seq(Int) : /\ u = make_temp_path(f, s, FALSE) /\ Len(u) = Len(p)
                              /\ \A i \in 1 .. Len(p) : u[i] = IF p[i] = slash THEN slash ELSE p[i]
    <3>1. make_temp_path(f, s, FALSE) = string_replace(p, <<slash>>, <<slash>>)
      BY <1>2, <1>5 DEF make_temp_path
    <3>2. make_temp_path(f, s, FALSE) = Mapped(p, slash, slash)
      BY <1>1, <3>1, ReplaceCharacter
    <3>3. /\ Mapped(p, slash, slash) \in Seq(Int) /\ Len(Mapped(p, slash, slash)) = Len(p)
          /\ \A i \in 1 .. Len(p) : Mapped(p, slash, slash)[i] = IF p[i] = slash THEN slash ELSE p[i]
      BY <1>1, MappedIs
    <3> QED
      BY <3>2, <3>3
  <2>3. PICK v \in Seq(Int) : /\ v = string_replace(w, <<backslash>>, <<slash>>) /\ Len(v) = Len(w)
                              /\ \A i \in 1 .. Len(w) : v[i] = IF w[i] = backslash THEN slash ELSE w[i]
    <3>2. string_replace(w, <<backslash>>, <<slash>>) = Mapped(w, backslash, slash)
      BY <1>1, ReplaceCharacter
    <3>3. /\ Mapped(w, backslash, slash) \in Seq(Int) /\ Len(Mapped(w, backslash, slash)) = Len(w)
          /\ \A i \in 1 .. Len(w) : Mapped(w, backslash, slash)[i] = IF w[i] = backslash THEN slash ELSE w[i]
      BY <1>1, MappedIs
    <3> QED
      BY <3>2, <3>3
  <2>4. ASSUME NEW i \in 1 .. Len(p) PROVE u[i] = v[i]
    <3>1. p[i] # backslash
      BY <2>1 DEF Lacks
    <3> QED
      BY <1>1, <1>6, <2>2, <2>3, <3>1
  <2>5. u = v
    <3>1. Len(u) = Len(v) /\ \A i \in 1 .. Len(u) : u[i] = v[i]
      BY <1>6, <2>2, <2>3, <2>4
    <3> QED
      BY <3>1, SeqEqual
  <2> QED
    BY <2>2, <2>3, <2>5
<1> QED
  BY <1>6, <1>7, <1>8

-----------------------------------------------------------------------------
(* Theorems.                                                               *)

\* Inputs are made of their symbols.
TextInv ==
    /\ kind \in Kind
    /\ kind = "text" => input \in Seq(Letter)
    /\ kind = "bytes" => input \in Seq(Byte)
    /\ kind = "chars" => input \in Seq(Char)
    /\ kind = "calls" => input \in Seq(Call)
    /\ kind = "lines" => input \in Seq(LineChar)

\* Whatever the symbols and the bound, an input is a sequence of its symbols.
THEOREM TextInvariant == Spec => []TextInv
<1>1. Init => TextInv
  BY DEF Init, TextInv
<1>2. TextInv /\ [Next]_vars => TextInv'
  <2> SUFFICES ASSUME TextInv, [Next]_vars PROVE TextInv'
    OBVIOUS
  <2>1. ASSUME NEW c \in Symbol, extend(c) PROVE TextInv'
    <3>1. /\ kind = "text" => c \in Letter
          /\ kind = "bytes" => c \in Byte
          /\ kind = "chars" => c \in Char
          /\ kind = "calls" => c \in Call
          /\ kind = "lines" => c \in LineChar
      BY <2>1 DEF Symbol
    <3> QED
      BY <2>1, <3>1 DEF extend, TextInv
  <2>2. CASE UNCHANGED vars
    BY <2>2 DEF vars, TextInv
  <2> QED
    BY <2>1, <2>2 DEF Next, longest
<1> QED
  BY <1>1, <1>2, PTL DEF Spec

\* The comparisons of string.cpp agree with each other and with the search for
\* prefixes, suffixes and parts, for texts of every length.
THEOREM TextComparesConsistently == Spec => []ComparesConsistently
<1>1. ASSUME TextInv PROVE ComparesConsistently
  <2> SUFFICES ASSUME kind = "text", NEW i \in 0 .. Len(input), NEW j \in 0 .. Len(input), i <= j
               PROVE  LET s == Part(0, i) t == Part(i, j) u == Part(j, Len(input))
                          c == string_compare_ci(s, t)
                      IN  /\ c = -string_compare_ci(t, s)
                          /\ c = -1 <=> string_compare_less_ci(s, t)
                          /\ c = 0 <=> string_equals_ci(s, t)
                          /\ c <= 0 /\ string_compare_ci(t, u) <= 0
                              => string_compare_ci(s, u) <= 0
                          /\ c = 0 => string_contains_ci(s, t) /\ string_contains_ci(t, s)
                          /\ t # <<>> => string_contains_ci(t, input)
                          /\ string_starts_with(input, s)
                          /\ u # <<>> => string_ends_with(input, u)
                          /\ string_starts_with(s, t) <=> IsPrefix(t, s)
    BY DEF ComparesConsistently
  <2> DEFINE s == Part(0, i)
             t == Part(i, j)
             u == Part(j, Len(input))
             c == string_compare_ci(s, t)
  <2>1. input \in Seq(Int)
    <3>1. Letter \subseteq Int
      BY TextAssumption
    <3>2. input \in Seq(Letter)
      BY <1>1 DEF TextInv
    <3> QED
      BY <3>1, <3>2, SeqMonotonic
  <2>2. Len(input) \in Nat /\ 0 \in 0 .. Len(input) /\ Len(input) \in 0 .. Len(input) /\ 0 <= i /\ j <= Len(input)
    BY <2>1
  <2>3. s \in Seq(Int)
    BY <2>1, <2>2, PartOf DEF Part
  <2>4. t \in Seq(Int) /\ Len(t) = j - i
    BY <2>1, <2>2, PartOf DEF Part
  <2>5. u \in Seq(Int)
    BY <2>1, <2>2, PartOf DEF Part
  <2>6. t # <<>> => string_contains_ci(t, input)
    <3>1. t # <<>> => i < j
      BY <2>2, <2>4
    <3> QED
      BY <2>1, <3>1, ContainsPart DEF Part
  <2>7. string_starts_with(input, s) /\ string_ends_with(input, u)
    BY <2>1, EndsFound DEF Part
  <2> HIDE DEF s, t, u, c
  <2>8. /\ c \in {-1, 0, 1}
        /\ c = -1 <=> string_compare_less_ci(s, t)
        /\ c = 1 <=> string_compare_less_ci(t, s)
        /\ c = 0 <=> string_equals_ci(s, t)
    BY <2>3, <2>4, CompareCases DEF c
  <2>9. /\ string_compare_ci(t, s) \in {-1, 0, 1}
        /\ string_compare_ci(t, s) = -1 <=> string_compare_less_ci(t, s)
        /\ string_compare_ci(t, s) = 1 <=> string_compare_less_ci(s, t)
    BY <2>3, <2>4, CompareCases
  <2>10. c = -string_compare_ci(t, s)
    BY <2>8, <2>9
  <2>11. c <= 0 /\ string_compare_ci(t, u) <= 0 => string_compare_ci(s, u) <= 0
    <3>1. /\ string_compare_ci(t, u) \in {-1, 0, 1}
          /\ string_compare_ci(t, u) = -1 <=> string_compare_less_ci(t, u)
          /\ string_compare_ci(t, u) = 0 <=> string_equals_ci(t, u)
      BY <2>4, <2>5, CompareCases
    <3>2. /\ string_compare_ci(s, u) = -1 <=> string_compare_less_ci(s, u)
          /\ string_compare_ci(s, u) = 0 <=> string_equals_ci(s, u)
      BY <2>3, <2>5, CompareCases
    <3>3. SUFFICES ASSUME c <= 0, string_compare_ci(t, u) <= 0 PROVE string_compare_ci(s, u) <= 0
      OBVIOUS
    <3>4. c \in {-1, 0} /\ string_compare_ci(t, u) \in {-1, 0}
      BY <2>8, <3>1, <3>3
    <3>5. string_compare_less_ci(s, u) \/ string_equals_ci(s, u)
      BY <2>3, <2>4, <2>5, <2>8, <3>1, <3>4, LessTransitive
    <3> QED
      BY <3>2, <3>5
  <2>12. c = 0 => string_contains_ci(s, t) /\ string_contains_ci(t, s)
    <3>1. string_equals_ci(s, t) <=> string_equals_ci(t, s)
      BY DEF string_equals_ci
    <3> QED
      BY <2>3, <2>4, <2>8, <3>1, ContainsEqual
  <2>13. string_starts_with(s, t) <=> IsPrefix(t, s)
    BY <2>3, <2>4, StartsWithPrefix
  <2> QED
    BY <2>6, <2>7, <2>8, <2>10, <2>11, <2>12, <2>13 DEF s, t, u, c
<1> QED
  BY <1>1, TextInvariant, PTL

\* For inputs of every length, base64_encode computes the reference and
\* base64_decode takes it back; calc_decoded_length lets pass exactly the
\* well-formed strings, and what they decode to has the length that was
\* computed and encodes to the string again, but for the unused bits of its
\* last character.
THEOREM TextBase64Reference == Spec => []Base64Reference
<1>1. ASSUME TextInv PROVE Base64Reference
  <2>1. ASSUME kind = "bytes"
        PROVE  LET e == base64_encode(input)
               IN  e = Reference(input) /\ ~calc_throws(e) /\ base64_decode(e) = input
    <3>1. Byte \subseteq 0 .. 255 /\ input \in Seq(Byte)
      BY <1>1, <2>1, TextAssumption DEF TextInv
    <3>2. input \in Seq(0 .. 255)
      <4> DEFINE S == 0 .. 255
      <4> HIDE DEF S
      <4>1. Byte \subseteq S
        BY <3>1 DEF S
      <4>2. input \in Seq(S)
        BY <3>1, <4>1, SeqMonotonic
      <4> QED
        BY <4>2 DEF S
    <3> QED
      BY <3>2, EncodesReference, ReferenceDecodes
  <2>2. ASSUME kind = "chars"
        PROVE  /\ ~calc_throws(input) <=> WellFormed(input)
               /\ ~calc_throws(input) =>
                   LET d == base64_decode(input)
                       last == Len(input) - pad_length(input)
                   IN  /\ remaining(input) # 1
                       /\ Len(d) = decoded_length(input)
                       /\ \A i \in 1 .. Len(input) :
                           i # last => Reference(d)[i] = input[i]
    <3>1. Char \subseteq 0 .. 255 /\ input \in Seq(Char)
      BY <1>1, <2>2, TextAssumption DEF TextInv
    <3>2. input \in Seq(0 .. 255)
      <4> DEFINE S == 0 .. 255
      <4> HIDE DEF S
      <4>1. Char \subseteq S
        BY <3>1 DEF S
      <4>2. input \in Seq(S)
        BY <3>1, <4>1, SeqMonotonic
      <4> QED
        BY <4>2 DEF S
    <3>3. ~calc_throws(input) <=> WellFormed(input)
      BY <3>2, EncodedPasses, EncodedWellFormed, PassesEncoded
    <3>4. SUFFICES ASSUME ~calc_throws(input)
                   PROVE  /\ remaining(input) # 1
                          /\ Len(base64_decode(input)) = decoded_length(input)
                          /\ \A i \in 1 .. Len(input) : i # Len(input) - pad_length(input) =>
                                Reference(base64_decode(input))[i] = input[i]
      BY <3>3
    <3>5. PICK n \in Nat, p \in 0 .. 2 : Encoded(input, n, p)
      BY <3>2, <3>4, PassesEncoded
    <3>6. Len(input) = 4 * n /\ pad_length(input) = p
      BY <3>2, <3>5, EncodedPasses DEF Encoded
    <3>7. remaining(input) # 1
      BY <3>6 DEF remaining
    <3>8. Len(base64_decode(input)) = decoded_length(input)
      <4>1. Len(base64_decode(input)) = 3 * n - p
        BY <3>2, <3>5, Decodes
      <4>2. (4 * n) \div 4 = n
        OBVIOUS
      <4> QED
        BY <3>6, <4>1, <4>2 DEF decoded_length
    <3>9. ASSUME NEW i \in 1 .. Len(input), i # Len(input) - pad_length(input)
          PROVE  Reference(base64_decode(input))[i] = input[i]
      BY <3>2, <3>5, <3>6, <3>9, DecodedReference
    <3> QED
      BY <3>7, <3>8, <3>9
  <2> QED
    BY <2>1, <2>2 DEF Base64Reference
<1> QED
  BY <1>1, TextInvariant, PTL

\* Streams of every kind, whatever the calls and however many: what the
\* wrapper of a stream delivers stays in the window, reads and tells get the
\* window once and in order, and read_line and read_stream_as_string return
\* what they should.
THEOREM TextStreamsDeliver == Spec => []StreamsDeliver
<1>1. ASSUME TextInv PROVE StreamsDeliver
  <2>1. ASSUME kind = "calls", NEW len \in StreamLength, NEW pos \in 0 .. len, NEW s \in Opened(len, pos)
        PROVE  LET r == After(s, input)
                   w == Window(s, pos)
                   asked == FoldLeft(+, 0, input)
               IN  /\ s.size # Unknown => ToSet(r.all) \subseteq w
                   /\ ToSet(input) \subseteq Nat =>
                       /\ r.all = [i \in 1 .. Min({asked, Cardinality(w)}) |-> pos + i - 1]
                       /\ asked > Cardinality(w) /\ s.buf # "pipe" => r.stream.eof
    <3>1. len \in Nat /\ pos \in Nat
      BY <2>1 DEF StreamLength
    <3>2. input \in Seq(Int)
      <4>1. Call \subseteq Int /\ input \in Seq(Call)
        BY <1>1, <2>1, TextAssumption DEF TextInv
      <4> QED
        BY <4>1, SeqMonotonic
    <3>3. PICK n \in Nat : /\ Opening(s, pos, n) /\ Reached(s, s, pos, n, 0)
                           /\ Window(s, pos) = pos .. pos + n - 1
                           /\ Cardinality(Window(s, pos)) = n
      BY <2>1, <3>1, OpenedIs
    <3>4. PICK r : r = After(s, input)
      OBVIOUS
    <3>5. s.size # Unknown => ToSet(r.all) \subseteq Window(s, pos)
      <4> SUFFICES ASSUME s.size # Unknown PROVE ToSet(r.all) \subseteq Window(s, pos)
        OBVIOUS
      <4>1. Inside(r.all, pos, n)
        BY <3>1, <3>2, <3>3, <3>4, WindowIsKept DEF Unknown
      <4> QED
        BY <3>3, <4>1 DEF Inside, ToSet
    <3>6. ASSUME ToSet(input) \subseteq Nat
          PROVE  /\ r.all = [i \in 1 .. Min({FoldLeft(+, 0, input), n}) |-> pos + i - 1]
                 /\ FoldLeft(+, 0, input) > n /\ s.buf # "pipe" => r.stream.eof
      <4>1. input \in Seq(Nat)
        BY <3>2, <3>6 DEF ToSet
      <4>2. PICK a : a = FoldLeft(+, 0, input)
        OBVIOUS
      <4>3. Delivered(r, s, pos, n, a)
        BY <3>1, <3>3, <3>4, <4>1, <4>2, WindowIsRead
      <4>4. a \in Nat /\ r.all = BytesFrom(pos, Within(a, n)) /\ Reached(r.stream, s, pos, n, a)
        BY <4>3 DEF Delivered
      <4>5. Min({a, n}) = Within(a, n)
        BY <4>4, MinOfTwo DEF Within
      <4>6. r.all = [i \in 1 .. Min({a, n}) |-> pos + i - 1]
        BY <4>4, <4>5 DEF BytesFrom
      <4>7. a > n /\ s.buf # "pipe" => r.stream.eof
        BY <4>4 DEF Reached, Same
      <4> QED
        BY <4>2, <4>6, <4>7
    <3> QED
      BY <3>3, <3>4, <3>5, <3>6
  <2>2. ASSUME kind = "lines", NEW s \in Opened(Len(input), 0), s.buf # "pipe", s.size \in {Unknown, Len(input)}
        PROVE  LET r == read_line(s, input)
                   first == FirstLine(input)
               IN  /\ r.state = "bad" <=> first.bad
                   /\ r.state # "bad" => r.line = first.line
                   /\ r.state = "done" => r.stream.pos = first.next
                   /\ \A n \in 0 .. Len(input) + 1 :
                       read_stream_as_string(s, n) =
                           IF Len(input) \in 1 .. n THEN {[i \in 1 .. Len(input) |-> i - 1]} ELSE {}
    <3>1. input \in Seq(Int) /\ Len(input) \in Nat
      <4>1. LineChar \subseteq Int /\ input \in Seq(LineChar)
        BY <1>1, <2>2 DEF TextInv, LineChar, cr, lf
      <4>2. input \in Seq(Int)
        BY <4>1, SeqMonotonic
      <4> QED
        BY <4>2
    <3>2. /\ Opening(s, 0, Len(input)) /\ Reached(s, s, 0, Len(input), 0)
          /\ s.size = Unknown => Len(input) = 0
      BY <2>2, <3>1, OpenedWhole
    <3>3. ASSUME NEW n \in 0 .. Len(input) + 1
          PROVE  read_stream_as_string(s, n) =
                     IF Len(input) \in 1 .. n THEN {[i \in 1 .. Len(input) |-> i - 1]} ELSE {}
      <4>1. n \in Nat
        BY <3>1
      <4>2. read_stream_as_string(s, n) = IF Len(input) \in 1 .. n THEN {BytesFrom(0, Len(input))} ELSE {}
        BY <2>2, <3>1, <3>2, <4>1, StringIsRead
      <4>3. BytesFrom(0, Len(input)) = [i \in 1 .. Len(input) |-> i - 1]
        <5>1. \A i \in 1 .. Len(input) : 0 + i - 1 = i - 1
          BY <3>1
        <5> QED
          BY <5>1 DEF BytesFrom
      <4> QED
        BY <4>2, <4>3
    <3> QED
      BY <3>1, <3>2, <3>3, LineIsRead
  <2> QED
    BY <2>1, <2>2 DEF StreamsDeliver
<1> QED
  BY <1>1, TextInvariant, PTL

\* For texts of every length: trimming takes blanks from the ends and nothing
\* else; the tokens of a split hold no separator and give the text again; a
\* replacement leaves no pattern behind and can be undone; and the joined
\* paths, labels, temporary paths and tokens that are built from them are what
\* their callers rely on.
THEOREM TextEditsReversible == Spec => []EditsReversible
<1>1. ASSUME TextInv PROVE EditsReversible
  <2>1. SUFFICES ASSUME kind = "text" PROVE EditsReversible
    BY DEF EditsReversible
  <2>2. input \in Seq(Letter) /\ Letter \subseteq 0 .. 127
    BY <1>1, <2>1, TextAssumption DEF TextInv
  <2>3. input \in Seq(Int)
    <3>1. Letter \subseteq Int
      BY <2>2
    <3> QED
      BY <2>2, <3>1, SeqMonotonic
  <2>4. \A k \in 1 .. Len(input) : input[k] # mark
    <3>1. ASSUME NEW k \in 1 .. Len(input) PROVE input[k] \in 0 .. 127
      <4>1. input[k] \in Letter
        BY <2>2, ElementOfSeq
      <4> QED
        BY <2>2, <4>1, Zenon
    <3>2. ~(mark \in 0 .. 127)
      BY SMT DEF mark
    <3> QED
      BY <3>1, <3>2
  <2>5. TrimsEnds(input) /\ SplitsTokens(input)
    BY <2>3, Trims, Splits
  <2>6. PICK n \in Nat : n = Len(input)
    BY <2>3
  <2>7. ASSUME NEW i \in 0 .. Len(input)
        PROVE  /\ Part(0, i) \in Seq(Int) /\ Len(Part(0, i)) = i
               /\ Part(i, Len(input)) \in Seq(Int)
               /\ \A c : Lacks(input, c) => Lacks(Part(0, i), c) /\ Lacks(Part(i, Len(input)), c)
    <3>1. 0 \in 0 .. Len(input) /\ 0 <= i /\ n \in 0 .. Len(input) /\ i <= n /\ i - 0 = i
      BY <2>6
    <3>2. PICK q : q = Part(0, i)
      OBVIOUS
    <3>3. q \in Seq(Int) /\ Len(q) = i - 0 /\ \A k \in 1 .. i - 0 : q[k] = input[0 + k]
      BY <2>3, <3>1, <3>2, PartOf DEF Part
    <3>4. PICK s : s = Part(i, n)
      OBVIOUS
    <3>5. s \in Seq(Int) /\ Len(s) = n - i /\ \A k \in 1 .. n - i : s[k] = input[i + k]
      BY <2>3, <3>1, <3>4, PartOf DEF Part
    <3>6. ASSUME NEW c, Lacks(input, c) PROVE Lacks(q, c) /\ Lacks(s, c)
      <4>1. ASSUME NEW k \in 1 .. Len(q) PROVE q[k] # c
        <5>1. k \in 1 .. i - 0 /\ 0 + k \in 1 .. Len(input)
          BY <2>6, <3>3
        <5> QED
          BY <3>3, <3>6, <5>1 DEF Lacks
      <4>2. ASSUME NEW k \in 1 .. Len(s) PROVE s[k] # c
        <5>1. k \in 1 .. n - i /\ i + k \in 1 .. Len(input)
          BY <2>6, <3>5
        <5> QED
          BY <3>5, <3>6, <5>1 DEF Lacks
      <4> QED
        BY <4>1, <4>2 DEF Lacks
    <3> QED
      BY <2>6, <3>1, <3>2, <3>3, <3>4, <3>5, <3>6
  <2>8. ASSUME NEW i \in 1 .. Len(input)
        PROVE  Reverses(Part(i, Len(input)), Part(0, i))
    <3>1. i \in 0 .. Len(input) /\ i >= 1
      BY <2>6
    <3>2. PICK q \in Seq(Int) : q = Part(0, i) /\ Len(q) >= 1
      BY <2>7, <3>1
    <3>3. PICK s \in Seq(Int) : s = Part(i, Len(input))
      BY <2>7, <3>1
    <3>4. Unmarked(q) /\ Unmarked(s)
      <4>1. Lacks(input, mark)
        BY <2>4 DEF Lacks
      <4>2. Lacks(q, mark) /\ Lacks(s, mark)
        BY <2>7, <3>1, <3>2, <3>3, <4>1
      <4> QED
        BY <4>2 DEF Lacks, Unmarked
    <3>5. Reverses(s, q)
      BY <3>2, <3>4, ReplaceReverses
    <3> QED
      BY <3>2, <3>3, <3>5
  <2>9. ASSUME NEW i \in 0 .. Len(input)
        PROVE  LET f == Part(0, i) s == Part(i, Len(input))
                   w == make_temp_path(f, s, TRUE)
               IN  /\ http_path_join(f, s) =
                        (IF EndsIn(f, slash) THEN Front(f) ELSE f) \o <<slash>>
                        \o (IF BeginsWith(s, slash) THEN Tail(s) ELSE s)
                   /\ slash \notin ToSet(w)
                   /\ backslash \notin ToSet(input) =>
                        make_temp_path(f, s, FALSE) = string_replace(w, <<backslash>>, <<slash>>)
    <3>1. PICK f \in Seq(Int), s \in Seq(Int) : f = Part(0, i) /\ s = Part(i, Len(input))
      BY <2>7
    <3>2. http_path_join(f, s) = (IF EndsIn(f, slash) THEN Front(f) ELSE f) \o <<slash>>
                                 \o (IF BeginsWith(s, slash) THEN Tail(s) ELSE s)
      BY PathJoins
    <3>3. PICK w : w = make_temp_path(f, s, TRUE)
      OBVIOUS
    <3>4. /\ slash \notin ToSet(w)
          /\ Lacks(f, backslash) /\ Lacks(s, backslash) =>
                make_temp_path(f, s, FALSE) = string_replace(w, <<backslash>>, <<slash>>)
      BY <3>3, TempPath
    <3>5. backslash \notin ToSet(input) => Lacks(f, backslash) /\ Lacks(s, backslash)
      <4>1. ToSet(input) = {input[k] : k \in 1 .. Len(input)}
        BY <2>3, ToSetIs
      <4>2. backslash \notin ToSet(input) => Lacks(input, backslash)
        BY <4>1 DEF Lacks
      <4> QED
        BY <2>7, <3>1, <4>2
    <3> QED
      BY <3>1, <3>2, <3>3, <3>4, <3>5
  <2>10. \E i, j \in 0 .. Len(input) :
            /\ i <= j /\ string_trim(input, {blank}) = Part(i, j)
            /\ ToSet(Part(0, i)) \cup ToSet(Part(j, Len(input))) \subseteq {blank}
    BY <2>5, Zenon DEF TrimsEnds, Part
  <2>11. /\ IF ToSet(input) \subseteq {blank} THEN string_trim(input, {blank}) = input
            ELSE Head(string_trim(input, {blank})) # blank /\ Last(string_trim(input, {blank})) # blank
         /\ string_trim_left(string_trim_right_in_place(input, {blank}), {blank})
                = IF ToSet(input) \subseteq {blank} THEN <<>> ELSE string_trim(input, {blank})
         /\ resolve_file(input) = string_trim(input, {blank})
    BY <2>5, Zenon DEF TrimsEnds
  <2>12. \A i \in 1 .. Len(input) :
             LET s == Part(i, Len(input)) q == Part(0, i)
                 m == string_replace(s, q, <<mark>>)
             IN  Found(m, q, 1) = {} /\ string_replace(m, <<mark>>, q) = s
    BY <2>8, Zenon DEF Reverses
  <2> QED
    BY <2>5, <2>9, <2>10, <2>11, <2>12, Zenon DEF EditsReversible, SplitsTokens, EndedTokens
<1> QED
  BY <1>1, TextInvariant, PTL
=============================================================================
