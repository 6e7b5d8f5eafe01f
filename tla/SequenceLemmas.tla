--------------------------- MODULE SequenceLemmas ----------------------------
(***************************************************************************)
(* Facts about natural numbers and sequences that the proofs about the     *)
(* lists of the service rest on.  Induction is stated with a set in place  *)
(* of a predicate.                                                         *)
(***************************************************************************)
EXTENDS Integers, SequencesExt, SequenceTheorems, FiniteSetTheorems,
        WellFoundedInduction, TLAPS

(* A set of natural numbers that is not empty has a least element.         *)
LEMMA LeastNatural ==
  ASSUME NEW T \in SUBSET Nat, T # {}
  PROVE  \E x \in T : \A y \in T : x <= y
<1> DEFINE R == OpToRel(<, Nat)
<1>1. IsWellFoundedOn(R, Nat)
  BY NatLessThanWellFounded
<1>2. \A x, y \in Nat : x < y => <<x, y>> \in R
  BY DEF OpToRel
<1> HIDE DEF R
<1>3. PICK x \in T : \A y \in T : ~(<<y, x>> \in R)
  BY <1>1, WFMin
<1>4. \A y \in T : x <= y
  <2> SUFFICES ASSUME NEW y \in T, y < x PROVE FALSE
    OBVIOUS
  <2>1. QED
    BY <1>2, <1>3
<1>5. QED
  BY <1>4

(* Induction over the natural numbers.                                     *)
LEMMA SetInduction ==
  ASSUME NEW P, 0 \in P, \A n \in Nat : n \in P => n + 1 \in P
  PROVE  \A n \in Nat : n \in P
<1> SUFFICES ASSUME Nat \ P # {} PROVE FALSE
  OBVIOUS
<1>1. PICK x \in Nat \ P : \A y \in Nat \ P : x <= y
  BY LeastNatural
<1>2. x # 0 /\ x - 1 \in Nat /\ x - 1 \in P
  BY <1>1
<1>3. QED
  BY <1>1, <1>2

(* The greatest element of a bounded set of natural numbers.               *)
LEMMA MaxProperties ==
  ASSUME NEW n \in Nat, NEW T \in SUBSET (0 .. n), T # {}
  PROVE  Max(T) \in T /\ \A y \in T : y <= Max(T)
<1> DEFINE U == {x \in Nat : n - x \in T}
<1>1. PICK y \in T : TRUE
  OBVIOUS
<1>2. n - y \in U
  BY <1>1
<1>3. PICK x \in U : \A z \in U : x <= z
  BY <1>2, LeastNatural
<1>4. n - x \in T /\ x \in Nat
  BY <1>3
<1>5. ASSUME NEW z \in T PROVE z <= n - x
  <2>1. n - z \in U /\ z \in Nat
    BY n - (n - z) = z
  <2>2. x <= n - z
    BY <1>3, <2>1
  <2>3. QED
    BY <1>4, <2>1, <2>2
<1>6. \E m \in T : \A z \in T : m >= z
  BY <1>4, <1>5
<1>7. Max(T) \in T /\ \A z \in T : Max(T) >= z
  BY <1>6 DEF Max
<1>8. QED
  BY <1>7

(* A greatest element is the greatest.                                     *)
LEMMA MaxIsUnique ==
  ASSUME NEW n \in Nat, NEW T \in SUBSET (0 .. n), NEW x \in T,
         \A y \in T : y <= x
  PROVE  Max(T) = x
<1>1. Max(T) \in T /\ \A y \in T : y <= Max(T)
  BY MaxProperties
<1>2. Max(T) <= x /\ x <= Max(T) /\ Max(T) \in 0 .. n /\ x \in 0 .. n
  BY <1>1
<1>3. QED
  BY <1>2

(* The sequence without its i-th element.                                  *)
LEMMA RemoveAtProperties ==
  ASSUME NEW S, NEW s \in Seq(S), NEW i \in 1 .. Len(s)
  PROVE  /\ RemoveAt(s, i) \in Seq(S)
         /\ Len(RemoveAt(s, i)) = Len(s) - 1
         /\ \A j \in 1 .. Len(s) - 1 :
              RemoveAt(s, i)[j] = IF j < i THEN s[j] ELSE s[j + 1]
<1>1. \A j \in 1 .. Len(s) : s[j] \in S
  OBVIOUS
<1> DEFINE a == SubSeq(s, 1, i - 1)
           b == SubSeq(s, i + 1, Len(s))
<1>2. /\ a \in Seq(S) /\ Len(a) = i - 1
      /\ \A j \in 1 .. i - 1 : a[j] = s[j]
  BY <1>1, SubSeqProperties, i - 1 \in Int
<1>3. /\ b \in Seq(S) /\ Len(b) = Len(s) - i
      /\ \A j \in 1 .. Len(s) - i : b[j] = s[i + j]
  BY <1>1, SubSeqProperties, i + 1 \in Int, Len(s) \in Int
<1> HIDE DEF a, b
<1>4. /\ a \o b \in Seq(S) /\ Len(a \o b) = Len(a) + Len(b)
      /\ \A j \in 1 .. Len(a) + Len(b) :
           (a \o b)[j] = IF j <= Len(a) THEN a[j] ELSE b[j - Len(a)]
  BY <1>2, <1>3, ConcatProperties
<1>5. RemoveAt(s, i) = a \o b
  BY DEF RemoveAt, a, b
<1>6. Len(a) + Len(b) = Len(s) - 1 /\ Len(s) \in Nat
  BY <1>2, <1>3
<1>7. ASSUME NEW j \in 1 .. Len(s) - 1
      PROVE  (a \o b)[j] = IF j < i THEN s[j] ELSE s[j + 1]
  <2>1. (a \o b)[j] = IF j <= Len(a) THEN a[j] ELSE b[j - Len(a)]
    BY <1>4, <1>6
  <2>2. CASE j < i
    BY <1>2, <2>1, <2>2
  <2>3. CASE j >= i
    <3>1. j - Len(a) \in 1 .. Len(s) - i /\ i + (j - Len(a)) = j + 1
      BY <1>2, <2>3
    <3>2. (a \o b)[j] = b[j - Len(a)]
      BY <1>2, <2>1, <2>3
    <3>3. b[j - Len(a)] = s[i + (j - Len(a))]
      BY <1>3, <3>1
    <3>4. QED
      BY <2>3, <3>1, <3>2, <3>3
  <2>4. j < i \/ j >= i
    BY <1>6
  <2>5. QED
    BY <2>2, <2>3, <2>4, Zenon
<1>8. QED
  BY <1>4, <1>5, <1>6, <1>7

(* A new element at the front.                                             *)
LEMMA PrependProperties ==
  ASSUME NEW S, NEW s \in Seq(S), NEW e \in S
  PROVE  /\ <<e>> \o s \in Seq(S)
         /\ Len(<<e>> \o s) = Len(s) + 1
         /\ \A j \in 1 .. Len(s) + 1 :
              (<<e>> \o s)[j] = IF j = 1 THEN e ELSE s[j - 1]
<1>1. <<e>> \in Seq(S) /\ Len(<<e>>) = 1 /\ <<e>>[1] = e
  OBVIOUS
<1>2. QED
  BY <1>1, ConcatProperties

(* All elements but the last.                                              *)
LEMMA FrontProperties ==
  ASSUME NEW S, NEW s \in Seq(S), s # <<>>
  PROVE  /\ Front(s) \in Seq(S)
         /\ Len(Front(s)) = Len(s) - 1
         /\ \A j \in 1 .. Len(s) - 1 : Front(s)[j] = s[j]
         /\ Last(s) = s[Len(s)]
<1>1. Len(s) - 1 \in Int /\ 1 \in Int /\ \A j \in 1 .. Len(s) - 1 : s[j] \in S
  OBVIOUS
<1> DEFINE n == Len(s) - 1
<1>2. n \in Nat
  OBVIOUS
<1> HIDE DEF n
<1>3. /\ SubSeq(s, 1, n) \in Seq(S)
      /\ Len(SubSeq(s, 1, n)) = IF 1 <= n THEN n - 1 + 1 ELSE 0
      /\ \A j \in 1 .. n - 1 + 1 : SubSeq(s, 1, n)[j] = s[1 + j - 1]
  BY <1>1, <1>2, SubSeqProperties DEF n
<1>4. \A j \in 1 .. n : SubSeq(s, 1, n)[j] = s[j]
  <2> SUFFICES ASSUME NEW j \in 1 .. n PROVE SubSeq(s, 1, n)[j] = s[j]
    OBVIOUS
  <2>1. j \in 1 .. n - 1 + 1 /\ 1 + j - 1 = j
    BY <1>2
  <2>2. QED
    BY <1>3, <2>1
<1>5. Len(SubSeq(s, 1, n)) = n
  BY <1>2, <1>3
<1>6. QED
  BY <1>3, <1>4, <1>5 DEF Front, Last, n
(* Where the j-th element was, before the p-th was moved to the front.     *)
Before(j, p) == IF j - 1 < p THEN j - 1 ELSE j

(* The sequence after the p-th element has been replaced by e at the front.*)
MoveToFront(s, p, e) == <<e>> \o RemoveAt(s, p)

(* An element that takes the place of the p-th and moves to the front: the *)
(* others stay, in their order.                                            *)
LEMMA MoveToFrontProperties ==
  ASSUME NEW S, NEW s \in Seq(S), NEW e \in S, NEW p \in 1 .. Len(s)
  PROVE  /\ MoveToFront(s, p, e) \in Seq(S)
         /\ Len(MoveToFront(s, p, e)) = Len(s)
         /\ MoveToFront(s, p, e)[1] = e
         /\ \A j \in 2 .. Len(s) :
              /\ Before(j, p) \in 1 .. Len(s) /\ Before(j, p) # p
              /\ MoveToFront(s, p, e)[j] = s[Before(j, p)]
<1> DEFINE r == RemoveAt(s, p)
<1>1. /\ r \in Seq(S) /\ Len(r) = Len(s) - 1
      /\ \A j \in 1 .. Len(s) - 1 : r[j] = IF j < p THEN s[j] ELSE s[j + 1]
  BY RemoveAtProperties
<1> HIDE DEF r
<1>2. /\ <<e>> \o r \in Seq(S) /\ Len(<<e>> \o r) = Len(r) + 1
      /\ \A j \in 1 .. Len(r) + 1 : (<<e>> \o r)[j] = IF j = 1 THEN e ELSE r[j - 1]
  BY <1>1, PrependProperties
<1>3. Len(s) \in Nat /\ Len(r) + 1 = Len(s) /\ 1 \in 1 .. Len(r) + 1
  BY <1>1
<1>4. ASSUME NEW j \in 2 .. Len(s)
      PROVE  /\ Before(j, p) \in 1 .. Len(s) /\ Before(j, p) # p
             /\ (<<e>> \o r)[j] = s[Before(j, p)]
  <2>1. j - 1 \in 1 .. Len(s) - 1 /\ j \in 1 .. Len(r) + 1 /\ j # 1
        /\ (j - 1) + 1 = j
    BY <1>3
  <2>2. (<<e>> \o r)[j] = r[j - 1]
    BY <1>2, <2>1
  <2>3. r[j - 1] = IF j - 1 < p THEN s[j - 1] ELSE s[(j - 1) + 1]
    BY <1>1, <2>1
  <2>4. Before(j, p) \in 1 .. Len(s) /\ Before(j, p) # p
    BY <1>3 DEF Before
  <2>5. QED
    BY <2>1, <2>2, <2>3, <2>4 DEF Before
<1>5. QED
  BY <1>2, <1>3, <1>4 DEF r, MoveToFront

(* Every other element had its place, and keeps one.                       *)
LEMMA BeforeIsBijection ==
  ASSUME NEW n \in Nat, NEW p \in 1 .. n
  PROVE  /\ \A j, l \in 2 .. n : Before(j, p) = Before(l, p) => j = l
         /\ \A i \in 1 .. n : i # p => \E j \in 2 .. n : Before(j, p) = i
<1>1. \A j, l \in 2 .. n : Before(j, p) = Before(l, p) => j = l
  BY DEF Before
<1>2. ASSUME NEW i \in 1 .. n, i # p
      PROVE  \E j \in 2 .. n : Before(j, p) = i
  <2>1. CASE i < p
    <3>1. i + 1 \in 2 .. n /\ Before(i + 1, p) = i
      BY <2>1 DEF Before
    <3>2. QED
      BY <3>1
  <2>2. CASE i > p
    <3>1. i \in 2 .. n /\ Before(i, p) = i
      BY <2>2 DEF Before
    <3>2. QED
      BY <3>1
  <2>3. QED
    BY <1>2, <2>1, <2>2
<1>3. QED
  BY <1>1, <1>2
(* No element occurs twice.                                                *)
Distinct(s) == \A i, j \in DOMAIN s : s[i] = s[j] => i = j

(* Moving an element to the front keeps the elements, and keeps them       *)
(* distinct.                                                               *)
LEMMA MovedIsDistinct ==
  ASSUME NEW S, NEW s \in Seq(S), Distinct(s), NEW p \in 1 .. Len(s)
  PROVE  /\ Distinct(MoveToFront(s, p, s[p]))
         /\ ToSet(MoveToFront(s, p, s[p])) = ToSet(s)
<1> DEFINE m == MoveToFront(s, p, s[p])
           n == Len(s)
<1>1. /\ m \in Seq(S) /\ Len(m) = n /\ m[1] = s[p]
      /\ \A j \in 2 .. n : /\ Before(j, p) \in 1 .. n /\ Before(j, p) # p
                           /\ m[j] = s[Before(j, p)]
  <2>1. s[p] \in S
    OBVIOUS
  <2> DEFINE e == s[p]
  <2> HIDE DEF e
  <2>2. MoveToFront(s, p, e)[1] = e /\ e \in S
    BY <2>1, MoveToFrontProperties DEF e
  <2>3. QED
    BY <2>1, <2>2, MoveToFrontProperties DEF e
<1> HIDE DEF m
<1>2. n \in Nat /\ DOMAIN s = 1 .. n /\ DOMAIN m = 1 .. n /\ p \in 1 .. n
      /\ \A j \in 1 .. n : j = 1 \/ j \in 2 .. n
  BY <1>1
<1>3. \A i, j \in 1 .. n : s[i] = s[j] => i = j
  BY <1>2 DEF Distinct
<1> HIDE DEF n
<1>4. ASSUME NEW j \in 1 .. n, NEW l \in 1 .. n, m[j] = m[l]
      PROVE  j = l
  <2>1. CASE j \in 2 .. n /\ l \in 2 .. n
    <3>1. Before(j, p) = Before(l, p)
      BY <1>1, <1>3, <1>4, <2>1
    <3>2. QED
      BY <1>2, <2>1, <3>1, BeforeIsBijection
  <2>2. CASE j = 1 /\ l \in 2 .. n
    BY <1>1, <1>2, <1>3, <1>4, <2>2
  <2>3. CASE j \in 2 .. n /\ l = 1
    BY <1>1, <1>2, <1>3, <1>4, <2>3
  <2>4. CASE j = 1 /\ l = 1
    BY <2>4
  <2>5. QED
    BY <1>2, <2>1, <2>2, <2>3, <2>4
<1>5. ASSUME NEW i \in 1 .. n
      PROVE  \E j \in 1 .. n : m[j] = s[i]
  <2>1. CASE i = p
    BY <1>1, <1>2, <2>1
  <2>2. CASE i # p
    <3>1. PICK j \in 2 .. n : Before(j, p) = i
      BY <1>2, <2>2, BeforeIsBijection
    <3>2. QED
      BY <1>1, <1>2, <3>1
  <2>3. QED
    BY <2>1, <2>2
<1>6. ASSUME NEW j \in 1 .. n
      PROVE  \E i \in 1 .. n : m[j] = s[i]
  BY <1>1, <1>2
<1>7. ToSet(m) = ToSet(s)
  <2>1. ASSUME NEW x \in ToSet(s) PROVE x \in ToSet(m)
    BY <1>2, <1>5, <2>1 DEF ToSet
  <2>2. ASSUME NEW x \in ToSet(m) PROVE x \in ToSet(s)
    BY <1>2, <1>6, <2>2 DEF ToSet
  <2>3. QED
    BY <2>1, <2>2
<1>8. QED
  BY <1>2, <1>4, <1>7 DEF Distinct, m

(* A new element at the front of distinct ones.                            *)
LEMMA PrependedIsDistinct ==
  ASSUME NEW S, NEW s \in Seq(S), Distinct(s), NEW e \in S, e \notin ToSet(s)
  PROVE  Distinct(<<e>> \o s) /\ ToSet(<<e>> \o s) = ToSet(s) \cup {e}
<1> DEFINE m == <<e>> \o s
           n == Len(s)
<1>1. /\ m \in Seq(S) /\ Len(m) = n + 1
      /\ \A j \in 1 .. n + 1 : m[j] = IF j = 1 THEN e ELSE s[j - 1]
  BY PrependProperties
<1> HIDE DEF m
<1>2. n \in Nat /\ DOMAIN s = 1 .. n /\ DOMAIN m = 1 .. n + 1
  BY <1>1
<1> HIDE DEF n
<1>3. \A i \in 1 .. n : i + 1 \in 1 .. n + 1 /\ m[i + 1] = s[i] /\ s[i] # e
  <2> SUFFICES ASSUME NEW i \in 1 .. n
               PROVE  i + 1 \in 1 .. n + 1 /\ m[i + 1] = s[i] /\ s[i] # e
    OBVIOUS
  <2>1. i + 1 \in 1 .. n + 1 /\ i + 1 # 1 /\ (i + 1) - 1 = i
    BY <1>2
  <2>2. m[i + 1] = s[(i + 1) - 1]
    BY <1>1, <2>1
  <2>3. s[i] \in ToSet(s)
    BY <1>2 DEF ToSet
  <2>4. QED
    BY <2>1, <2>2, <2>3
<1>4. \A j \in 1 .. n + 1 : j = 1 \/ (j - 1 \in 1 .. n /\ j = (j - 1) + 1)
  BY <1>2
<1>5. m[1] = e /\ 1 \in 1 .. n + 1
  BY <1>1, <1>2
<1>6. Distinct(m)
  <2> SUFFICES ASSUME NEW j \in 1 .. n + 1, NEW l \in 1 .. n + 1, m[j] = m[l]
               PROVE  j = l
    BY <1>2 DEF Distinct
  <2>1. CASE j = 1 /\ l = 1
    BY <2>1
  <2>2. CASE j = 1 /\ l # 1
    BY <1>3, <1>4, <1>5, <2>2
  <2>3. CASE j # 1 /\ l = 1
    BY <1>3, <1>4, <1>5, <2>3
  <2>4. CASE j # 1 /\ l # 1
    <3>1. j - 1 \in 1 .. n /\ l - 1 \in 1 .. n
      BY <1>4, <2>4
    <3>2. m[j] = s[j - 1] /\ m[l] = s[l - 1]
      BY <1>1, <2>4
    <3>3. j - 1 = l - 1
      BY <1>2, <3>1, <3>2 DEF Distinct
    <3>4. QED
      BY <1>2, <3>3
  <2>5. QED
    BY <2>1, <2>2, <2>3, <2>4
<1>7. ToSet(m) = ToSet(s) \cup {e}
  <2>1. ASSUME NEW x \in ToSet(s) PROVE x \in ToSet(m)
    BY <1>2, <1>3, <2>1 DEF ToSet
  <2>2. ASSUME NEW x \in ToSet(m) PROVE x \in ToSet(s) \cup {e}
    <3>1. PICK j \in 1 .. n + 1 : m[j] = x
      BY <1>2, <2>2 DEF ToSet
    <3>2. CASE j = 1
      BY <1>5, <3>1, <3>2
    <3>3. CASE j # 1
      BY <1>1, <1>2, <1>4, <3>1, <3>3 DEF ToSet
    <3>4. QED
      BY <3>2, <3>3
  <2>3. e \in ToSet(m)
    BY <1>2, <1>5 DEF ToSet
  <2>4. QED
    BY <2>1, <2>2, <2>3
<1>8. QED
  BY <1>6, <1>7 DEF m

(* Distinct elements without the last of them.                             *)
LEMMA FrontIsDistinct ==
  ASSUME NEW S, NEW s \in Seq(S), Distinct(s), s # <<>>
  PROVE  Distinct(Front(s)) /\ ToSet(Front(s)) = ToSet(s) \ {Last(s)}
<1> DEFINE m == Front(s)
           n == Len(s) - 1
<1>1. /\ m \in Seq(S) /\ Len(m) = n
      /\ \A j \in 1 .. n : m[j] = s[j]
      /\ Last(s) = s[n + 1]
  <2>1. Len(s) \in Nat /\ (Len(s) - 1) + 1 = Len(s)
    OBVIOUS
  <2>2. QED
    BY <2>1, FrontProperties
<1> HIDE DEF m
<1>2. n \in Nat /\ DOMAIN s = 1 .. n + 1 /\ DOMAIN m = 1 .. n
  BY <1>1
<1> HIDE DEF n
<1>3. \A i, j \in 1 .. n + 1 : s[i] = s[j] => i = j
  BY <1>2 DEF Distinct
<1>4. \A i \in 1 .. n : i \in 1 .. n + 1 /\ n + 1 \in 1 .. n + 1 /\ i # n + 1
  BY <1>2
<1>5. Distinct(m)
  BY <1>1, <1>2, <1>3, <1>4 DEF Distinct
<1>6. ToSet(m) = ToSet(s) \ {Last(s)}
  <2>1. ASSUME NEW x \in ToSet(m) PROVE x \in ToSet(s) /\ x # Last(s)
    <3>1. PICK i \in 1 .. n : m[i] = x
      BY <1>2, <2>1 DEF ToSet
    <3>2. x = s[i] /\ i \in 1 .. n + 1 /\ n + 1 \in 1 .. n + 1 /\ i # n + 1
      BY <1>1, <1>4, <3>1
    <3>3. QED
      BY <1>1, <1>2, <1>3, <3>2 DEF ToSet
  <2>2. ASSUME NEW x \in ToSet(s), x # Last(s) PROVE x \in ToSet(m)
    <3>1. PICK i \in 1 .. n + 1 : s[i] = x
      BY <1>2, <2>2 DEF ToSet
    <3>2. i \in 1 .. n
      BY <1>1, <1>2, <2>2, <3>1
    <3>3. QED
      BY <1>1, <1>2, <3>1, <3>2 DEF ToSet
  <2>3. QED
    BY <2>1, <2>2
<1>7. QED
  BY <1>5, <1>6 DEF m

(* Counting up to one number more.                                         *)
LEMMA CountOneMore ==
  ASSUME NEW n \in Nat, NEW A \in SUBSET (1 .. n), NEW B \in SUBSET (1 .. n + 1),
         \A i \in 1 .. n : i \in A <=> i \in B
  PROVE  /\ IsFiniteSet(A) /\ Cardinality(A) \in Nat
         /\ Cardinality(B) = Cardinality(A) + IF n + 1 \in B THEN 1 ELSE 0
<1>1. IsFiniteSet(A) /\ Cardinality(A) \in Nat
  <2>1. IsFiniteSet(1 .. n)
    BY FS_Interval, 1 \in Int, n \in Int
  <2>2. IsFiniteSet(A)
    BY <2>1, FS_Subset
  <2>3. QED
    BY <2>2, FS_CardinalityType
<1>2. n + 1 \notin A /\ \A i \in 1 .. n + 1 : i \in 1 .. n \/ i = n + 1
  OBVIOUS
<1>3. CASE n + 1 \in B
  <2>1. B = A \cup {n + 1}
    BY <1>2, <1>3
  <2>2. QED
    BY <1>1, <1>2, <1>3, <2>1, FS_AddElement
<1>4. CASE n + 1 \notin B
  <2>1. B = A
    BY <1>2, <1>4
  <2>2. QED
    BY <1>1, <1>4, <2>1
<1>5. QED
  BY <1>1, <1>3, <1>4
==============================================================================
