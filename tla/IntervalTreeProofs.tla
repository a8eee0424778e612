-------------------------- MODULE IntervalTreeProofs --------------------------
(***************************************************************************)
(* The stack of overlap is never higher than the tree; index gives every   *)
(* node the largest end of its subtree; overlap lists the intervals that   *)
(* overlap with the query and no other: for every array, every query and   *)
(* every level up to which subtrees are scanned.                           *)
(***************************************************************************)
EXTENDS IntervalTree, SequenceTheorems, FiniteSetTheorems, WellFoundedInduction, TLAPS

-----------------------------------------------------------------------------
(* Induction and powers of two *)

\* A non-empty set of naturals has a least element.
LEMMA LeastNatural ==
  ASSUME NEW S, S \subseteq Nat, S # {}
  PROVE  \E i \in S : \A j \in S : i <= j
<1>1. IsWellFoundedOn(OpToRel(<, Nat), Nat)
  BY NatLessThanWellFounded
<1>2. PICK x \in S : \A y \in S : ~ (<<y, x>> \in OpToRel(<, Nat))
  BY <1>1, WFMin, Zenon
<1>3. \A y \in S : ~ (y < x)
  BY <1>2 DEF OpToRel
<1> QED BY <1>3

\* What holds of 0, and of k + 1 if of k, holds up to n.
LEMMA SetInduction ==
  ASSUME NEW S, NEW n \in Nat, 0 \in S, \A k \in 0..(n - 1) : k \in S => k + 1 \in S
  PROVE  \A k \in 0..n : k \in S
<1> DEFINE wrong == {k \in 0..n : k \notin S}
<1> SUFFICES ASSUME wrong # {} PROVE FALSE
  OBVIOUS
<1>1. PICK k \in wrong : \A j \in wrong : k <= j
  <2>1. wrong \subseteq Nat
    OBVIOUS
  <2> HIDE DEF wrong
  <2> QED BY <2>1, LeastNatural
<1>2. k # 0 /\ k - 1 \in 0..(n - 1) /\ k - 1 \notin wrong
  BY <1>1
<1> QED BY <1>2

\* The subsets of 1..(k + 1) are those of 1..k, with k + 1 and without.
LEMMA Doubles == ASSUME NEW k \in Nat PROVE 2^(k + 1) = 2 * 2^k
<1> DEFINE S == 1..k
           n == k + 1
           A == SUBSET S
           B == {T \cup {n} : T \in A}
           C == SUBSET (1..n)
<1>1. /\ IsFiniteSet(S) /\ Cardinality(S) = k
      /\ IsFiniteSet(1..n) /\ Cardinality(1..n) = n
  <2>1. /\ IsFiniteSet(S) /\ Cardinality(S) = IF 1 > k THEN 0 ELSE k - 1 + 1
    BY FS_Interval
  <2>2. /\ IsFiniteSet(1..n) /\ Cardinality(1..n) = IF 1 > n THEN 0 ELSE n - 1 + 1
    BY FS_Interval
  <2> QED BY <2>1, <2>2
<1>2. IsFiniteSet(A) /\ Cardinality(A) = 2^k
  BY <1>1, FS_SUBSET
<1>3. IsFiniteSet(C) /\ Cardinality(C) = 2^n
  BY <1>1, FS_SUBSET
<1>4. IsFiniteSet(B) /\ Cardinality(B) = Cardinality(A)
  <2> DEFINE f == [T \in A |-> T \cup {n}]
  <2>1. n \notin S
    OBVIOUS
  <2>2. f \in Bijection(A, B)
    <3>1. f \in [A -> B]
      OBVIOUS
    <3>2. ASSUME NEW T \in A, NEW U \in A, f[T] = f[U] PROVE T = U
      <4>1. T \cup {n} = U \cup {n} /\ n \notin T /\ n \notin U
        <5> HIDE DEF n
        <5> QED BY <2>1, <3>2
      <4> HIDE DEF n
      <4> QED BY <4>1
    <3>3. \A y \in B : \E T \in A : f[T] = y
      OBVIOUS
    <3> HIDE DEF A, B, f
    <3> QED BY <3>1, <3>2, <3>3 DEF Bijection, Injection, Surjection, IsInjective
  <2>3. ExistsBijection(A, B)
    BY <2>2 DEF ExistsBijection
  <2> QED BY <1>2, <2>3, FS_Bijection
<1>5. C = A \cup B /\ A \cap B = {}
  <2>1. 1..n = S \cup {n} /\ n \notin S
    OBVIOUS
  <2> HIDE DEF n, S
  <2>2. ASSUME NEW T \in C PROVE T \in A \cup B
    <3>1. CASE n \in T
      <4>1. T \ {n} \in A /\ T = (T \ {n}) \cup {n}
        BY <2>1, <2>2, <3>1
      <4> QED BY <4>1
    <3>2. CASE n \notin T
      BY <2>1, <3>2
    <3> QED BY <3>1, <3>2
  <2> QED BY <2>1, <2>2
<1>6. Cardinality(C) = Cardinality(A) + Cardinality(B) - Cardinality({})
  <2> HIDE DEF A, B, C
  <2> QED BY <1>2, <1>4, <1>5, FS_Union
<1>7. Cardinality(A) \in Nat
  BY <1>2, FS_CardinalityType
<1> HIDE DEF A, B, C
<1> QED BY <1>2, <1>3, <1>4, <1>6, <1>7, FS_EmptySet DEF n

LEMMA PowerBounds ==
  ASSUME NEW k \in Nat
  PROVE  2^k \in Nat /\ 2^k >= 1 /\ k < 2^k
<1> DEFINE S == {j \in 0..k : 2^j \in Nat /\ j < 2^j}
<1>1. 0 \in S
  <2>1. 2^0 = 1
    OBVIOUS
  <2> QED BY <2>1
<1>2. ASSUME NEW j \in 0..(k - 1), j \in S PROVE j + 1 \in S
  <2>1. 2^(j + 1) = 2 * 2^j /\ 2^j \in Nat /\ j < 2^j
    BY <1>2, Doubles
  <2> DEFINE p == 2^j
             r == 2^(j + 1)
  <2> HIDE DEF p, r
  <2>2. r \in Nat /\ j + 1 < r
    BY <2>1 DEF p, r
  <2> QED BY <2>2 DEF r
<1>3. k \in S
  <2> HIDE DEF S
  <2>1. \A j \in 0..k : j \in S
    BY <1>1, <1>2, SetInduction
  <2> QED BY <2>1
<1> DEFINE p == 2^k
<1>4. p \in Nat /\ k < p
  BY <1>3
<1> HIDE DEF p
<1>5. p \in Nat /\ p >= 1 /\ k < p
  BY <1>4
<1> QED BY <1>5 DEF p

LEMMA PowerDivides ==
  ASSUME NEW k \in Nat, NEW d \in Nat
  PROVE  \E c \in Nat \ {0} : 2^(k + d) = c * 2^k
<1> DEFINE S == {j \in 0..d : \E c \in Nat \ {0} : 2^(k + j) = c * 2^k}
<1>1. 0 \in S
  <2>1. 2^(k + 0) = 1 * 2^k
    BY PowerBounds
  <2> QED BY <2>1
<1>2. ASSUME NEW j \in 0..(d - 1), j \in S PROVE j + 1 \in S
  <2>1. PICK c \in Nat \ {0} : 2^(k + j) = c * 2^k
    BY <1>2
  <2> DEFINE p == 2^k
             l == k + j
             q == 2^l
             r == 2^(l + 1)
  <2>2. l \in Nat /\ l + 1 = k + (j + 1)
    OBVIOUS
  <2>3. r = 2 * q /\ p \in Nat /\ q = c * p
    BY <2>1, <2>2, Doubles, PowerBounds
  <2> HIDE DEF p, q, r
  <2>4. r = (2 * c) * p /\ 2 * c \in Nat \ {0}
    BY <2>3
  <2>5. 2^(l + 1) = (2 * c) * 2^k
    BY <2>4 DEF r, p
  <2> HIDE DEF l
  <2>6. 2^(k + (j + 1)) = (2 * c) * 2^k
    BY <2>2, <2>5
  <2>7. \E e \in Nat \ {0} : 2^(k + (j + 1)) = e * 2^k
    BY <2>4, <2>6
  <2> QED BY <2>7
<1>3. d \in S
  <2> HIDE DEF S
  <2>1. \A j \in 0..d : j \in S
    BY <1>1, <1>2, SetInduction
  <2> QED BY <2>1
<1> QED BY <1>3

LEMMA PowerOrder ==
  ASSUME NEW k \in Nat, NEW l \in Nat, 2^k < 2^l
  PROVE  k < l
<1>1. SUFFICES ASSUME l <= k PROVE FALSE
  OBVIOUS
<1> DEFINE d == k - l
<1>2. d \in Nat /\ l + d = k
  BY <1>1
<1> HIDE DEF d
<1>3. PICK c \in Nat \ {0} : 2^k = c * 2^l
  BY <1>2, PowerDivides
<1> DEFINE p == 2^k
           q == 2^l
<1>4. p \in Nat /\ q \in Nat /\ p = c * q /\ p < q
  BY <1>3, PowerBounds
<1> HIDE DEF p, q
<1> QED BY <1>4

-----------------------------------------------------------------------------
(* Nodes and levels *)

LEMMA LevelForm ==
  ASSUME NEW i \in Nat, NEW k \in Nat
  PROVE  IsOfLevel(i, k) <=> \E q \in Nat : i = q * 2^(k + 1) + 2^k - 1
<1> DEFINE p == 2^k
           r == 2^(k + 1)
<1>1. p \in Nat \ {0} /\ r = 2 * p
  BY Doubles, PowerBounds
<1>2. IsOfLevel(i, k) <=> i % r = p - 1
  BY DEF IsOfLevel
<1> HIDE DEF p, r
<1>3. r \in Nat \ {0} /\ p - 1 \in Nat /\ p - 1 < r
  BY <1>1
<1>4. i % r = p - 1 => \E q \in Nat : i = q * r + p - 1
  <2> DEFINE q == i \div r
  <2>1. q \in Nat /\ i = r * q + (i % r)
    BY <1>3
  <2> HIDE DEF q
  <2>2. i % r = p - 1 => i = q * r + p - 1
    BY <1>1, <1>3, <2>1
  <2> QED BY <2>1, <2>2
<1>5. ASSUME NEW q \in Nat, i = q * r + p - 1 PROVE i % r = p - 1
  <2> DEFINE x == p - 1
  <2>1. i = q * r + x /\ x \in Nat /\ x < r
    BY <1>1, <1>3, <1>5
  <2> HIDE DEF x
  <2>2. i % r = x
    BY <1>3, <2>1
  <2> QED BY <2>2 DEF x
<1>6. IsOfLevel(i, k) <=> \E q \in Nat : i = q * r + p - 1
  BY <1>2, <1>4, <1>5
<1> QED BY <1>6 DEF p, r

LEMMA LevelUnique ==
  ASSUME NEW i \in Nat, NEW k \in Nat, NEW l \in Nat, k < l,
         IsOfLevel(i, k), IsOfLevel(i, l)
  PROVE  FALSE
<1> DEFINE p == 2^k
           s == 2^l
           m == k + 1
           d == l - m
<1>1. d \in Nat /\ m \in Nat /\ m + d = l
  OBVIOUS
<1> HIDE DEF d, m
<1>2. PICK c \in Nat \ {0} : 2^l = c * 2^(k + 1)
  <2>1. \E c \in Nat \ {0} : 2^(m + d) = c * 2^m
    BY <1>1, PowerDivides
  <2>2. \E c \in Nat \ {0} : 2^l = c * 2^m
    BY <1>1, <2>1
  <2> QED BY <2>2 DEF m
<1>3. PICK q \in Nat : i = q * 2^(k + 1) + 2^k - 1
  BY LevelForm
<1>4. PICK w \in Nat : i = w * 2^(l + 1) + 2^l - 1
  BY LevelForm
<1>5. p \in Nat \ {0} /\ s = c * (2 * p) /\ i = q * (2 * p) + p - 1 /\ i = w * (2 * s) + s - 1
  BY <1>2, <1>3, <1>4, Doubles, PowerBounds
<1> HIDE DEF p, s
<1> DEFINE e == (2 * w + 1) * c
<1>6. e \in Nat /\ s \in Nat
  BY <1>5
<1>7. w * (2 * s) + s = (2 * w + 1) * s
  BY <1>6
<1>8. (2 * w + 1) * s = (2 * e) * p
  BY <1>5
<1>9. q * (2 * p) + p = (2 * q + 1) * p
  BY <1>5
<1>10. (2 * q + 1) * p = (2 * e) * p
  <2> DEFINE u == q * (2 * p)
             v == w * (2 * s)
  <2>1. u \in Nat /\ v \in Nat /\ i = u + p - 1 /\ i = v + s - 1
    <3>1. i = u + p - 1 /\ i = v + s - 1
      BY <1>5, Zenon
    <3>2. u \in Nat /\ v \in Nat
      <4>1. p \in Nat /\ s \in Nat
        BY <1>5, <1>6
      <4> QED BY <4>1
    <3> QED BY <3>1, <3>2
  <2>2. u + p = (2 * q + 1) * p /\ v + s = (2 * e) * p
    BY <1>7, <1>8, <1>9
  <2> HIDE DEF u, v
  <2>3. u + p = v + s
    BY <1>5, <1>6, <2>1
  <2> QED BY <2>2, <2>3
<1> HIDE DEF e
<1>11. 2 * q + 1 = 2 * e
  BY <1>5, <1>6, <1>10
<1> QED BY <1>6, <1>11

LEMMA LevelExists ==
  ASSUME NEW i \in Nat
  PROVE  \E k \in Nat : IsOfLevel(i, k)
<1> DEFINE S == {k \in Nat : i % 2^(k + 1) # 2^(k + 1) - 1}
<1>1. i \in S
  <2> DEFINE r == 2^(i + 1)
  <2>1. r \in Nat /\ i + 1 < r
    BY PowerBounds
  <2> HIDE DEF r
  <2>2. i % r = i /\ i # r - 1
    BY <2>1
  <2> QED BY <2>2 DEF r
<1>2. PICK k \in S : \A l \in S : k <= l
  <2> HIDE DEF S
  <2>1. S \subseteq Nat
    BY DEF S
  <2> QED BY <1>1, <2>1, LeastNatural
<1> DEFINE p == 2^k
           r == 2^(k + 1)
<1>3. k \in Nat /\ i % r # r - 1
  BY <1>2
<1>4. p \in Nat \ {0} /\ r = 2 * p
  BY <1>3, Doubles, PowerBounds
<1>5. i % p = p - 1
  <2>1. CASE k = 0
    <3>1. 2^0 = 1
      OBVIOUS
    <3>2. p = 1
      BY <2>1, <3>1
    <3> HIDE DEF p
    <3> QED BY <3>2
  <2>2. CASE k # 0
    <3> DEFINE l == k - 1
    <3>1. l \in Nat /\ l + 1 = k /\ ~ k <= l
      BY <1>3, <2>2
    <3> HIDE DEF l
    <3>2. l \notin S
      BY <1>2, <3>1
    <3>3. i % 2^(l + 1) = 2^(l + 1) - 1
      BY <3>1, <3>2
    <3> QED BY <3>1, <3>3
  <2> QED BY <2>1, <2>2
<1>6. IsOfLevel(i, k) <=> i % r = p - 1
  BY DEF IsOfLevel
<1> HIDE DEF p, r, S
<1> DEFINE q == i \div p
           h == q \div 2
<1>7. q \in Nat /\ i = p * q + (p - 1)
  BY <1>4, <1>5
<1> HIDE DEF q
<1>8. h \in Nat /\ (q = 2 * h \/ q = 2 * h + 1)
  BY <1>7
<1> HIDE DEF h
<1>9. CASE q = 2 * h
  <2> DEFINE x == p - 1
  <2>1. p * (2 * h) = h * (2 * p)
    BY <1>4, <1>8
  <2>2. i = h * r + x /\ x \in Nat /\ x < r /\ r \in Nat \ {0}
    BY <1>4, <1>7, <1>9, <2>1
  <2> HIDE DEF x
  <2>3. i % r = x
    BY <1>8, <2>2
  <2> QED BY <1>3, <1>6, <2>3 DEF x
<1>10. CASE q = 2 * h + 1
  <2> DEFINE x == r - 1
  <2> DEFINE u == h * r
  <2>1. p * q = u + p /\ u \in Nat
    <3>1. p * (2 * h + 1) = h * (2 * p) + p
      BY <1>4, <1>8
    <3> QED BY <1>4, <1>8, <1>10, <3>1
  <2> HIDE DEF u
  <2>2. i = u + x /\ x \in Nat /\ x < r /\ r \in Nat \ {0}
    BY <1>4, <1>7, <2>1
  <2> HIDE DEF x
  <2>3. i % r = x
    BY <1>8, <2>2 DEF u
  <2> QED BY <1>3, <2>3 DEF x
<1> QED BY <1>8, <1>9, <1>10

LEMMA Children ==
  ASSUME NEW i \in Nat, NEW k \in Nat \ {0}, IsOfLevel(i, k)
  PROVE  /\ i - 2^(k - 1) \in Nat /\ IsOfLevel(i - 2^(k - 1), k - 1)
         /\ i + 2^(k - 1) \in Nat /\ IsOfLevel(i + 2^(k - 1), k - 1)
         /\ 2^k = 2 * 2^(k - 1) /\ i >= 2^k - 1
<1> DEFINE l == k - 1
           x == 2^l
           p == 2^k
           left == i - x
           right == i + x
<1>1. l \in Nat /\ l + 1 = k
  OBVIOUS
<1> HIDE DEF l
<1>2. x \in Nat \ {0} /\ p = 2 * x
  <2>1. p = 2^(l + 1)
    BY <1>1
  <2>2. 2^(l + 1) = 2 * 2^l /\ 2^l \in Nat /\ 2^l >= 1
    BY <1>1, Doubles, PowerBounds
  <2> QED BY <2>1, <2>2
<1>3. PICK q \in Nat : i = q * (2 * p) + p - 1
  <2>1. PICK q \in Nat : i = q * 2^(k + 1) + 2^k - 1
    BY LevelForm
  <2> QED BY <2>1, Doubles
<1> HIDE DEF p
<1>4. /\ \A j \in Nat : IsOfLevel(j, l) <=> \E w \in Nat : j = w * p + x - 1
  <2>1. \A j \in Nat : IsOfLevel(j, l) <=> \E w \in Nat : j = w * 2^(l + 1) + 2^l - 1
    BY <1>1, LevelForm
  <2> QED BY <1>1, <2>1 DEF p
<1> HIDE DEF x
<1>5. q * (2 * p) = (2 * q) * p /\ (2 * q + 1) * p = (2 * q) * p + p
      /\ (2 * q) * p \in Nat
  BY <1>2
<1>6. left \in Nat /\ left = (2 * q) * p + x - 1
  BY <1>2, <1>3, <1>5
<1>7. right \in Nat /\ right = (2 * q + 1) * p + x - 1
  BY <1>2, <1>3, <1>5
<1>8. 2 * q \in Nat /\ 2 * q + 1 \in Nat
  OBVIOUS
<1>9. i >= p - 1
  BY <1>2, <1>3, <1>5
<1> HIDE DEF left, right
<1>10. IsOfLevel(left, l) /\ IsOfLevel(right, l)
  BY <1>4, <1>6, <1>7, <1>8
<1> QED BY <1>2, <1>6, <1>7, <1>9, <1>10 DEF left, right, l, x, p

\* A node's parent, which is one step to its left or to its right
LEMMA Parent ==
  ASSUME NEW i \in Nat, NEW k \in Nat \ {0}, IsOfLevel(i, k - 1)
  PROVE  /\ ParentOf(i, k) \in Nat /\ IsOfLevel(ParentOf(i, k), k)
         /\ i = ParentOf(i, k) - 2^(k - 1) \/ i = ParentOf(i, k) + 2^(k - 1)
<1> DEFINE l == k - 1
           x == 2^l
           p == 2^k
<1>1. l \in Nat /\ l + 1 = k
  OBVIOUS
<1> HIDE DEF l
<1>2. x \in Nat \ {0} /\ p = 2 * x
  <2>1. p = 2^(l + 1)
    BY <1>1
  <2>2. 2^(l + 1) = 2 * 2^l /\ 2^l \in Nat /\ 2^l >= 1
    BY <1>1, Doubles, PowerBounds
  <2> QED BY <2>1, <2>2
<1>3. PICK q \in Nat : i = q * p + x - 1
  <2>1. IsOfLevel(i, l)
    BY DEF l
  <2>2. PICK q \in Nat : i = q * 2^(l + 1) + 2^l - 1
    BY <1>1, <2>1, LevelForm
  <2> QED BY <1>1, <2>2
<1> DEFINE up == ParentOf(i, k)
<1>4. up = IF (i \div p) % 2 = 1 THEN i - x ELSE i + x
  BY DEF ParentOf, l
<1>5. \A j \in Nat : IsOfLevel(j, k) <=> \E w \in Nat : j = w * (2 * p) + p - 1
  <2>1. \A j \in Nat : IsOfLevel(j, k) <=> \E w \in Nat : j = w * 2^(k + 1) + 2^k - 1
    BY LevelForm
  <2> QED BY <2>1, Doubles
<1> HIDE DEF p, x, up
<1>6. i \div p = q
  <2> DEFINE y == x - 1
  <2>1. i = q * p + y /\ y \in Nat /\ y < p /\ p \in Nat \ {0}
    BY <1>2, <1>3
  <2> HIDE DEF y
  <2> QED BY <2>1
<1> DEFINE h == q \div 2
<1>7. h \in Nat /\ (q = 2 * h \/ q = 2 * h + 1)
  OBVIOUS
<1> HIDE DEF h
<1>8. (2 * h) * p = h * (2 * p) /\ (2 * h + 1) * p = h * (2 * p) + p /\ h * (2 * p) \in Nat
  BY <1>2, <1>7
<1>9. CASE q = 2 * h
  <2>1. up = i + x
    BY <1>4, <1>6, <1>7, <1>9
  <2>2. up \in Nat /\ up = h * (2 * p) + p - 1 /\ i = up - x
    BY <1>2, <1>3, <1>8, <1>9, <2>1
  <2>3. IsOfLevel(up, k)
    BY <1>5, <1>7, <2>2
  <2> QED BY <2>2, <2>3 DEF up, x, l
<1>10. CASE q = 2 * h + 1
  <2>1. up = i - x
    BY <1>4, <1>6, <1>7, <1>10
  <2>2. up \in Nat /\ up = h * (2 * p) + p - 1 /\ i = up + x
    BY <1>2, <1>3, <1>8, <1>10, <2>1
  <2>3. IsOfLevel(up, k)
    BY <1>5, <1>7, <2>2
  <2> QED BY <2>2, <2>3 DEF up, x, l
<1> QED BY <1>7, <1>9, <1>10

\* Subtrees of one level do not share nodes.
LEMMA SameNode ==
  ASSUME NEW i \in Nat, NEW j \in Nat, NEW k \in Nat, IsOfLevel(i, k), IsOfLevel(j, k),
         NEW m \in Nat, i - 2^k < m, m < i + 2^k, j - 2^k < m, m < j + 2^k
  PROVE  i = j
<1> DEFINE p == 2^k
<1>1. PICK q \in Nat : i = q * (2 * p) + p - 1
  <2>1. PICK q \in Nat : i = q * 2^(k + 1) + 2^k - 1
    BY LevelForm
  <2> QED BY <2>1, Doubles
<1>2. PICK w \in Nat : j = w * (2 * p) + p - 1
  <2>1. PICK w \in Nat : j = w * 2^(k + 1) + 2^k - 1
    BY LevelForm
  <2> QED BY <2>1, Doubles
<1>3. p \in Nat \ {0} /\ i - p < m /\ m < i + p /\ j - p < m /\ m < j + p
  BY PowerBounds
<1> HIDE DEF p
<1> DEFINE r == 2 * p
           x == m - q * r
           y == m - w * r
<1>4. /\ r \in Nat \ {0} /\ q * r \in Nat /\ w * r \in Nat
      /\ x \in Nat /\ x < r /\ y \in Nat /\ y < r /\ q * r + x = w * r + y
  BY <1>1, <1>2, <1>3
<1> HIDE DEF r, x, y
<1>5. q = w
  BY <1>4
<1> QED BY <1>1, <1>2, <1>5

-----------------------------------------------------------------------------
(* Arrays and stacks *)

IsArray(s) == \E S : s \in Seq(S)

\* Filling in maxima does not change the size.
LEMMA MappedArray ==
  ASSUME NEW e, NEW n \in Nat, NEW S, e \in [1..n -> S]
  PROVE  IsArray(e) /\ Len(e) = n
<1>1. e \in Seq(S)
  BY SeqDef
<1>2. Len(e) \in Nat /\ DOMAIN e = 1..Len(e) /\ DOMAIN e = 1..n
  BY <1>1, LenProperties
<1> QED BY <1>1, <1>2 DEF IsArray

\* A stack without its top
LEMMA WithoutTop ==
  ASSUME NEW s \in Seq(Cells), s # <<>>
  PROVE  LET p == SubSeq(s, 1, Len(s) - 1)
         IN /\ Len(s) \in Nat \ {0} /\ p \in Seq(Cells) /\ Len(p) = Len(s) - 1
            /\ \A i \in 1..Len(p) : p[i] = s[i]
<1> DEFINE n == Len(s)
           p == SubSeq(s, 1, n - 1)
<1>1. n \in Nat \ {0}
  BY EmptySeq
<1>2. \A i \in 1..(n - 1) : s[i] \in Cells
  BY <1>1, ElementOfSeq
<1>3. /\ p \in Seq(Cells)
      /\ Len(p) = IF 1 <= n - 1 THEN n - 1 - 1 + 1 ELSE 0
      /\ \A i \in 1..(n - 1 - 1 + 1) : p[i] = s[1 + i - 1]
  <2>1. 1 \in Int /\ n - 1 \in Int
    BY <1>1
  <2> HIDE DEF n
  <2> QED BY <2>1, <1>2, SubSeqProperties DEF n
<1> HIDE DEF n, p
<1>4. Len(p) = n - 1
  BY <1>1, <1>3
<1>5. \A i \in 1..Len(p) : p[i] = s[i]
  BY <1>1, <1>3, <1>4
<1> QED BY <1>1, <1>3, <1>4, <1>5 DEF n, p

-----------------------------------------------------------------------------
(* The inductive invariant of the stack's height *)

\* While the levels are filled in, the array has all of the last one's leaves.
Levels == phase = "level" => lvl \in Nat \ {0} /\ 2^(lvl - 1) <= Size

\* The tree of an indexed array that is not empty has its root's left half.
Rooted ==
  phase \in {"ready", "overlap", "found"} =>
    /\ max_level \in Int
    /\ max_level >= 0 => 2^max_level <= Size

\* The nth cell from the bottom is at least n - 1 levels below the root.
Falling(s) ==
  /\ s \in Seq(Cells)
  /\ \A n \in 1..Len(s) : s[n].k + n <= max_level + 1

StackInv == phase = "overlap" => max_level \in Nat /\ Falling(stack)

TreeInv == IsArray(a) /\ Levels /\ Rooted /\ StackInv

LEMMA ArraySize ==
  ASSUME IsArray(a)
  PROVE  Size \in Nat /\ DOMAIN a = 1..Size
BY LenProperties DEF IsArray, Size

\* Without its top, a falling stack falls; on top of that fits any cell of a
\* level as low as the top's.
LEMMA FallingPopped ==
  ASSUME max_level \in Nat, Falling(stack), stack # <<>>
  PROVE  /\ Falling(Popped)
         /\ Top \in Cells
         /\ Len(Popped) + 1 = Len(stack)
         /\ Top.k + Len(Popped) <= max_level
<1> DEFINE n == Len(stack)
<1>1. stack \in Seq(Cells) /\ n \in Nat \ {0}
  BY EmptySeq DEF Falling
<1>2. n \in 1..n /\ Top \in Cells
  BY <1>1, ElementOfSeq DEF Top
<1>3. /\ Popped \in Seq(Cells) /\ Len(Popped) = n - 1
      /\ \A i \in 1..Len(Popped) : Popped[i] = stack[i]
  BY <1>1, WithoutTop DEF Popped
<1>6. \A i \in 1..Len(Popped) : Popped[i] = stack[i] /\ i \in 1..n
  BY <1>1, <1>3
<1>7. Falling(Popped)
  BY <1>3, <1>6 DEF Falling
<1>8. Top.k + n <= max_level + 1
  BY <1>2 DEF Falling, Top
<1>9. Top.k \in Nat
  BY <1>2 DEF Cells
<1> QED BY <1>1, <1>2, <1>3, <1>7, <1>8, <1>9

LEMMA FallingPushed ==
  ASSUME max_level \in Nat, NEW s, Falling(s),
         NEW c \in Cells, c.k + Len(s) <= max_level
  PROVE  Falling(s \o <<c>>) /\ Len(s \o <<c>>) = Len(s) + 1
<1>1. s \in Seq(Cells) /\ <<c>> \in Seq(Cells) /\ Len(<<c>>) = 1 /\ Len(s) \in Nat
  BY LenProperties DEF Falling
<1>2. /\ s \o <<c>> \in Seq(Cells)
      /\ Len(s \o <<c>>) = Len(s) + 1
      /\ \A i \in 1..Len(s) + 1 : (s \o <<c>>)[i] = IF i <= Len(s) THEN s[i] ELSE <<c>>[i - Len(s)]
  BY <1>1, ConcatProperties
<1>3. c.k \in Nat
  BY DEF Cells
<1>4. ASSUME NEW i \in 1..Len(s) + 1
      PROVE  (s \o <<c>>)[i].k + i <= max_level + 1
  <2>1. CASE i <= Len(s)
    <3>1. (s \o <<c>>)[i] = s[i] /\ i \in 1..Len(s)
      BY <1>1, <1>2, <2>1
    <3> QED BY <3>1 DEF Falling
  <2>2. CASE ~ i <= Len(s)
    <3>1. i = Len(s) + 1 /\ (s \o <<c>>)[i] = c
      BY <1>1, <1>2, <2>2
    <3> QED BY <3>1, <1>1, <1>3
  <2> QED BY <2>1, <2>2
<1> QED BY <1>2, <1>4 DEF Falling

-----------------------------------------------------------------------------
(* The stack is no higher than the tree: the steps *)

LEMMA InitInv == TreeInit => TreeInv
<1> SUFFICES ASSUME TreeInit PROVE TreeInv
  OBVIOUS
<1>1. IsArray(a)
  BY EmptySeq DEF TreeInit, IsArray
<1> QED BY <1>1 DEF TreeInit, TreeInv, Levels, Rooted, StackInv

LEMMA AddInv ==
  ASSUME TreeInv, NEW s \in Points, NEW e \in Points, NEW d \in Payloads, Add(s, e, d)
  PROVE  TreeInv'
<1> DEFINE new == [st |-> s, en |-> e, max |-> e, data |-> d]
<1>1. PICK S : a \in Seq(S)
  BY DEF TreeInv, IsArray
<1>2. a' = Append(a, new)
  BY DEF Add
<1>3. a \in Seq(S \cup {new})
  BY <1>1, SeqMonotonic
<1>4. a' \in Seq(S \cup {new})
  BY <1>2, <1>3
<1> QED BY <1>4 DEF Add, TreeInv, IsArray, Levels, Rooted, StackInv

LEMMA ExchangeInv ==
  ASSUME TreeInv, NEW i \in 0..(Size - 2), Exchange(i)
  PROVE  TreeInv'
<1>1. PICK S : a \in Seq(S)
  BY DEF TreeInv, IsArray
<1>2. Size \in Nat /\ a \in [1..Size -> S]
  BY <1>1, LenProperties DEF Size
<1>3. a' = [a EXCEPT ![i + 1] = a[i + 2], ![i + 2] = a[i + 1]]
  BY DEF Exchange
<1>4. i + 1 \in 1..Size /\ i + 2 \in 1..Size
  BY <1>2
<1>5. a' \in [1..Size -> S]
  BY <1>2, <1>3, <1>4
<1>6. IsArray(a')
  BY <1>2, <1>5, MappedArray
<1> QED BY <1>6 DEF Exchange, TreeInv, IsArray, Levels, Rooted, StackInv

LEMMA LeavesInv == ASSUME TreeInv, Leaves PROVE TreeInv'
<1>1. Size \in Nat
  BY ArraySize DEF TreeInv
<1>2. CASE Size = 0
  BY <1>2 DEF Leaves, TreeInv, IsArray, Levels, Rooted, StackInv, Size
<1>3. CASE Size # 0
  <2> DEFINE f == [j \in 1..Size |-> IF (j - 1) % 2 = 0
                                     THEN [a[j] EXCEPT !.max = a[j].en] ELSE a[j]]
             S == {f[j] : j \in 1..Size}
  <2>1. a' = f /\ lvl' = 1 /\ phase' = "level"
    BY <1>3 DEF Leaves
  <2>2. f \in [1..Size -> S]
    OBVIOUS
  <2>3. IsArray(a') /\ Size' = Size
    <3> HIDE DEF f, S
    <3> QED BY <1>1, <2>1, <2>2, MappedArray DEF Size
  <2>4. lvl' \in Nat \ {0} /\ 2^(lvl' - 1) <= Size'
    <3>1. 2^0 = 1
      OBVIOUS
    <3>2. lvl' - 1 = 0
      BY <2>1
    <3> QED BY <3>1, <3>2, <2>1, <2>3, <1>1, <1>3
  <2> QED BY <2>1, <2>3, <2>4 DEF TreeInv, IsArray, Levels, Rooted, StackInv
<1> QED BY <1>2, <1>3

LEMMA LevelInv == ASSUME TreeInv, Level PROVE TreeInv'
<1> DEFINE f == [j \in 1..Size |-> IF IsOfLevel(j - 1, lvl)
                                   THEN [a[j] EXCEPT !.max = Below(j - 1, lvl)] ELSE a[j]]
           S == {f[j] : j \in 1..Size}
<1>1. Size \in Nat
  BY ArraySize DEF TreeInv
<1>2. a' = f /\ lvl' = lvl + 1 /\ phase = "level" /\ phase' = "level" /\ 2^lvl <= Size
  BY DEF Level
<1>3. f \in [1..Size -> S]
  OBVIOUS
<1>4. IsArray(a') /\ Size' = Size
  <2> HIDE DEF f, S
  <2> QED BY <1>1, <1>2, <1>3, MappedArray DEF Size
<1>5. lvl \in Nat \ {0} /\ lvl' - 1 = lvl /\ lvl' \in Nat \ {0}
  BY <1>2 DEF TreeInv, Levels
<1>6. 2^(lvl' - 1) <= Size'
  BY <1>2, <1>4, <1>5
<1> QED BY <1>2, <1>4, <1>5, <1>6 DEF TreeInv, IsArray, Levels, Rooted, StackInv

LEMMA IndexedInv == ASSUME TreeInv, Indexed PROVE TreeInv'
BY DEF Indexed, TreeInv, IsArray, Levels, Rooted, StackInv, Size

LEMMA OverlapInv ==
  ASSUME TreeInv, NEW s \in Points, NEW e \in Points, Overlap(s, e)
  PROVE  TreeInv'
<1>0. IsArray(a') /\ max_level' = max_level /\ max_level \in Int /\ Size' = Size
  BY DEF Overlap, TreeInv, IsArray, Rooted, Size
<1>1. max_level >= 0 => 2^max_level <= Size
  BY DEF Overlap, TreeInv, Rooted
<1>2. CASE max_level < 0
  BY <1>0, <1>1, <1>2 DEF Overlap, TreeInv, IsArray, Levels, Rooted, StackInv
<1>3. CASE ~ max_level < 0
  <2> DEFINE root == [k |-> max_level, x |-> 2^max_level - 1, w |-> 0]
  <2>1. max_level \in Nat
    BY <1>0, <1>3
  <2>2. root \in Cells
    BY <2>1, PowerBounds DEF Cells
  <2>3. stack' = <<root>> /\ phase' = "overlap"
    BY <1>3 DEF Overlap
  <2>4. stack' \in Seq(Cells) /\ Len(stack') = 1 /\ stack'[1] = root
    BY <2>2, <2>3
  <2>5. Falling(stack)'
    <3> HIDE DEF root
    <3>1. root.k = max_level
      BY DEF root
    <3>2. SUFFICES ASSUME NEW n \in 1..Len(stack')
                   PROVE  stack'[n].k + n <= max_level' + 1
      BY <2>4 DEF Falling
    <3>3. n = 1
      BY <2>4
    <3> QED BY <3>1, <3>3, <2>4, <1>0, <2>1
  <2> QED BY <1>0, <1>1, <2>1, <2>3, <2>5 DEF TreeInv, Levels, Rooted, StackInv
<1> QED BY <1>2, <1>3

LEMMA GoLeftInv == ASSUME TreeInv, GoLeft PROVE TreeInv'
<1> DEFINE z == Top
           y == z.x - 2^(z.k - 1)
           again == [k |-> z.k, x |-> z.x, w |-> 1]
           left == [k |-> z.k - 1, x |-> y, w |-> 0]
<1>1. max_level \in Nat /\ Falling(stack) /\ stack # <<>> /\ z.k > SmallLevel
  BY DEF GoLeft, TreeInv, StackInv
<1>2. /\ Falling(Popped) /\ z \in Cells /\ Len(Popped) \in Nat
      /\ z.k + Len(Popped) <= max_level
  BY <1>1, FallingPopped, LenProperties DEF Falling
<1>3. z.k \in Nat /\ z.x \in Int /\ z.k - 1 \in Nat
  BY <1>1, <1>2, TreeAssumption DEF Cells
<1>4. again \in Cells /\ left \in Cells
  BY <1>3, PowerBounds DEF Cells
<1>5. /\ Falling(Popped \o <<again>>)
      /\ Len(Popped \o <<again>>) = Len(Popped) + 1
  <2>1. again.k + Len(Popped) <= max_level
    BY <1>2
  <2> HIDE DEF again
  <2> QED BY <2>1, <1>1, <1>2, <1>4, FallingPushed
<1>6. Falling((Popped \o <<again>>) \o <<left>>)
  <2>1. left.k + Len(Popped \o <<again>>) <= max_level
    BY <1>2, <1>3, <1>5
  <2> HIDE DEF again, left
  <2> QED BY <2>1, <1>1, <1>4, <1>5, FallingPushed
<1>7. (Popped \o <<again>>) \o << >> = Popped \o <<again>>
  BY <1>5, ConcatEmptySeq DEF Falling
<1>8. stack' = IF VisitLeft(y) THEN (Popped \o <<again>>) \o <<left>>
                               ELSE (Popped \o <<again>>) \o << >>
  BY DEF GoLeft, Visited
<1>9. Falling(stack') /\ max_level' = max_level
  <2> HIDE DEF again, left, y
  <2> QED BY <1>5, <1>6, <1>7, <1>8 DEF GoLeft
<1>10. Falling(stack)'
  BY <1>9 DEF Falling
<1> QED BY <1>1, <1>9, <1>10
        DEF GoLeft, TreeInv, IsArray, Levels, Rooted, StackInv, Size

LEMMA GoRightInv == ASSUME TreeInv, GoRight PROVE TreeInv'
<1> DEFINE z == Top
           right == [k |-> z.k - 1, x |-> z.x + 2^(z.k - 1), w |-> 0]
<1>1. max_level \in Nat /\ Falling(stack) /\ stack # <<>> /\ z.k > SmallLevel
  BY DEF GoRight, TreeInv, StackInv
<1>2. /\ Falling(Popped) /\ z \in Cells /\ Len(Popped) \in Nat
      /\ z.k + Len(Popped) <= max_level
  BY <1>1, FallingPopped, LenProperties DEF Falling
<1>3. z.k \in Nat /\ z.x \in Int /\ z.k - 1 \in Nat
  BY <1>1, <1>2, TreeAssumption DEF Cells
<1>4. right \in Cells
  BY <1>3, PowerBounds DEF Cells
<1>5. Falling(Popped \o <<right>>)
  <2>1. right.k + Len(Popped) <= max_level
    <3>1. right.k = z.k - 1
      OBVIOUS
    <3> HIDE DEF right, z
    <3> QED BY <3>1, <1>1, <1>2, <1>3
  <2> HIDE DEF right
  <2> QED BY <2>1, <1>1, <1>2, <1>4, FallingPushed
<1>6. Append(Popped, right) = Popped \o <<right>>
  <2> HIDE DEF right
  <2>1. Popped \in Seq(Cells)
    BY <1>2 DEF Falling
  <2> QED BY <2>1, <1>4, AppendIsConcat
<1>7. stack' = Append(Popped, right) \/ stack' = Popped
  BY DEF GoRight
<1>8. Falling(stack') /\ max_level' = max_level
  <2> HIDE DEF right
  <2> QED BY <1>2, <1>5, <1>6, <1>7 DEF GoRight
<1>9. Falling(stack)'
  BY <1>8 DEF Falling
<1> QED BY <1>1, <1>8, <1>9
        DEF GoRight, TreeInv, IsArray, Levels, Rooted, StackInv, Size

LEMMA ScanInv == ASSUME TreeInv, Scan PROVE TreeInv'
<1>1. max_level \in Nat /\ Falling(stack) /\ stack # <<>>
  BY DEF Scan, TreeInv, StackInv
<1>2. stack' = Popped /\ max_level' = max_level /\ a' = a /\ phase' = phase /\ lvl' = lvl
  BY DEF Scan
<1>3. Falling(stack)'
  BY <1>1, <1>2, FallingPopped DEF Falling
<1> QED BY <1>1, <1>2, <1>3 DEF TreeInv, IsArray, Levels, Rooted, StackInv, Size

LEMMA StepInv == TreeInv /\ [TreeNext]_treeVars => TreeInv'
<1> SUFFICES ASSUME TreeInv, [TreeNext]_treeVars PROVE TreeInv'
  OBVIOUS
<1>1. ASSUME NEW s \in Points, NEW e \in Points, NEW d \in Payloads, Add(s, e, d)
      PROVE  TreeInv'
  BY <1>1, AddInv
<1>2. CASE Index
  BY <1>2 DEF Index, TreeInv, IsArray, Levels, Rooted, StackInv
<1>3. CASE IndexStep
  BY <1>3, ExchangeInv, LeavesInv, LevelInv, IndexedInv DEF IndexStep
<1>4. ASSUME NEW s \in Points, NEW e \in Points, Overlap(s, e) PROVE TreeInv'
  BY <1>4, OverlapInv
<1>5. CASE Return
  BY <1>5 DEF Return, TreeInv, IsArray, Levels, Rooted, StackInv, Size
<1>6. CASE OverlapStep
  BY <1>5, <1>6, ScanInv, GoLeftInv, GoRightInv DEF OverlapStep
<1>7. CASE UNCHANGED treeVars
  BY <1>7 DEF treeVars, TreeInv, IsArray, Levels, Rooted, StackInv, Falling, Size
<1> QED BY <1>1, <1>2, <1>3, <1>4, <1>6, <1>7 DEF TreeNext

LEMMA InvBounds == TreeInv => StackBounded
<1> SUFFICES ASSUME TreeInv, phase = "overlap"
             PROVE  Len(stack) <= max_level + 1 /\ 2^max_level <= Size
  BY DEF StackBounded
<1>1. max_level \in Nat /\ Falling(stack) /\ 2^max_level <= Size
  BY DEF TreeInv, StackInv, Rooted
<1>2. stack \in Seq(Cells) /\ Len(stack) \in Nat
  BY <1>1, LenProperties DEF Falling
<1>3. CASE Len(stack) = 0
  BY <1>1, <1>3
<1>4. CASE Len(stack) # 0
  <2>1. Len(stack) \in 1..Len(stack)
    BY <1>2, <1>4
  <2>2. stack[Len(stack)].k \in Nat
    <3>1. stack[Len(stack)] \in Cells
      BY <2>1, <1>2, ElementOfSeq
    <3> QED BY <3>1 DEF Cells
  <2>3. stack[Len(stack)].k + Len(stack) <= max_level + 1
    BY <2>1, <1>1 DEF Falling
  <2> QED BY <2>2, <2>3, <1>1, <1>2
<1> QED BY <1>3, <1>4

(* The stack of overlap has at most one cell for each level of the tree, and *)
(* the array has at least 2^max_level intervals: 64 cells are enough for     *)
(* every array that fits a memory (IITree.h:82, 96-101).                     *)
THEOREM StackFits == TreeSpec => []StackBounded
<1>1. TreeSpec => []TreeInv
  BY InitInv, StepInv, PTL DEF TreeSpec
<1> QED BY <1>1, InvBounds, PTL

-----------------------------------------------------------------------------
(* The inductive invariant of index *)

\* The nodes of an array of n below node i of level k, that one included
Nodes(n, i, k) == {j \in 0..(n - 1) : i - 2^k < j /\ j < i + 2^k}

\* m is the largest end there.
MaxIn(s, m, i, k) == /\ \A j \in Nodes(Len(s), i, k) : s[j + 1].en <= m
                     /\ \E j \in Nodes(Len(s), i, k) : s[j + 1].en = m

\* The maxima of one level are those of the subtrees.
RightAt(s, k) ==
  \A i \in 0..(Len(s) - 1) : IsOfLevel(i, k) => MaxIn(s, s[i + 1].max, i, k)

\* The last leaf of an array of n
LastLeaf(n) == ((n - 1) \div 2) * 2

\* The levels below lvl are done, and last is the largest end below the node
\* of the last of them, in the array or not, that has the last leaf below it.
LevelsDone ==
  /\ lvl \in Nat \ {0} /\ Size > 0
  /\ \A k \in 0..(lvl - 1) : RightAt(a, k)
  /\ last_i \in Nat /\ IsOfLevel(last_i, lvl - 1)
  /\ last_i - 2^(lvl - 1) < LastLeaf(Size) /\ LastLeaf(Size) < last_i + 2^(lvl - 1)
  /\ MaxIn(a, last, last_i, lvl - 1)

\* The root has the whole array below it.
Covered == \/ max_level = -1 /\ Size = 0
           \/ max_level \in Nat /\ Size < 2^(max_level + 1)

MaximaInv ==
  /\ a \in Seq(Intervals)
  /\ phase = "level" => LevelsDone
  /\ phase \in {"ready", "overlap", "found"} => Covered /\ \A k \in Nat : RightAt(a, k)

-----------------------------------------------------------------------------
(* Maxima *)

LEMMA ElementTyped ==
  ASSUME NEW s \in Seq(Intervals)
  PROVE  /\ Len(s) \in Nat
         /\ \A j \in 0..(Len(s) - 1) :
              /\ j + 1 \in 1..Len(s) /\ s[j + 1] \in Intervals
              /\ s[j + 1].st \in Nat /\ s[j + 1].en \in Nat /\ s[j + 1].en \in Points
<1>1. Len(s) \in Nat
  OBVIOUS
<1>2. ASSUME NEW j \in 0..(Len(s) - 1) PROVE j + 1 \in 1..Len(s) /\ s[j + 1] \in Intervals
  <2>1. j + 1 \in 1..Len(s)
    BY <1>1
  <2> QED BY <2>1, ElementOfSeq
<1>3. \A e \in Intervals : e.st \in Nat /\ e.en \in Nat /\ e.en \in Points
  BY TreeAssumption DEF Intervals
<1> QED BY <1>1, <1>2, <1>3

LEMMA MaxTyped ==
  ASSUME NEW s \in Seq(Intervals), NEW m, NEW i, NEW k, MaxIn(s, m, i, k)
  PROVE  m \in Points /\ m \in Nat
<1>1. PICK j \in Nodes(Len(s), i, k) : s[j + 1].en = m
  BY DEF MaxIn
<1>2. j \in 0..(Len(s) - 1)
  BY <1>1 DEF Nodes
<1> QED BY <1>1, <1>2, ElementTyped

\* Maxima are about ends only.
LEMMA MaxKept ==
  ASSUME NEW s, NEW t, Len(t) = Len(s),
         \A j \in 0..(Len(s) - 1) : t[j + 1].en = s[j + 1].en,
         NEW m, NEW i, NEW k, MaxIn(s, m, i, k)
  PROVE  MaxIn(t, m, i, k)
<1>1. \A j \in Nodes(Len(s), i, k) : t[j + 1].en = s[j + 1].en
  BY DEF Nodes
<1> QED BY <1>1 DEF MaxIn

LEMMA MaxOfParts ==
  ASSUME NEW s \in Seq(Intervals), NEW i \in 0..(Len(s) - 1), NEW k,
         NEW A, NEW B, Nodes(Len(s), i, k) = A \cup B \cup {i},
         NEW el, \A j \in A : s[j + 1].en <= el, \E j \in A : s[j + 1].en = el,
         NEW er, \A j \in B : s[j + 1].en <= er, \E j \in A \cup B : s[j + 1].en = er
  PROVE  MaxIn(s, Larger(Larger(s[i + 1].en, el), er), i, k)
<1> DEFINE en(j) == s[j + 1].en
           m == Larger(Larger(en(i), el), er)
           N == Nodes(Len(s), i, k)
<1>1. \A j \in N : en(j) \in Nat
  BY ElementTyped DEF Nodes
<1>2. /\ \A j \in A : en(j) <= el
      /\ \E j \in A : en(j) = el
      /\ \A j \in B : en(j) <= er
      /\ \E j \in A \cup B : en(j) = er
      /\ N = A \cup B \cup {i}
  OBVIOUS
<1> HIDE DEF en, N
<1>3. el \in Nat /\ er \in Nat /\ en(i) \in Nat
  BY <1>1, <1>2
<1>4. m >= en(i) /\ m >= el /\ m >= er /\ (m = en(i) \/ m = el \/ m = er)
  BY <1>3 DEF Larger
<1> HIDE DEF m
<1>5. m \in Nat
  BY <1>3, <1>4
<1>6. ASSUME NEW j \in N PROVE en(j) <= m
  BY <1>1, <1>2, <1>3, <1>4, <1>5, <1>6
<1>7. \E j \in N : en(j) = m
  BY <1>2, <1>4
<1> QED BY <1>6, <1>7 DEF MaxIn, N, en, m

\* A subtree is what is below the children, and its root.
LEMMA NodesSplit ==
  ASSUME NEW n \in Nat, NEW i \in 0..(n - 1), NEW k \in Nat \ {0}, IsOfLevel(i, k)
  PROVE  Nodes(n, i, k) = Nodes(n, i - 2^(k - 1), k - 1)
                          \cup Nodes(n, i + 2^(k - 1), k - 1) \cup {i}
<1> DEFINE x == 2^(k - 1)
           p == 2^k
           A == {j \in 0..(n - 1) : (i - x) - x < j /\ j < (i - x) + x}
           B == {j \in 0..(n - 1) : (i + x) - x < j /\ j < (i + x) + x}
           N == {j \in 0..(n - 1) : i - p < j /\ j < i + p}
<1>1. x \in Nat \ {0} /\ p = 2 * x /\ i \in Nat
  <2>1. k - 1 \in Nat /\ i \in Nat
    OBVIOUS
  <2> QED BY <2>1, PowerBounds, Children
<1> HIDE DEF x, p
<1>2. N = A \cup B \cup {i}
  BY <1>1
<1> QED BY <1>2 DEF Nodes, x, p

LEMMA BelowRight ==
  ASSUME a \in Seq(Intervals), LevelsDone,
         NEW i \in 0..(Size - 1), IsOfLevel(i, lvl)
  PROVE  MaxIn(a, Below(i, lvl), i, lvl)
<1> DEFINE k == lvl
           l == k - 1
           x == 2^l
           n == Size
           left == i - x
           right == i + x
           m == LastLeaf(n)
           A == Nodes(n, left, l)
           B == Nodes(n, right, l)
           el == Node(left).max
           er == IF right < n THEN Node(right).max ELSE last
<1>1. /\ k \in Nat \ {0} /\ l \in Nat /\ n \in Nat \ {0} /\ i \in Nat /\ i < n
      /\ x \in Nat \ {0} /\ last_i \in Nat
      /\ left \in Nat /\ right \in Nat /\ IsOfLevel(left, l) /\ IsOfLevel(right, l)
      /\ IsOfLevel(last_i, l)
      /\ Nodes(n, i, k) = A \cup B \cup {i}
  <2>1. k \in Nat \ {0} /\ l \in Nat /\ n \in Nat \ {0} /\ i \in Nat /\ last_i \in Nat
        /\ IsOfLevel(last_i, l)
    BY ElementTyped DEF LevelsDone, Size
  <2>2. x \in Nat \ {0}
    BY <2>1, PowerBounds
  <2>3. left \in Nat /\ right \in Nat /\ IsOfLevel(left, l) /\ IsOfLevel(right, l)
    <3> HIDE DEF n
    <3> QED BY <2>1, Children
  <2>4. Nodes(n, i, k) = A \cup B \cup {i}
    <3> HIDE DEF n
    <3> QED BY <2>1, NodesSplit DEF n
  <2> QED BY <2>1, <2>2, <2>3, <2>4
<1>2. /\ m \in Nat /\ (m = n - 1 \/ m = n - 2) /\ m % 2 = 0
      /\ last_i - x < m /\ m < last_i + x
  <2>1. last_i - x < m /\ m < last_i + x
    BY DEF LevelsDone
  <2>2. m = ((n - 1) \div 2) * 2
    BY DEF LastLeaf
  <2> HIDE DEF n, m
  <2> QED BY <1>1, <2>1, <2>2
<1>3. m # i
  <2>1. i % 2 = 0 => IsOfLevel(i, 0)
    <3>1. 2^0 = 1 /\ 2^(0 + 1) = 2 * 2^0
      BY Doubles
    <3> QED BY <3>1 DEF IsOfLevel
  <2>2. i % 2 # 0
    BY <1>1, <2>1, LevelUnique
  <2> HIDE DEF m
  <2> QED BY <1>2, <2>2
<1>4. Below(i, k) = Larger(Larger(Node(i).en, el), er)
  BY DEF Below
<1>5. MaxIn(a, el, left, l)
  <2>1. RightAt(a, l)
    BY <1>1 DEF LevelsDone
  <2>2. left \in 0..(n - 1)
    <3> HIDE DEF n
    <3> QED BY <1>1
  <2> QED BY <1>1, <2>1, <2>2 DEF RightAt, Node, Size
<1>6. /\ \A j \in A : a[j + 1].en <= el
      /\ \E j \in A : a[j + 1].en = el
  BY <1>5 DEF MaxIn, Size
<1>7. /\ \A j \in B : a[j + 1].en <= er
      /\ \E j \in A \cup B : a[j + 1].en = er
  <2>1. CASE right < n
    <3>1. RightAt(a, l)
      BY <1>1 DEF LevelsDone
    <3>2. right \in 0..(n - 1)
      <4> HIDE DEF n
      <4> QED BY <1>1, <2>1
    <3>3. MaxIn(a, er, right, l)
      BY <1>1, <2>1, <3>1, <3>2 DEF RightAt, Node, Size
    <3> QED BY <3>3 DEF MaxIn, Size
  <2>2. CASE ~ right < n
    <3>1. er = last /\ MaxIn(a, last, last_i, l)
      BY <2>2 DEF LevelsDone
    <3>2. CASE m < i
      <4>1. left - x < m /\ m < left + x
        <5> HIDE DEF x, m, n
        <5> QED BY <1>1, <1>2, <3>2
      <4>2. last_i = left
        BY <1>1, <1>2, <4>1, SameNode
      <4>3. B = {}
        <5>1. n <= i + 1
          <6> HIDE DEF m, n
          <6> QED BY <1>1, <1>2, <3>2
        <5>2. \A j \in B : j \in 0..(n - 1) /\ right - x < j
          BY DEF Nodes
        <5> HIDE DEF B, n, x
        <5> QED BY <1>1, <5>1, <5>2
      <4>4. \E j \in A : a[j + 1].en = er
        BY <3>1, <4>2 DEF MaxIn, Size
      <4> HIDE DEF A, B
      <4> QED BY <4>3, <4>4
    <3>3. CASE i < m
      <4>1. right - x < m /\ m < right + x
        <5> HIDE DEF x, m, n
        <5> QED BY <1>1, <1>2, <2>2, <3>3
      <4>2. last_i = right
        BY <1>1, <1>2, <4>1, SameNode
      <4> QED BY <3>1, <4>2 DEF MaxIn, Size
    <3> HIDE DEF m
    <3> QED BY <1>1, <1>2, <1>3, <3>2, <3>3
  <2> QED BY <2>1, <2>2
<1> HIDE DEF A, B, el, er
<1>8. Nodes(Len(a), i, k) = A \cup B \cup {i}
  BY <1>1 DEF Size
<1>9. i \in 0..(Len(a) - 1)
  BY DEF Size
<1>10. MaxIn(a, Larger(Larger(a[i + 1].en, el), er), i, k)
  <2> HIDE DEF k
  <2> QED BY <1>6, <1>7, <1>8, <1>9, MaxOfParts
<1> QED BY <1>4, <1>10 DEF Node

LEMMA PowerStart == 2^0 = 1 /\ 2^(0 + 1) = 2
<1>1. 2^0 = 1 /\ 2^(0 + 1) = 2 * 2^0
  BY Doubles
<1> QED BY <1>1

\* A leaf is all of its subtree.
LEMMA LeafNodes ==
  ASSUME NEW n \in Nat, NEW i \in 0..(n - 1)
  PROVE  Nodes(n, i, 0) = {i}
BY PowerStart DEF Nodes

-----------------------------------------------------------------------------
(* The steps of index *)

LEMMA LeavesMaxima ==
  ASSUME a \in Seq(Intervals), Leaves
  PROVE  MaximaInv'
<1> DEFINE n == Size
           m == LastLeaf(n)
           t == [j \in 1..n |-> IF (j - 1) % 2 = 0 THEN [a[j] EXCEPT !.max = a[j].en]
                                                   ELSE a[j]]
<1>1. n \in Nat /\ n = Len(a)
  BY ElementTyped DEF Size
<1>2. CASE n = 0
  <2>1. a' = a /\ phase' = "ready"
    BY <1>2 DEF Leaves
  <2>2. 0..(Len(a) - 1) = {}
    <3>1. Len(a) - 1 = -1
      BY <1>1, <1>2
    <3> QED BY <3>1
  <2>3. \A k \in Nat : RightAt(a', k)
    BY <2>1, <2>2 DEF RightAt
  <2>4. max_level' = -1 /\ Size' = 0
    BY <1>2, <2>1 DEF Leaves, Size
  <2> QED BY <2>1, <2>3, <2>4 DEF MaximaInv, Covered
<1>3. CASE n # 0
  <2>1. /\ a' = t /\ last_i' = m /\ last' = Node(m).en /\ lvl' = 1 /\ phase' = "level"
    BY <1>3 DEF Leaves, LastLeaf
  <2>2. m \in 0..(n - 1) /\ m % 2 = 0
    <3>1. m = ((n - 1) \div 2) * 2
      BY DEF LastLeaf
    <3> HIDE DEF n, m
    <3> QED BY <1>1, <1>3, <3>1
  <2> HIDE DEF m
  <2>3. ASSUME NEW j \in 1..n
        PROVE  /\ t[j] \in Intervals /\ t[j].en = a[j].en
               /\ (j - 1) % 2 = 0 => t[j].max = a[j].en
    <3>1. a[j] \in Intervals /\ a[j].en \in Points
      <4>1. j - 1 \in 0..(Len(a) - 1) /\ (j - 1) + 1 = j
        <5> HIDE DEF n
        <5> QED BY <1>1
      <4>2. a[(j - 1) + 1] \in Intervals /\ a[(j - 1) + 1].en \in Points
        BY <4>1, ElementTyped
      <4> QED BY <4>1, <4>2
    <3>2. CASE (j - 1) % 2 = 0
      <4>1. t[j] = [a[j] EXCEPT !.max = a[j].en]
        BY <3>2
      <4> HIDE DEF t
      <4> QED BY <3>1, <4>1 DEF Intervals
    <3>3. CASE ~ (j - 1) % 2 = 0
      <4>1. t[j] = a[j]
        BY <3>3
      <4> HIDE DEF t
      <4> QED BY <3>1, <3>3, <4>1
    <3> QED BY <3>2, <3>3
  <2>4. t \in Seq(Intervals) /\ Len(t) = n
    <3>1. t \in [1..n -> Intervals]
      BY <2>3
    <3> HIDE DEF t, n
    <3>2. t \in Seq(Intervals)
      BY <1>1, <3>1, SeqDef
    <3> QED BY <1>1, <3>1, <3>2, LenProperties
  <2>5. \A i \in 0..(n - 1) : /\ t[i + 1].en = a[i + 1].en
                              /\ i % 2 = 0 => t[i + 1].max = t[i + 1].en
    <3> SUFFICES ASSUME NEW i \in 0..(n - 1)
                 PROVE  /\ t[i + 1].en = a[i + 1].en
                        /\ i % 2 = 0 => t[i + 1].max = t[i + 1].en
      OBVIOUS
    <3> DEFINE j == i + 1
    <3>1. j \in 1..n /\ j - 1 = i
      <4> HIDE DEF n
      <4> QED BY <1>1
    <3> HIDE DEF j, t, n
    <3>2. /\ t[j].en = a[j].en
          /\ (j - 1) % 2 = 0 => t[j].max = a[j].en
      BY <2>3, <3>1
    <3> QED BY <3>1, <3>2 DEF j
  <2> HIDE DEF t, n
  <2>6. RightAt(t, 0)
    <3> SUFFICES ASSUME NEW i \in 0..(n - 1), IsOfLevel(i, 0)
                 PROVE  MaxIn(t, t[i + 1].max, i, 0)
      BY <2>4 DEF RightAt
    <3>1. i % 2 = 0
      BY PowerStart DEF IsOfLevel
    <3>2. Nodes(Len(t), i, 0) = {i}
      BY <1>1, <2>4, LeafNodes
    <3>3. t[i + 1].max = t[i + 1].en /\ t[i + 1].en \in Nat
      BY <2>4, <2>5, <3>1, ElementTyped
    <3> DEFINE m1 == t[i + 1].max
    <3>4. \A j \in {i} : t[j + 1].en <= m1
      BY <3>3
    <3>5. \E j \in {i} : t[j + 1].en = m1
      BY <3>3
    <3> HIDE DEF m1
    <3>6. MaxIn(t, m1, i, 0)
      BY <3>2, <3>4, <3>5 DEF MaxIn
    <3> QED BY <3>6 DEF m1
  <2>7. \A k \in 0..(lvl' - 1) : RightAt(t, k)
    <3>1. \A k \in 0..(lvl' - 1) : k = 0
      BY <2>1
    <3> QED BY <2>6, <3>1
  <2>8. m \in Nat /\ IsOfLevel(m, lvl' - 1) /\ lvl' - 1 = 0
    <3>1. m \in Nat /\ lvl' - 1 = 0
      BY <1>1, <2>1, <2>2
    <3>2. m % 2^(0 + 1) = 2^0 - 1
      BY <2>2, PowerStart
    <3> QED BY <3>1, <3>2 DEF IsOfLevel
  <2>9. MaxIn(t, last', m, 0)
    <3>1. Nodes(Len(t), m, 0) = {m}
      BY <1>1, <2>2, <2>4, LeafNodes
    <3>2. last' = t[m + 1].en /\ t[m + 1].en \in Nat
      <4>1. last' = a[m + 1].en
        BY <2>1 DEF Node
      <4> QED BY <2>2, <2>4, <2>5, <4>1, ElementTyped
    <3> QED BY <3>1, <3>2 DEF MaxIn
  <2>10. m - 2^0 < m /\ m < m + 2^0
    BY <2>8, PowerStart
  <2>11. LevelsDone'
    <3>1. Size' = n /\ LastLeaf(Size') = m /\ Size' > 0
      BY <1>1, <1>3, <2>1, <2>4 DEF Size, m, n
    <3>2. /\ a' = t /\ last_i' = m /\ lvl' \in Nat \ {0} /\ lvl' - 1 = 0
      BY <2>1, <2>8
    <3> QED BY <2>7, <2>8, <2>9, <2>10, <3>1, <3>2 DEF LevelsDone
  <2> QED BY <2>1, <2>4, <2>11 DEF MaximaInv
<1> QED BY <1>2, <1>3

LEMMA LevelMaxima ==
  ASSUME a \in Seq(Intervals), LevelsDone, Level
  PROVE  a' \in Seq(Intervals) /\ LevelsDone'
<1> DEFINE n == Size
           k == lvl
           l == k - 1
           x == 2^l
           m == LastLeaf(n)
           p == ParentOf(last_i, k)
           t == [j \in 1..n |-> IF IsOfLevel(j - 1, k) THEN [a[j] EXCEPT !.max = Below(j - 1, k)]
                                                       ELSE a[j]]
<1>1. /\ n \in Nat \ {0} /\ n = Len(a) /\ k \in Nat \ {0} /\ l \in Nat
      /\ last_i \in Nat /\ IsOfLevel(last_i, l)
      /\ last_i - x < m /\ m < last_i + x
      /\ MaxIn(a, last, last_i, l)
  BY ElementTyped DEF LevelsDone, Size
<1>2. a' = t /\ last_i' = p /\ last' = LastAt(a', p) /\ lvl' = k + 1
  BY DEF Level
<1>3. /\ p \in Nat /\ IsOfLevel(p, k) /\ (last_i = p - x \/ last_i = p + x)
  BY <1>1, Parent
<1>4. x \in Nat \ {0} /\ 2^k = 2 * x
  <2>1. k - 1 \in Nat /\ (k - 1) + 1 = k
    BY <1>1
  <2> QED BY <2>1, Doubles, PowerBounds
<1>5. m \in 0..(n - 1)
  <2>1. m = ((n - 1) \div 2) * 2
    BY DEF LastLeaf
  <2> HIDE DEF n, m
  <2> QED BY <1>1, <2>1
<1> HIDE DEF m, p
<1>6. ASSUME NEW i \in 0..(n - 1)
      PROVE  /\ t[i + 1] \in Intervals /\ t[i + 1].en = a[i + 1].en
             /\ IF IsOfLevel(i, k) THEN t[i + 1].max = Below(i, k)
                                   ELSE t[i + 1] = a[i + 1]
  <2> DEFINE j == i + 1
  <2>1. j \in 1..n /\ j - 1 = i
    <3> HIDE DEF n
    <3> QED BY <1>1
  <2>2. a[j] \in Intervals
    BY <1>1, ElementTyped
  <2>3. t[j] = IF IsOfLevel(i, k) THEN [a[j] EXCEPT !.max = Below(i, k)] ELSE a[j]
    <3> HIDE DEF j, k, n
    <3> QED BY <2>1
  <2>4. CASE IsOfLevel(i, k)
    <3>1. Below(i, k) \in Points
      <4>1. MaxIn(a, Below(i, k), i, k)
        BY <2>4, BelowRight
      <4> QED BY <4>1, MaxTyped
    <3>2. t[j] = [a[j] EXCEPT !.max = Below(i, k)]
      BY <2>3, <2>4
    <3> HIDE DEF t, k, j
    <3>3. t[j] \in Intervals /\ t[j].en = a[j].en /\ t[j].max = Below(i, k)
      BY <2>2, <3>1, <3>2 DEF Intervals
    <3> QED BY <2>4, <3>3 DEF j
  <2>5. CASE ~ IsOfLevel(i, k)
    <3>1. t[j] = a[j]
      BY <2>3, <2>5
    <3> HIDE DEF t, k, j
    <3> QED BY <2>2, <2>5, <3>1 DEF j
  <2> QED BY <2>4, <2>5
<1>7. t \in Seq(Intervals) /\ Len(t) = n
  <2>1. ASSUME NEW j \in 1..n PROVE t[j] \in Intervals
    <3> DEFINE i == j - 1
    <3>1. i \in 0..(n - 1) /\ i + 1 = j
      <4> HIDE DEF n
      <4> QED BY <1>1
    <3> HIDE DEF i, t, n
    <3>2. t[i + 1] \in Intervals
      BY <1>6, <3>1
    <3> QED BY <3>1, <3>2
  <2>2. t \in [1..n -> Intervals]
    BY <2>1
  <2> HIDE DEF t, n
  <2>3. t \in Seq(Intervals)
    BY <1>1, <2>2, SeqDef
  <2> QED BY <1>1, <2>2, <2>3, LenProperties
<1> HIDE DEF t
<1>8. \A j \in 0..(Len(a) - 1) : t[j + 1].en = a[j + 1].en
  BY <1>1, <1>6
<1>9. RightAt(t, k)
  <2> SUFFICES ASSUME NEW i \in 0..(n - 1), IsOfLevel(i, k)
               PROVE  MaxIn(t, t[i + 1].max, i, k)
    BY <1>7 DEF RightAt
  <2>1. MaxIn(a, Below(i, k), i, k)
    BY BelowRight
  <2>2. t[i + 1].max = Below(i, k)
    BY <1>6
  <2> QED BY <1>1, <1>7, <1>8, <2>1, <2>2, MaxKept
<1>10. ASSUME NEW h \in 0..l PROVE RightAt(t, h)
  <2> SUFFICES ASSUME NEW i \in 0..(n - 1), IsOfLevel(i, h)
               PROVE  MaxIn(t, t[i + 1].max, i, h)
    BY <1>7 DEF RightAt
  <2>1. ~ IsOfLevel(i, k)
    <3>1. i \in Nat /\ h \in Nat /\ h < k
      BY <1>1
    <3> QED BY <1>1, <3>1, LevelUnique
  <2>2. t[i + 1] = a[i + 1]
    BY <1>6, <2>1
  <2>3. MaxIn(a, a[i + 1].max, i, h)
    <3>1. RightAt(a, h)
      BY DEF LevelsDone
    <3> QED BY <1>1, <3>1 DEF RightAt
  <2> QED BY <1>1, <1>7, <1>8, <2>2, <2>3, MaxKept
<1>11. \A h \in 0..(lvl' - 1) : RightAt(t, h)
  <2>1. \A h \in 0..(lvl' - 1) : h \in 0..l \/ h = k
    BY <1>1, <1>2
  <2> QED BY <1>9, <1>10, <2>1
\* The larger end that is below the parent
<1>12. MaxIn(t, last', p, k)
  <2>1. MaxIn(t, last, last_i, l)
    BY <1>1, <1>7, <1>8, MaxKept
  <2>2. last' = IF p < n /\ t[p + 1].max > last THEN t[p + 1].max ELSE last
    <3>1. LastAt(t, p) = IF p < Size /\ t[p + 1].max > last THEN t[p + 1].max ELSE last
      BY DEF LastAt
    <3> QED BY <1>2, <3>1
  <2>3. CASE p < n
    <3>1. MaxIn(t, t[p + 1].max, p, k)
      <4>1. p \in 0..(Len(t) - 1)
        BY <1>1, <1>3, <1>7, <2>3
      <4> QED BY <1>3, <1>9, <4>1 DEF RightAt
    <3>2. PICK j \in Nodes(n, last_i, l) : t[j + 1].en = last
      BY <1>7, <2>1 DEF MaxIn
    <3>3. j \in Nodes(n, p, k)
      <4>1. j \in 0..(n - 1) /\ last_i - x < j /\ j < last_i + x
        BY <3>2 DEF Nodes
      <4>2. p - 2 * x < j /\ j < p + 2 * x
        <5> HIDE DEF n, x
        <5> QED BY <1>1, <1>3, <1>4, <4>1
      <4> QED BY <1>4, <4>1, <4>2 DEF Nodes
    <3>4. last <= t[p + 1].max
      BY <1>7, <3>1, <3>2, <3>3 DEF MaxIn
    <3>5. last \in Nat /\ t[p + 1].max \in Nat
      BY <1>7, <2>1, <3>1, MaxTyped
    <3>6. last' = t[p + 1].max
      BY <2>2, <2>3, <3>4, <3>5
    <3> QED BY <3>1, <3>6
  <2>4. CASE ~ p < n
    <3>1. last' = last
      BY <2>2, <2>4
    <3>2. last_i = p - x
      <4> HIDE DEF n, x
      <4> QED BY <1>1, <1>3, <1>4, <1>5, <2>4
    <3>3. Nodes(n, p, k) = Nodes(n, last_i, l)
      <4> DEFINE z == 2^k
      <4>1. Nodes(n, p, k) = {j \in 0..(n - 1) : p - z < j /\ j < p + z}
        BY DEF Nodes
      <4>2. Nodes(n, last_i, l) = {j \in 0..(n - 1) : last_i - x < j /\ j < last_i + x}
        BY DEF Nodes
      <4>3. z = 2 * x
        BY <1>4
      <4> HIDE DEF n, x, z
      <4> QED BY <1>1, <1>3, <1>4, <2>4, <3>2, <4>1, <4>2, <4>3
    <3> QED BY <1>7, <2>1, <3>1, <3>3 DEF MaxIn
  <2> QED BY <2>3, <2>4
<1>13. p - 2^k < m /\ m < p + 2^k
  <2> DEFINE z == 2^k
  <2>1. z = 2 * x
    BY <1>4
  <2> HIDE DEF x, z
  <2>2. p - z < m /\ m < p + z
    BY <1>1, <1>3, <1>4, <1>5, <2>1
  <2> QED BY <2>2 DEF z
<1>14. /\ Size' = n /\ Size' > 0 /\ LastLeaf(Size') = m
       /\ lvl' \in Nat \ {0} /\ lvl' - 1 = k
  BY <1>1, <1>2, <1>7 DEF Size, m
<1>15. LevelsDone'
  <2>1. a' = t /\ last_i' = p
    BY <1>2
  <2> HIDE DEF n, k
  <2> QED BY <1>3, <1>11, <1>12, <1>13, <1>14, <2>1 DEF LevelsDone
<1> QED BY <1>2, <1>7, <1>15

LEMMA IndexedMaxima ==
  ASSUME a \in Seq(Intervals), LevelsDone, Indexed
  PROVE  \A k \in Nat : RightAt(a, k)
<1> SUFFICES ASSUME NEW k \in Nat, NEW i \in 0..(Len(a) - 1), IsOfLevel(i, k)
             PROVE  MaxIn(a, a[i + 1].max, i, k)
  BY DEF RightAt
<1>1. lvl \in Nat \ {0} /\ Len(a) \in Nat /\ 2^lvl > Len(a)
  BY DEF LevelsDone, Indexed, Size
<1>2. k < lvl
  <2>1. 2^k <= i + 1
    <3>0. i \in Nat /\ IsOfLevel(i, k)
      BY <1>1
    <3>1. PICK q \in Nat : i = q * 2^(k + 1) + 2^k - 1
      BY <3>0, LevelForm
    <3> DEFINE p == 2^k
               r == 2^(k + 1)
    <3>2. p \in Nat /\ r \in Nat
      BY PowerBounds
    <3> HIDE DEF p, r
    <3>3. q * r \in Nat
      BY <3>2
    <3>4. i = q * r + p - 1
      BY <3>1 DEF p, r
    <3>5. p <= i + 1
      BY <3>2, <3>3, <3>4
    <3> QED BY <3>5 DEF p
  <2>2. 2^k < 2^lvl
    <3> DEFINE p == 2^k
               r == 2^lvl
    <3>1. p \in Nat /\ r \in Nat /\ p <= i + 1 /\ r > Len(a)
      BY <1>1, <2>1, PowerBounds
    <3> HIDE DEF p, r
    <3>2. p < r
      BY <1>1, <3>1
    <3> QED BY <3>2 DEF p, r
  <2> QED BY <1>1, <2>2, PowerOrder
<1>3. RightAt(a, k)
  BY <1>1, <1>2 DEF LevelsDone
<1> QED BY <1>3 DEF RightAt

LEMMA AddMaxima ==
  ASSUME MaximaInv, NEW s \in Points, NEW e \in Points, NEW d \in Payloads, Add(s, e, d)
  PROVE  MaximaInv'
<1> DEFINE new == [st |-> s, en |-> e, max |-> e, data |-> d]
<1>1. new \in Intervals
  BY DEF Intervals
<1>2. a \in Seq(Intervals) /\ a' = Append(a, new) /\ phase' = "add"
  BY DEF MaximaInv, Add
<1> HIDE DEF new
<1>3. a' \in Seq(Intervals)
  BY <1>1, <1>2
<1> QED BY <1>2, <1>3 DEF MaximaInv

LEMMA ExchangeMaxima ==
  ASSUME MaximaInv, NEW i \in 0..(Size - 2), Exchange(i)
  PROVE  MaximaInv'
<1> DEFINE n == Size
           v == i + 1
           w == i + 2
<1>1. n \in Nat /\ n = Len(a) /\ a \in [1..n -> Intervals]
  BY LenProperties DEF MaximaInv, Size
<1>2. v \in 1..n /\ w \in 1..n
  <2> HIDE DEF n
  <2> QED BY <1>1 DEF n
<1>3. a' = [a EXCEPT ![v] = a[w], ![w] = a[v]] /\ phase' = "sort"
  BY DEF Exchange
<1> HIDE DEF n, v, w
<1>4. a' \in [1..n -> Intervals]
  BY <1>1, <1>2, <1>3
<1>5. a' \in Seq(Intervals)
  BY <1>1, <1>4, SeqDef
<1> QED BY <1>3, <1>5 DEF MaximaInv

\* The steps of a traversal leave the tree alone.
LEMMA SameTree ==
  ASSUME MaximaInv, UNCHANGED <<a, max_level>>,
         phase \in {"ready", "overlap", "found"}, phase' # "level"
  PROVE  MaximaInv'
BY DEF MaximaInv, Covered, RightAt, Size

LEMMA MaximaStep == MaximaInv /\ [TreeNext]_treeVars => MaximaInv'
<1> SUFFICES ASSUME MaximaInv, [TreeNext]_treeVars PROVE MaximaInv'
  OBVIOUS
<1>1. ASSUME NEW s \in Points, NEW e \in Points, NEW d \in Payloads, Add(s, e, d)
      PROVE  MaximaInv'
  BY <1>1, AddMaxima
<1>2. CASE Index
  BY <1>2 DEF Index, MaximaInv
<1>3. CASE IndexStep
  <2>1. ASSUME NEW i \in 0..(Size - 2), Exchange(i) PROVE MaximaInv'
    BY <2>1, ExchangeMaxima
  <2>2. CASE Leaves
    BY <2>2, LeavesMaxima DEF MaximaInv
  <2>3. CASE Level
    <3>1. phase = "level" /\ phase' = "level"
      BY <2>3 DEF Level
    <3>2. a' \in Seq(Intervals) /\ LevelsDone'
      BY <2>3, <3>1, LevelMaxima DEF MaximaInv
    <3> QED BY <3>1, <3>2 DEF MaximaInv
  <2>4. CASE Indexed
    <3>1. phase = "level" /\ phase' = "ready" /\ a' = a /\ max_level' = lvl - 1
          /\ 2^lvl > Size
      BY <2>4 DEF Indexed
    <3>2. \A k \in Nat : RightAt(a, k)
      BY <2>4, <3>1, IndexedMaxima DEF MaximaInv
    <3>3. \A k \in Nat : RightAt(a', k)
      BY <3>1, <3>2
    <3>4. max_level' \in Nat /\ Size' < 2^(max_level' + 1)
      <4>1. lvl \in Nat \ {0} /\ Size \in Nat
        BY <3>1 DEF MaximaInv, LevelsDone, Size
      <4>2. max_level' \in Nat /\ max_level' + 1 = lvl
        BY <3>1, <4>1
      <4>3. Size' = Size
        BY <3>1 DEF Size
      <4> DEFINE p == 2^lvl
      <4>4. p \in Nat /\ p > Size
        BY <3>1, <4>1, PowerBounds
      <4> HIDE DEF p
      <4>5. Size < p
        BY <4>1, <4>4
      <4> QED BY <4>2, <4>3, <4>5 DEF p
    <3> QED BY <3>1, <3>3, <3>4 DEF MaximaInv, Covered
  <2> QED BY <1>3, <2>1, <2>2, <2>3, <2>4 DEF IndexStep
<1>4. ASSUME NEW s \in Points, NEW e \in Points, Overlap(s, e) PROVE MaximaInv'
  BY <1>4, SameTree DEF Overlap
<1>5. CASE OverlapStep
  BY <1>5, SameTree DEF OverlapStep, Scan, GoLeft, GoRight, Return
<1>6. CASE UNCHANGED treeVars
  BY <1>6 DEF treeVars, MaximaInv, LevelsDone, Covered, RightAt, Size
<1> QED BY <1>1, <1>2, <1>3, <1>4, <1>5, <1>6 DEF TreeNext

LEMMA MaximaInit == TreeInit => MaximaInv
<1> SUFFICES ASSUME TreeInit PROVE MaximaInv
  OBVIOUS
<1>1. <<>> \in Seq(Intervals)
  OBVIOUS
<1> QED BY <1>1 DEF TreeInit, MaximaInv

\* The nodes between i - r and i + r are those of the subtree.
LEMMA SubtreeNodes ==
  ASSUME Size \in Nat, NEW i \in 0..(Size - 1)
  PROVE  \E k \in Nat : IsOfLevel(i, k) /\ Subtree(i) = Nodes(Size, i, k)
<1> DEFINE K == LevelOf(i)
<1>1. i \in Nat
  OBVIOUS
<1>2. \E k \in 0..Size : IsOfLevel(i, k)
  <2>1. PICK k \in Nat : IsOfLevel(i, k)
    BY <1>1, LevelExists
  <2>2. PICK q \in Nat : i = q * 2^(k + 1) + 2^k - 1
    BY <1>1, <2>1, LevelForm
  <2> DEFINE p == 2^k
             r == 2^(k + 1)
  <2>3. p \in Nat /\ r \in Nat /\ k < p /\ i = q * r + p - 1
    <3>1. k + 1 \in Nat
      BY <2>1
    <3> QED BY <2>1, <2>2, <3>1, PowerBounds
  <2> HIDE DEF p, r
  <2>4. q * r \in Nat
    BY <2>3
  <2>5. k <= i
    BY <1>1, <2>1, <2>3, <2>4
  <2>6. k \in 0..Size
    BY <2>1, <2>5
  <2> QED BY <2>1, <2>6
<1>3. K \in 0..Size /\ IsOfLevel(i, K)
  BY <1>2 DEF LevelOf
<1>4. K \in Nat
  BY <1>3
<1> DEFINE p == 2^K
<1>5. p \in Nat
  BY <1>4, PowerBounds
<1>6. Subtree(i) = {j \in 0..(Size - 1) : i - (p - 1) <= j /\ j <= i + (p - 1)}
  BY DEF Subtree
<1>7. Nodes(Size, i, K) = {j \in 0..(Size - 1) : i - p < j /\ j < i + p}
  BY DEF Nodes
<1> HIDE DEF p
<1>8. Subtree(i) = Nodes(Size, i, K)
  BY <1>1, <1>5, <1>6, <1>7
<1> HIDE DEF K
<1> QED BY <1>3, <1>4, <1>8

(* Once the array is indexed, max of every node is the largest end of the      *)
(* intervals below it, for every array, also one that does not fill its tree   *)
(* (IITree.h:52-73): what overlap leaves out a subtree by.                     *)
THEOREM MaximaAreRight == TreeSpec => []MaxOfSubtree
<1>1. TreeSpec => []MaximaInv
  BY MaximaInit, MaximaStep, PTL DEF TreeSpec
<1>2. MaximaInv => MaxOfSubtree
  <2> SUFFICES ASSUME MaximaInv, phase = "ready", NEW i \in 0..(Size - 1)
               PROVE  /\ \A j \in Subtree(i) : Node(j).en <= Node(i).max
                      /\ \E j \in Subtree(i) : Node(j).en = Node(i).max
    BY DEF MaxOfSubtree
  <2>1. Size \in Nat
    BY DEF MaximaInv, Size
  <2>2. PICK k \in Nat : IsOfLevel(i, k) /\ Subtree(i) = Nodes(Size, i, k)
    BY <2>1, SubtreeNodes
  <2>3. MaxIn(a, Node(i).max, i, k)
    BY <2>2 DEF MaximaInv, RightAt, Node, Size
  <2> QED BY <2>2, <2>3 DEF MaxIn, Node, Size
<1> QED BY <1>1, <1>2, PTL

-----------------------------------------------------------------------------
(* The inductive invariant of a traversal *)

Sorted(s) == \A i, j \in 0..(Len(s) - 1) : i <= j => s[i + 1].st <= s[j + 1].st

Elements(s) == {s[n] : n \in 1..Len(s)}

InOrder(s) == \A m, n \in 1..Len(s) : m < n => s[m] < s[n]

\* What a cell of the stack stands for: the nodes from Lo on and before Hi
Lo(c) == IF c.w = 0 THEN c.x - 2^c.k + 1 ELSE c.x
Hi(c) == c.x + 2^c.k
Span(c) == {i \in Int : Lo(c) <= i /\ i < Hi(c)}

\* A cell is of a node, in an array of n or to its right, that is still to be
\* visited after the nodes found.
CellRight(c, found, n) ==
  /\ c \in Cells /\ c.x \in Nat /\ IsOfLevel(c.x, c.k)
  /\ IF c.w = 0 THEN Lo(c) <= n ELSE c.k > SmallLevel
  /\ \A i \in found : i < Lo(c)

\* What a stack stands for is in the order from its top to its bottom.
Downwards(s) == \A m, n \in 1..Len(s) : m < n => Hi(s[n]) <= Lo(s[m])

\* Every hit is found, or stood for by the stack.
Remaining(hits, found, s, n) ==
  /\ s \in Seq(Cells)
  /\ \A m \in 1..Len(s) : CellRight(s[m], found, n)
  /\ Downwards(s)
  /\ \A i \in hits : i \in found \/ \E m \in 1..Len(s) : i \in Span(s[m])

Hits == {i \in 0..(Size - 1) : Starts(i) /\ Reaches(i)}

Traversing ==
  /\ query.st \in Nat /\ query.en \in Nat
  /\ out \in Seq(Nat) /\ InOrder(out) /\ Elements(out) \subseteq Hits
  /\ Remaining(Hits, Elements(out), stack, Size)

TraversalInv ==
  /\ phase \notin {"add", "sort"} => Sorted(a)
  /\ phase = "overlap" => Traversing
  /\ phase = "found" => OverlapExact

-----------------------------------------------------------------------------
(* Lists of nodes *)

LEMMA OrderedConcat ==
  ASSUME NEW s \in Seq(Nat), NEW t \in Seq(Nat), InOrder(s), InOrder(t),
         \A i \in Elements(s), j \in Elements(t) : i < j
  PROVE  /\ s \o t \in Seq(Nat) /\ InOrder(s \o t)
         /\ Elements(s \o t) = Elements(s) \cup Elements(t)
<1> DEFINE m == Len(s)
           l == Len(t)
           u == s \o t
<1>1. /\ m \in Nat /\ l \in Nat /\ u \in Seq(Nat) /\ Len(u) = m + l
      /\ \A i \in 1..(m + l) : u[i] = IF i <= m THEN s[i] ELSE t[i - m]
  BY ConcatProperties, LenProperties
<1>2. /\ \A i \in 1..m : s[i] \in Elements(s)
      /\ \A i \in 1..l : t[i] \in Elements(t)
  BY DEF Elements
<1>3. /\ \A i, j \in 1..m : i < j => s[i] < s[j]
      /\ \A i, j \in 1..l : i < j => t[i] < t[j]
  BY DEF InOrder
<1> HIDE DEF m, l, u
<1>4. ASSUME NEW i \in 1..Len(u), NEW j \in 1..Len(u), i < j PROVE u[i] < u[j]
  <2>1. CASE j <= m
    <3>1. u[i] = s[i] /\ u[j] = s[j] /\ i \in 1..m /\ j \in 1..m
      BY <1>1, <1>4, <2>1
    <3> QED BY <1>3, <1>4, <3>1
  <2>2. CASE i <= m /\ ~ j <= m
    <3> DEFINE h == j - m
    <3>1. u[i] = s[i] /\ u[j] = t[h] /\ i \in 1..m /\ h \in 1..l
      BY <1>1, <1>4, <2>2
    <3> HIDE DEF h
    <3> QED BY <1>2, <3>1
  <2>3. CASE ~ i <= m
    <3> DEFINE g == i - m
               h == j - m
    <3>1. u[i] = t[g] /\ u[j] = t[h] /\ g \in 1..l /\ h \in 1..l /\ g < h
      BY <1>1, <1>4, <2>3
    <3> HIDE DEF g, h
    <3> QED BY <1>3, <3>1
  <2> QED BY <1>1, <2>1, <2>2, <2>3
<1>5. Elements(u) = Elements(s) \cup Elements(t)
  <2>1. ASSUME NEW i \in 1..Len(u) PROVE u[i] \in Elements(s) \cup Elements(t)
    <3>1. CASE i <= m
      BY <1>1, <1>2, <3>1
    <3>2. CASE ~ i <= m
      <4> DEFINE h == i - m
      <4>1. u[i] = t[h] /\ h \in 1..l
        BY <1>1, <3>2
      <4> HIDE DEF h
      <4> QED BY <1>2, <4>1
    <3> QED BY <3>1, <3>2
  <2>2. ASSUME NEW i \in 1..m PROVE s[i] \in Elements(u)
    <3>1. i \in 1..Len(u) /\ u[i] = s[i]
      BY <1>1
    <3> QED BY <3>1 DEF Elements
  <2>3. ASSUME NEW i \in 1..l PROVE t[i] \in Elements(u)
    <3> DEFINE h == m + i
    <3>1. h \in 1..Len(u) /\ ~ h <= m /\ h - m = i /\ h \in 1..(m + l)
      BY <1>1
    <3>2. u[h] = t[i]
      <4> HIDE DEF h
      <4> QED BY <1>1, <3>1
    <3> HIDE DEF h
    <3> QED BY <3>1, <3>2 DEF Elements
  <2> QED BY <2>1, <2>2, <2>3 DEF Elements, m, l
<1>6. InOrder(u)
  BY <1>4 DEF InOrder
<1> QED BY <1>1, <1>5, <1>6 DEF u

LEMMA EmptyAndSingle ==
  ASSUME NEW i \in Nat
  PROVE  /\ <<>> \in Seq(Nat) /\ InOrder(<<>>) /\ Elements(<<>>) = {}
         /\ <<i>> \in Seq(Nat) /\ InOrder(<<i>>) /\ Elements(<<i>>) = {i}
BY DEF InOrder, Elements

\* The members of H among the first i0 ... i0 + n - 1, one by one
Picked(H, i0, f) ==
  [n \in DOMAIN f |-> IF n = 0 THEN <<>>
                      ELSE IF i0 + n - 1 \in H THEN Append(f[n - 1], i0 + n - 1)
                      ELSE f[n - 1]]

LEMMA PickedExists ==
  ASSUME NEW H, NEW i0 \in Nat, NEW N \in Nat
  PROVE  \E f : DOMAIN f = 0..N /\ f = Picked(H, i0, f)
<1> DEFINE S == {k \in 0..N : \E f : DOMAIN f = 0..k /\ f = Picked(H, i0, f)}
<1>1. 0 \in S
  <2> DEFINE f == [n \in 0..0 |-> <<>>]
  <2>1. DOMAIN f = 0..0 /\ f = Picked(H, i0, f)
    BY DEF Picked
  <2> HIDE DEF f
  <2> QED BY <2>1
<1>2. ASSUME NEW k \in 0..(N - 1), k \in S PROVE k + 1 \in S
  <2>1. PICK f : DOMAIN f = 0..k /\ f = Picked(H, i0, f)
    BY <1>2
  <2> DEFINE j == k + 1
             v == IF i0 + j - 1 \in H THEN Append(f[k], i0 + j - 1) ELSE f[k]
             g == [n \in 0..j |-> IF n = j THEN v ELSE f[n]]
  <2>2. k \in Nat /\ j \in 0..N /\ j - 1 = k /\ j # 0
    OBVIOUS
  <2>3. ASSUME NEW n \in 0..j
        PROVE  g[n] = IF n = 0 THEN <<>>
                      ELSE IF i0 + n - 1 \in H THEN Append(g[n - 1], i0 + n - 1)
                      ELSE g[n - 1]
    <3>1. CASE n = j
      <4>1. g[n] = v /\ g[n - 1] = f[k]
        <5>1. k \in 0..j /\ k # j
          BY <2>2
        <5>2. g[j] = v /\ g[k] = f[k]
          BY <2>2, <5>1
        <5> HIDE DEF g, v, j
        <5> QED BY <2>2, <3>1, <5>2
      <4> HIDE DEF g, j
      <4> QED BY <2>2, <3>1, <4>1
    <3>2. CASE n # j
      <4>1. n \in 0..k /\ (n # 0 => n - 1 \in 0..k)
        BY <2>2, <3>2
      <4>2. f[n] = IF n = 0 THEN <<>>
                   ELSE IF i0 + n - 1 \in H THEN Append(f[n - 1], i0 + n - 1)
                   ELSE f[n - 1]
        BY <2>1, <4>1 DEF Picked
      <4>3. g[n] = f[n] /\ (n # 0 => g[n - 1] = f[n - 1])
        <5>1. \A m \in 0..k : m \in 0..j /\ m # j
          BY <2>2
        <5>2. \A m \in 0..k : g[m] = f[m]
          BY <5>1
        <5> HIDE DEF g
        <5> QED BY <4>1, <5>2
      <4> HIDE DEF g
      <4> QED BY <4>2, <4>3
    <3> QED BY <3>1, <3>2
  <2>4. DOMAIN g = 0..j
    OBVIOUS
  <2>5. g = [n \in 0..j |-> g[n]]
    OBVIOUS
  <2> HIDE DEF g, j
  <2>6. g = Picked(H, i0, g)
    BY <2>3, <2>4, <2>5 DEF Picked
  <2> QED BY <2>2, <2>4, <2>6 DEF j
<1>3. N \in S
  <2> HIDE DEF S
  <2>1. \A k \in 0..N : k \in S
    BY <1>1, <1>2, SetInduction
  <2> QED BY <2>1
<1> QED BY <1>3

LEMMA PickedRight ==
  ASSUME NEW H, NEW i0 \in Nat, NEW N \in Nat, NEW f,
         DOMAIN f = 0..N, f = Picked(H, i0, f)
  PROVE  /\ f[N] \in Seq(Nat) /\ InOrder(f[N])
         /\ Elements(f[N]) = {i \in i0..(i0 + N - 1) : i \in H}
<1> DEFINE P(n) == /\ f[n] \in Seq(Nat) /\ InOrder(f[n])
                   /\ Elements(f[n]) = {i \in i0..(i0 + n - 1) : i \in H}
           S == {n \in 0..N : P(n)}
<1>0. \A n \in 0..N : f[n] = IF n = 0 THEN <<>>
                             ELSE IF i0 + n - 1 \in H THEN Append(f[n - 1], i0 + n - 1)
                             ELSE f[n - 1]
  BY DEF Picked
<1>1. 0 \in S
  <2>1. f[0] = <<>>
    BY <1>0
  <2>2. {i \in i0..(i0 + 0 - 1) : i \in H} = {}
    OBVIOUS
  <2>3. <<>> \in Seq(Nat) /\ InOrder(<<>>) /\ Elements(<<>>) = {}
    BY EmptyAndSingle
  <2>4. P(0)
    <3> DEFINE e == <<>>
    <3>1. f[0] = e /\ e \in Seq(Nat) /\ InOrder(e) /\ Elements(e) = {}
      BY <2>1, <2>3
    <3> HIDE DEF e
    <3> QED BY <2>2, <3>1
  <2> HIDE DEF P
  <2> QED BY <2>4
<1>2. ASSUME NEW n \in 0..(N - 1), n \in S PROVE n + 1 \in S
  <2> DEFINE j == n + 1
             i1 == i0 + n
             A == {i \in i0..(i0 + n - 1) : i \in H}
             B == {i \in i0..(i0 + j - 1) : i \in H}
  <2>1. j \in 0..N /\ j # 0 /\ j - 1 = n /\ i0 + j - 1 = i1 /\ i1 \in Nat
    OBVIOUS
  <2>2. f[j] = IF i1 \in H THEN Append(f[n], i1) ELSE f[n]
    <3>1. f[j] = IF j = 0 THEN <<>>
                             ELSE IF i0 + j - 1 \in H THEN Append(f[j - 1], i0 + j - 1)
                             ELSE f[j - 1]
      BY <1>0, <2>1
    <3> HIDE DEF j, i1
    <3> QED BY <2>1, <3>1
  <2>3. f[n] \in Seq(Nat) /\ InOrder(f[n]) /\ Elements(f[n]) = A
    BY <1>2
  <2>4. P(j)
    <3>1. CASE i1 \in H
      <4>1. B = A \cup {i1} /\ \A i \in A : i < i1
        BY <2>1, <3>1
      <4>2. f[j] = f[n] \o <<i1>>
        BY <2>1, <2>2, <2>3, <3>1, AppendIsConcat
      <4>3. /\ <<i1>> \in Seq(Nat) /\ InOrder(<<i1>>) /\ Elements(<<i1>>) = {i1}
        BY <2>1, EmptyAndSingle
      <4>4. \A i \in Elements(f[n]), k \in Elements(<<i1>>) : i < k
        BY <2>3, <4>1, <4>3
      <4> HIDE DEF A, i1
      <4>5. f[j] \in Seq(Nat) /\ InOrder(f[j]) /\ Elements(f[j]) = A \cup {i1}
        BY <2>3, <4>2, <4>3, <4>4, OrderedConcat
      <4> QED BY <4>1, <4>5
    <3>2. CASE i1 \notin H
      <4>1. B = A
        BY <2>1, <3>2
      <4> QED BY <2>2, <2>3, <3>2, <4>1
    <3> QED BY <3>1, <3>2
  <2> QED BY <2>1, <2>4
<1>3. N \in S
  <2> HIDE DEF S
  <2>1. \A k \in 0..N : k \in S
    BY <1>1, <1>2, SetInduction
  <2> QED BY <2>1
<1> QED BY <1>3

\* Scanned lists the hits between i0 and i1.
LEMMA ScannedRight ==
  ASSUME a \in Seq(Intervals), Sorted(a), query.en \in Nat,
         NEW i0 \in Nat, NEW i1 \in Nat, i0 <= i1, i1 <= Size
  PROVE  /\ Scanned(i0, i1) \in Seq(Nat) /\ InOrder(Scanned(i0, i1))
         /\ Elements(Scanned(i0, i1)) = {i \in Hits : i0 <= i /\ i < i1}
<1> DEFINE N == i1 - i0
           H == {i \in Nat : Reaches(i) /\ \A j \in i0..i : Starts(j)}
           f == CHOOSE f : f = [n \in 0..N |->
                  IF n = 0 THEN <<>>
                  ELSE IF Reaches(i0 + n - 1) /\ \A j \in i0..(i0 + n - 1) : Starts(j)
                       THEN Append(f[n - 1], i0 + n - 1)
                  ELSE f[n - 1]]
<1>1. N \in Nat
  OBVIOUS
<1>2. Scanned(i0, i1) = f[N]
  BY DEF Scanned
<1>3. ASSUME NEW g
      PROVE  (g = [n \in 0..N |->
                  IF n = 0 THEN <<>>
                  ELSE IF Reaches(i0 + n - 1) /\ \A j \in i0..(i0 + n - 1) : Starts(j)
                       THEN Append(g[n - 1], i0 + n - 1)
                  ELSE g[n - 1]])
             <=> DOMAIN g = 0..N /\ g = Picked(H, i0, g)
  <2>1. \A n \in 0..N : n # 0 => (i0 + n - 1 \in H <=>
             Reaches(i0 + n - 1) /\ \A j \in i0..(i0 + n - 1) : Starts(j))
    <3>1. \A n \in 0..N : n # 0 => i0 + n - 1 \in Nat
      BY <1>1
    <3> QED BY <3>1
  <2> DEFINE R(n) == Reaches(i0 + n - 1) /\ \A j \in i0..(i0 + n - 1) : Starts(j)
             G == [n \in 0..N |-> IF n = 0 THEN <<>>
                                  ELSE IF R(n) THEN Append(g[n - 1], i0 + n - 1)
                                  ELSE g[n - 1]]
             K == [n \in 0..N |-> IF n = 0 THEN <<>>
                                  ELSE IF i0 + n - 1 \in H THEN Append(g[n - 1], i0 + n - 1)
                                  ELSE g[n - 1]]
  <2>2. \A n \in 0..N : n # 0 => (i0 + n - 1 \in H <=> R(n))
    BY <2>1
  <2>3. G = K
    <3> HIDE DEF H, R, N
    <3> QED BY <2>2
  <2>4. DOMAIN G = 0..N
    OBVIOUS
  <2>5. DOMAIN g = 0..N => K = Picked(H, i0, g)
    BY DEF Picked
  <2> HIDE DEF H, K, N
  <2>6. g = G <=> DOMAIN g = 0..N /\ g = Picked(H, i0, g)
    <3> HIDE DEF G
    <3> QED BY <2>3, <2>4, <2>5
  <2> QED BY <2>6
<1>4. DOMAIN f = 0..N /\ f = Picked(H, i0, f)
  <2>1. PICK g : DOMAIN g = 0..N /\ g = Picked(H, i0, g)
    <3> HIDE DEF N, H
    <3> QED BY <1>1, PickedExists
  <2> HIDE DEF N, H
  <2>2. g = [n \in 0..N |->
                  IF n = 0 THEN <<>>
                  ELSE IF Reaches(i0 + n - 1) /\ \A j \in i0..(i0 + n - 1) : Starts(j)
                       THEN Append(g[n - 1], i0 + n - 1)
                  ELSE g[n - 1]]
    BY <1>3, <2>1
  <2>3. f = [n \in 0..N |->
                  IF n = 0 THEN <<>>
                  ELSE IF Reaches(i0 + n - 1) /\ \A j \in i0..(i0 + n - 1) : Starts(j)
                       THEN Append(f[n - 1], i0 + n - 1)
                  ELSE f[n - 1]]
    BY <2>2, Zenon
  <2> HIDE DEF f
  <2> QED BY <1>3, <2>3
<1>5. /\ f[N] \in Seq(Nat) /\ InOrder(f[N])
      /\ Elements(f[N]) = {i \in i0..(i0 + N - 1) : i \in H}
  <2> HIDE DEF f, N, H
  <2>1. \A I, n \in Nat : \A G, g : DOMAIN g = 0..n /\ g = Picked(G, I, g) =>
          /\ g[n] \in Seq(Nat) /\ InOrder(g[n])
          /\ Elements(g[n]) = {i \in I..(I + n - 1) : i \in G}
    BY PickedRight
  <2>2. \A G, g : DOMAIN g = 0..N /\ g = Picked(G, i0, g) =>
          /\ g[N] \in Seq(Nat) /\ InOrder(g[N])
          /\ Elements(g[N]) = {i \in i0..(i0 + N - 1) : i \in G}
    BY <1>1, <2>1
  <2> QED BY <1>4, <2>2, Zenon
<1>6. {i \in i0..(i0 + N - 1) : i \in H} = {i \in Hits : i0 <= i /\ i < i1}
  <2>1. Size \in Nat /\ \A i \in 0..(Size - 1) : a[i + 1].st \in Nat
    BY ElementTyped DEF Size
  <2>2. ASSUME NEW i \in i0..(i1 - 1)
        PROVE  i \in H <=> i \in Hits
    <3>1. i \in 0..(Size - 1) /\ i \in Nat /\ \A j \in i0..i : j \in 0..(Size - 1) /\ j <= i
      BY <2>1
    <3>2. \A j \in i0..i : Starts(i) => Starts(j)
      <4>1. \A j \in i0..i : a[j + 1].st <= a[i + 1].st
        BY <3>1 DEF Sorted, Size
      <4> SUFFICES ASSUME NEW j \in i0..i, Starts(i) PROVE Starts(j)
        OBVIOUS
      <4> DEFINE u == a[j + 1].st
                 v == a[i + 1].st
      <4>2. u \in Nat /\ v \in Nat /\ u <= v /\ v < query.en
        BY <2>1, <3>1, <4>1 DEF Starts, Node
      <4> HIDE DEF u, v
      <4>3. u < query.en
        BY <4>2
      <4> QED BY <4>3 DEF u, Starts, Node
    <3>3. i \in i0..i
      BY <3>1
    <3> QED BY <3>1, <3>2, <3>3 DEF Hits
  <2>3. i0 + N - 1 = i1 - 1
    OBVIOUS
  <2>4. Hits \subseteq Int
    BY DEF Hits
  <2> DEFINE A == {i \in i0..(i0 + N - 1) : i \in H}
             B == {i \in Hits : i0 <= i /\ i < i1}
  <2>5. \A i : i \in A <=> i \in i0..(i1 - 1) /\ i \in H
    <3> HIDE DEF H, N
    <3> QED BY <2>3
  <2>6. \A i : i \in B <=> i \in i0..(i1 - 1) /\ i \in Hits
    <3> HIDE DEF A, H, N
    <3>1. ASSUME NEW i \in Hits PROVE i0 <= i /\ i < i1 <=> i \in i0..(i1 - 1)
      <4>1. i \in Int
        BY <2>4
      <4> QED BY <4>1
    <3> QED BY <3>1
  <2> HIDE DEF A, B, H
  <2>7. A = B
    BY <2>2, <2>5, <2>6
  <2> QED BY <2>7 DEF A, B
<1> HIDE DEF f, N, H
<1> QED BY <1>2, <1>5, <1>6

-----------------------------------------------------------------------------
(* Stacks *)

LEMMA CellTyped ==
  ASSUME NEW c \in Cells
  PROVE  /\ c.k \in Nat /\ c.x \in Int /\ Lo(c) \in Int /\ Hi(c) \in Int
<1>1. c.k \in Nat /\ c.x \in Int
  BY DEF Cells
<1> DEFINE p == 2^c.k
<1>2. p \in Nat /\ Lo(c) = (IF c.w = 0 THEN c.x - p + 1 ELSE c.x) /\ Hi(c) = c.x + p
  BY <1>1, PowerBounds DEF Lo, Hi
<1> HIDE DEF p
<1> QED BY <1>1, <1>2

\* When the top c is replaced by cells r, and nodes that c stands for are found.
LEMMA Replaced ==
  ASSUME NEW hits, NEW F, NEW G, NEW n, NEW s, s # <<>>, Remaining(hits, F, s, n),
         NEW c \in Cells, c = s[Len(s)],
         NEW r \in Seq(Cells), Downwards(r),
         \A m \in 1..Len(r) : CellRight(r[m], G, n) /\ Hi(r[m]) <= Hi(c),
         G \subseteq Int, F \subseteq G, \A i \in G \ F : i < Hi(c),
         \A i \in hits : i \in Span(c) =>
            i \in G \/ \E m \in 1..Len(r) : i \in Span(r[m])
  PROVE  Remaining(hits, G, SubSeq(s, 1, Len(s) - 1) \o r, n)
<1> DEFINE p == SubSeq(s, 1, Len(s) - 1)
           l == Len(p)
           q == Len(r)
           u == p \o r
<1>1. s \in Seq(Cells) /\ Downwards(s) /\ \A m \in 1..Len(s) : CellRight(s[m], F, n)
  BY DEF Remaining
<1>2. /\ l \in Nat /\ q \in Nat /\ Len(s) = l + 1 /\ p \in Seq(Cells)
      /\ \A i \in 1..l : p[i] = s[i]
  BY <1>1, WithoutTop, LenProperties
<1>3. /\ u \in Seq(Cells) /\ Len(u) = l + q
      /\ \A i \in 1..(l + q) : u[i] = IF i <= l THEN p[i] ELSE r[i - l]
  BY <1>2, ConcatProperties
<1>4. \A i \in 1..l : u[i] = s[i] /\ i \in 1..Len(s) /\ i < Len(s) /\ Hi(c) <= Lo(s[i])
  <2> SUFFICES ASSUME NEW i \in 1..l
               PROVE  u[i] = s[i] /\ i \in 1..Len(s) /\ i < Len(s) /\ Hi(c) <= Lo(s[i])
    OBVIOUS
  <2> HIDE DEF p, l, q, u
  <2>1. u[i] = s[i] /\ i \in 1..Len(s) /\ Len(s) \in 1..Len(s) /\ i < Len(s)
    BY <1>2, <1>3
  <2> QED BY <1>1, <2>1 DEF Downwards
<1>5. \A i \in 1..q : l + i \in 1..(l + q) /\ u[l + i] = r[i]
  <2> SUFFICES ASSUME NEW i \in 1..q PROVE l + i \in 1..(l + q) /\ u[l + i] = r[i]
    OBVIOUS
  <2> DEFINE h == l + i
  <2> HIDE DEF p, l, q, u
  <2>1. h \in 1..(l + q) /\ ~ h <= l /\ h - l = i
    BY <1>2
  <2> HIDE DEF h
  <2>2. u[h] = r[i]
    BY <1>3, <2>1
  <2> QED BY <2>1, <2>2 DEF h
<1>6. \A j \in 1..(l + q) : j \in 1..l \/ \E i \in 1..q : j = l + i
  <2> SUFFICES ASSUME NEW j \in 1..(l + q), j \notin 1..l PROVE \E i \in 1..q : j = l + i
    OBVIOUS
  <2> HIDE DEF l, q
  <2>1. j - l \in 1..q /\ j = l + (j - l)
    BY <1>2
  <2> QED BY <2>1
<1>7. /\ \A i \in 1..Len(s) : Lo(s[i]) \in Int /\ Hi(s[i]) \in Int
      /\ \A i \in 1..q : Lo(r[i]) \in Int /\ Hi(r[i]) \in Int
      /\ Hi(c) \in Int
  <2>1. /\ \A i \in 1..Len(s) : s[i] \in Cells
        /\ \A i \in 1..q : r[i] \in Cells
    BY <1>1, ElementOfSeq
  <2> QED BY <2>1, CellTyped
<1> HIDE DEF p, l, q, u
<1>8. ASSUME NEW j \in 1..Len(u) PROVE CellRight(u[j], G, n)
  <2>1. CASE j \in 1..l
    <3>1. u[j] = s[j] /\ j \in 1..Len(s) /\ Hi(c) <= Lo(s[j])
      BY <1>4, <2>1
    <3>2. CellRight(s[j], F, n)
      BY <1>1, <3>1
    <3>3. ASSUME NEW i \in G PROVE i < Lo(s[j])
      <4>1. CASE i \in F
        BY <3>2, <4>1 DEF CellRight
      <4>2. CASE i \notin F
        <5>1. i \in Int /\ i < Hi(c) /\ Hi(c) \in Int /\ Lo(s[j]) \in Int
          BY <1>7, <3>1, <4>2
        <5> QED BY <3>1, <5>1
      <4> QED BY <4>1, <4>2
    <3> QED BY <3>1, <3>2, <3>3 DEF CellRight
  <2>2. CASE j \notin 1..l
    <3>1. PICK i \in 1..q : j = l + i
      BY <1>3, <1>6, <2>2
    <3> QED BY <1>5, <3>1 DEF q
  <2> QED BY <2>1, <2>2
<1>9. ASSUME NEW i \in 1..Len(u), NEW j \in 1..Len(u), i < j PROVE Hi(u[j]) <= Lo(u[i])
  <2>1. CASE i \in 1..l /\ j \in 1..l
    <3>1. u[i] = s[i] /\ u[j] = s[j] /\ i \in 1..Len(s) /\ j \in 1..Len(s)
      BY <1>4, <2>1
    <3> QED BY <1>1, <1>9, <3>1 DEF Downwards
  <2>2. CASE i \in 1..l /\ j \notin 1..l
    <3>1. PICK h \in 1..q : j = l + h
      BY <1>3, <1>6, <2>2
    <3>2. u[j] = r[h] /\ u[i] = s[i] /\ Hi(c) <= Lo(s[i]) /\ Hi(r[h]) <= Hi(c)
      BY <1>4, <1>5, <2>2, <3>1 DEF q
    <3>3. Lo(s[i]) \in Int /\ Hi(r[h]) \in Int /\ Hi(c) \in Int
      BY <1>4, <1>7, <2>2
    <3>4. Hi(r[h]) <= Lo(s[i])
      BY <3>2, <3>3
    <3> QED BY <3>2, <3>4
  <2>3. CASE i \notin 1..l
    <3>1. PICK g \in 1..q : i = l + g
      BY <1>3, <1>6, <2>3
    <3>2. j \notin 1..l
      BY <1>2, <1>3, <1>9, <2>3
    <3>3. PICK h \in 1..q : j = l + h
      BY <1>3, <1>6, <3>2
    <3>4. u[i] = r[g] /\ u[j] = r[h]
      BY <1>5, <3>1, <3>3
    <3>5. g < h
      BY <1>2, <1>9, <3>1, <3>3
    <3> QED BY <3>4, <3>5 DEF Downwards, q
  <2> QED BY <2>1, <2>2, <2>3
<1>10. ASSUME NEW i \in hits
       PROVE  i \in G \/ \E m \in 1..Len(u) : i \in Span(u[m])
  <2>1. CASE i \in F
    BY <2>1
  <2>2. ASSUME NEW m \in 1..Len(s), i \in Span(s[m])
        PROVE  i \in G \/ \E j \in 1..Len(u) : i \in Span(u[j])
    <3>1. CASE m = Len(s)
      <4>1. i \in G \/ \E j \in 1..Len(r) : i \in Span(r[j])
        BY <2>2, <3>1
      <4>2. ASSUME NEW j \in 1..q, i \in Span(r[j])
            PROVE  \E h \in 1..Len(u) : i \in Span(u[h])
        <5>1. l + j \in 1..Len(u) /\ u[l + j] = r[j]
          BY <1>3, <1>5
        <5> QED BY <4>2, <5>1
      <4> QED BY <4>1, <4>2 DEF q
    <3>2. CASE m # Len(s)
      <4>1. m \in 1..l /\ m \in 1..Len(u)
        BY <1>2, <1>3, <3>2
      <4>2. u[m] = s[m]
        BY <1>4, <4>1
      <4> QED BY <2>2, <4>1, <4>2
    <3> QED BY <3>1, <3>2
  <2> QED BY <2>1, <2>2 DEF Remaining
<1>11. Downwards(u)
  BY <1>9 DEF Downwards
<1>12. Remaining(hits, G, u, n)
  BY <1>3, <1>8, <1>10, <1>11 DEF Remaining
<1> QED BY <1>12 DEF u, p

-----------------------------------------------------------------------------
(* The steps of a traversal *)

LEMMA FewCells ==
  ASSUME NEW c \in Cells, NEW d \in Cells
  PROVE  /\ <<>> \in Seq(Cells) /\ Len(<<>>) = 0 /\ Downwards(<<>>)
         /\ <<c>> \in Seq(Cells) /\ Len(<<c>>) = 1 /\ <<c>>[1] = c /\ Downwards(<<c>>)
         /\ <<c, d>> \in Seq(Cells) /\ Len(<<c, d>>) = 2
         /\ <<c, d>>[1] = c /\ <<c, d>>[2] = d
         /\ Hi(d) <= Lo(c) => Downwards(<<c, d>>)
<1>1. /\ <<>> \in Seq(Cells) /\ Len(<<>>) = 0
      /\ <<c>> \in Seq(Cells) /\ Len(<<c>>) = 1 /\ <<c>>[1] = c
      /\ <<c, d>> \in Seq(Cells) /\ Len(<<c, d>>) = 2
      /\ <<c, d>>[1] = c /\ <<c, d>>[2] = d
  OBVIOUS
<1>2. Downwards(<<>>) /\ Downwards(<<c>>)
  BY <1>1 DEF Downwards
<1>3. ASSUME Hi(d) <= Lo(c) PROVE Downwards(<<c, d>>)
  <2> DEFINE s == <<c, d>>
  <2>1. Len(s) = 2 /\ s[1] = c /\ s[2] = d
    BY <1>1
  <2> HIDE DEF s
  <2>2. ASSUME NEW m \in 1..Len(s), NEW n \in 1..Len(s), m < n PROVE Hi(s[n]) <= Lo(s[m])
    <3>1. m = 1 /\ n = 2
      BY <2>1, <2>2
    <3> QED BY <1>3, <2>1, <3>1
  <2>3. Downwards(s)
    BY <2>2 DEF Downwards
  <2> QED BY <2>3 DEF s
<1> QED BY <1>1, <1>2, <1>3

LEMMA SameHits ==
  ASSUME UNCHANGED <<a, query>>
  PROVE  Hits' = Hits /\ Size' = Size
BY DEF Hits, Starts, Reaches, Node, Size

LEMMA Continued ==
  ASSUME TraversalInv, Traversing, UNCHANGED <<a, query>>, phase = "overlap", phase' = phase,
         out' \in Seq(Nat), InOrder(out'), Elements(out') \subseteq Hits,
         Remaining(Hits, Elements(out'), stack', Size)
  PROVE  TraversalInv'
<1>1. Hits' = Hits /\ Size' = Size
  BY SameHits
<1>2. Traversing'
  BY <1>1 DEF Traversing
<1> QED BY <1>2 DEF TraversalInv

LEMMA TopCell ==
  ASSUME a \in Seq(Intervals), Traversing, stack # <<>>
  PROVE  /\ Top \in Cells /\ Top = stack[Len(stack)]
         /\ CellRight(Top, Elements(out), Size)
         /\ Top.k \in Nat /\ Top.x \in Nat /\ IsOfLevel(Top.x, Top.k)
         /\ Size \in Nat /\ Elements(out) \subseteq Int
         /\ Hits \subseteq 0..(Size - 1) /\ Hits \subseteq Int
<1>1. stack \in Seq(Cells) /\ \A m \in 1..Len(stack) : CellRight(stack[m], Elements(out), Size)
  BY DEF Traversing, Remaining
<1>2. Len(stack) \in 1..Len(stack)
  BY <1>1, WithoutTop
<1>3. CellRight(Top, Elements(out), Size) /\ Top = stack[Len(stack)]
  BY <1>1, <1>2 DEF Top
<1>4. Size \in Nat
  BY DEF Size
<1>5. Hits \subseteq 0..(Size - 1)
  BY DEF Hits
<1>6. Hits \subseteq Int /\ Elements(out) \subseteq Int
  <2>1. 0..(Size - 1) \subseteq Int
    OBVIOUS
  <2>2. Elements(out) \subseteq Hits
    BY DEF Traversing
  <2> QED BY <1>5, <2>1, <2>2, Zenon
<1> QED BY <1>3, <1>4, <1>5, <1>6, CellTyped DEF CellRight

LEMMA ScanTraversal ==
  ASSUME MaximaInv, TraversalInv, Scan
  PROVE  TraversalInv'
<1> DEFINE c == Top
           k == c.k
           p == 2^k
           F == Elements(out)
           i0 == (c.x \div p) * p
           i1 == IF i0 + 2^(k + 1) - 1 > Size THEN Size ELSE i0 + 2^(k + 1) - 1
           t == Scanned(i0, i1)
           T == {i \in Hits : i0 <= i /\ i < i1}
<1>1. /\ phase = "overlap" /\ phase' = phase /\ UNCHANGED <<a, query>>
      /\ stack # <<>> /\ k <= SmallLevel /\ out' = out \o t /\ stack' = Popped
  BY DEF Scan
<1>2. Traversing /\ a \in Seq(Intervals) /\ Sorted(a)
  BY <1>1 DEF TraversalInv, MaximaInv
<1>3. /\ c \in Cells /\ c = stack[Len(stack)] /\ CellRight(c, F, Size)
      /\ k \in Nat /\ c.x \in Nat /\ IsOfLevel(c.x, k)
      /\ Size \in Nat /\ F \subseteq Int /\ Hits \subseteq 0..(Size - 1) /\ Hits \subseteq Int
  BY <1>1, <1>2, TopCell
<1>4. p \in Nat \ {0} /\ 2^(k + 1) = 2 * p
  BY <1>3, Doubles, PowerBounds
<1>5. c.w = 0 /\ Lo(c) = c.x - p + 1 /\ Hi(c) = c.x + p /\ Lo(c) <= Size
      /\ \A i \in F : i < Lo(c)
  <2>1. SmallLevel \in Nat
    BY TreeAssumption
  <2>2. ~ k > SmallLevel
    <3> HIDE DEF k
    <3> QED BY <1>1, <1>3, <2>1
  <2> QED BY <1>3, <2>2 DEF CellRight, Lo, Hi
<1>6. i0 = Lo(c) /\ i0 \in Nat
  <2>1. PICK q \in Nat : c.x = q * 2^(k + 1) + 2^k - 1
    BY <1>3, LevelForm
  <2> DEFINE x == c.x
             y == p - 1
             h == 2 * q
  <2>2. x = q * (2 * p) + y /\ y \in Nat /\ y < p
    <3>1. x = q * (2 * p) + p - 1
      BY <1>4, <2>1
    <3> HIDE DEF p, x
    <3> QED BY <1>4, <3>1
  <2> HIDE DEF p, x, y
  <2>3. x = h * p + y /\ h \in Nat /\ h * p \in Nat
    BY <1>4, <2>2
  <2> HIDE DEF h
  <2>4. x \div p = h
    BY <1>4, <2>2, <2>3
  <2>5. h * p = x - p + 1
    <3> DEFINE u == h * p
    <3>1. x = u + y /\ u \in Nat
      BY <2>3
    <3> HIDE DEF u
    <3>2. u = x - p + 1
      BY <1>4, <2>2, <3>1 DEF y
    <3> QED BY <3>2 DEF u
  <2> QED BY <1>5, <2>3, <2>4, <2>5 DEF x
<1>7. i1 = IF Hi(c) > Size THEN Size ELSE Hi(c)
  <2>1. i0 + 2^(k + 1) - 1 = Hi(c)
    <3> DEFINE x == c.x
    <3>1. x \in Nat /\ i0 = x - p + 1 /\ Hi(c) = x + p /\ 2^(k + 1) = 2 * p
      BY <1>3, <1>4, <1>5, <1>6
    <3> HIDE DEF x, i0, p
    <3> QED BY <1>4, <3>1
  <2> QED BY <2>1
<1>8. Hi(c) \in Int /\ Lo(c) \in Int /\ Lo(c) < Hi(c)
  <2>1. Hi(c) \in Int /\ Lo(c) \in Int
    BY <1>3, CellTyped
  <2> DEFINE x == c.x
  <2>2. x \in Nat /\ Lo(c) = x - p + 1 /\ Hi(c) = x + p
    BY <1>3, <1>5
  <2> HIDE DEF x, p
  <2> QED BY <1>4, <2>1, <2>2
<1> HIDE DEF i0, i1, p, k, c
<1>9. i0 \in Nat /\ i1 \in Nat /\ i0 <= i1 /\ i1 <= Size
  BY <1>3, <1>5, <1>6, <1>7, <1>8
<1>10. t \in Seq(Nat) /\ InOrder(t) /\ Elements(t) = T
  <2>1. query.en \in Nat
    BY <1>2 DEF Traversing
  <2> QED BY <1>2, <1>9, <2>1, ScannedRight
<1> HIDE DEF t
<1>11. /\ out' \in Seq(Nat) /\ InOrder(out')
       /\ Elements(out') = F \cup T
  <2>1. \A i \in F, j \in T : i < j
    <3> SUFFICES ASSUME NEW i \in F, NEW j \in T PROVE i < j
      OBVIOUS
    <3>1. i \in Int /\ j \in Int /\ i < i0 /\ i0 <= j
      BY <1>3, <1>5, <1>6
    <3> QED BY <1>9, <3>1
  <2>2. out \in Seq(Nat) /\ InOrder(out)
    BY <1>2 DEF Traversing
  <2> HIDE DEF T
  <2> QED BY <1>1, <1>10, <2>1, <2>2, OrderedConcat
<1>12. Remaining(Hits, F \cup T, stack', Size)
  <2> DEFINE G == F \cup T
  <2>1. T \subseteq Hits /\ G \subseteq Int /\ F \subseteq G
    BY <1>3
  <2>2. \A i \in G \ F : i < Hi(c)
    <3> SUFFICES ASSUME NEW i \in T PROVE i < Hi(c)
      OBVIOUS
    <3>1. i \in Int /\ i < i1
      BY <2>1
    <3> HIDE DEF T
    <3> QED BY <1>3, <1>7, <1>8, <1>9, <3>1
  <2>3. \A i \in Hits : i \in Span(c) => i \in G
    <3> SUFFICES ASSUME NEW i \in Hits, i \in Span(c) PROVE i \in T
      OBVIOUS
    <3>1. i \in 0..(Size - 1) /\ i0 <= i /\ i < Hi(c)
      BY <1>3, <1>6 DEF Span
    <3>2. i < i1
      BY <1>3, <1>7, <1>8, <3>1
    <3> QED BY <3>1, <3>2
  <2>4. <<>> \in Seq(Cells) /\ Downwards(<<>>) /\ Len(<<>>) = 0
    BY <1>3, FewCells
  <2>5. \A m \in 1..Len(<<>>) : CellRight((<<>>)[m], G, Size) /\ Hi((<<>>)[m]) <= Hi(c)
    BY <2>4
  <2>6. Remaining(Hits, F, stack, Size)
    BY <1>2 DEF Traversing
  <2> HIDE DEF F, T, G
  <2>7. Remaining(Hits, G, SubSeq(stack, 1, Len(stack) - 1) \o <<>>, Size)
    BY <1>1, <1>3, <2>1, <2>2, <2>3, <2>4, <2>5, <2>6, Replaced
  <2>8. SubSeq(stack, 1, Len(stack) - 1) \o <<>> = Popped
    <3>1. SubSeq(stack, 1, Len(stack) - 1) \in Seq(Cells)
      BY <1>1, <2>6, WithoutTop DEF Remaining
    <3> QED BY <3>1, ConcatEmptySeq DEF Popped
  <2> QED BY <1>1, <2>7, <2>8 DEF G
<1>13. F \cup T \subseteq Hits
  BY <1>2 DEF Traversing
<1> HIDE DEF F, T
<1> QED BY <1>1, <1>2, <1>11, <1>12, <1>13, Continued

LEMMA TwoCells ==
  ASSUME NEW c \in Cells, NEW d \in Cells
  PROVE  <<c>> \o <<d>> = <<c, d>>
<1> DEFINE s == Append(<<c>>, d)
           t == <<c, d>>
<1>1. <<c>> \in Seq(Cells) /\ Len(<<c>>) = 1 /\ <<c>>[1] = c
  OBVIOUS
<1>2. s \in Seq(Cells) /\ Len(s) = 2 /\ s[1] = c /\ s[2] = d
  BY <1>1, AppendProperties
<1>3. t \in Seq(Cells) /\ Len(t) = 2 /\ t[1] = c /\ t[2] = d
  OBVIOUS
<1>4. s = <<c>> \o <<d>>
  BY <1>1, AppendIsConcat
<1> HIDE DEF s, t
<1>5. \A i \in 1..Len(s) : s[i] = t[i]
  <2>1. \A i \in 1..Len(s) : i = 1 \/ i = 2
    BY <1>2
  <2> QED BY <1>2, <1>3, <2>1
<1>6. s = t
  BY <1>2, <1>3, <1>5, SeqEqual
<1> QED BY <1>4, <1>6 DEF t

\* No hit is below a left child that does not reach the query.
LEMMA LeftMissed ==
  ASSUME MaximaInv, phase = "overlap", query.st \in Nat, NEW y \in Nat, NEW l \in Nat,
         IsOfLevel(y, l), ~ VisitLeft(y),
         NEW i \in Hits, y - 2^l < i, i < y + 2^l
  PROVE  FALSE
<1>1. Size \in Nat /\ a \in Seq(Intervals) /\ i \in 0..(Size - 1) /\ Reaches(i)
  BY DEF MaximaInv, Size, Hits
<1>2. y \in 0..(Size - 1) /\ ~ Node(y).max > query.st
  BY <1>1 DEF VisitLeft
<1>3. MaxIn(a, Node(y).max, y, l)
  BY <1>2 DEF MaximaInv, RightAt, Node, Size
<1>4. i \in Nodes(Len(a), y, l)
  BY <1>1 DEF Nodes, Size
<1>5. Node(i).en <= Node(y).max
  BY <1>3, <1>4 DEF MaxIn, Node
<1>6. Node(i).en \in Nat /\ Node(y).max \in Nat
  <2>1. Node(i).en \in Nat
    BY <1>1, ElementTyped DEF Node, Size
  <2> QED BY <1>1, <1>3, <2>1, MaxTyped
<1>7. query.st < Node(i).en
  BY <1>1 DEF Reaches
<1> QED BY <1>2, <1>5, <1>6, <1>7

LEMMA GoLeftTraversal ==
  ASSUME MaximaInv, TraversalInv, GoLeft
  PROVE  TraversalInv'
<1> DEFINE c == Top
           k == c.k
           l == k - 1
           x == c.x
           p == 2^l
           y == x - p
           F == Elements(out)
           again == [k |-> k, x |-> x, w |-> 1]
           left == [k |-> l, x |-> y, w |-> 0]
           r == IF VisitLeft(y) THEN <<again, left>> ELSE <<again>>
<1>1. /\ phase = "overlap" /\ phase' = phase /\ UNCHANGED <<a, query, out>>
      /\ stack # <<>> /\ k > SmallLevel /\ c.w = 0
      /\ stack' = Popped \o <<again>> \o IF VisitLeft(y) THEN <<left>> ELSE <<>>
  BY DEF GoLeft, Visited
<1>2. Traversing /\ a \in Seq(Intervals)
  BY <1>1 DEF TraversalInv, MaximaInv
<1>3. /\ c \in Cells /\ c = stack[Len(stack)] /\ CellRight(c, F, Size)
      /\ k \in Nat /\ x \in Nat /\ IsOfLevel(x, k)
      /\ Size \in Nat /\ F \subseteq Int /\ Hits \subseteq 0..(Size - 1) /\ Hits \subseteq Int
  BY <1>1, <1>2, TopCell
<1>4. k \in Nat \ {0} /\ l \in Nat
  <2>1. SmallLevel \in Nat
    BY TreeAssumption
  <2> HIDE DEF k
  <2> QED BY <1>1, <1>3, <2>1
<1>5. p \in Nat \ {0} /\ 2^k = 2 * p /\ y \in Nat /\ IsOfLevel(y, l)
  <2>1. p \in Nat \ {0}
    BY <1>4, PowerBounds
  <2> HIDE DEF k, x
  <2> QED BY <1>3, <1>4, <2>1, Children
<1>6. /\ again.k = k /\ again.x = x /\ again.w = 1
      /\ left.k = l /\ left.x = y /\ left.w = 0
  OBVIOUS
<1>7. again \in Cells /\ left \in Cells
  <2> HIDE DEF k, l, x, y
  <2> QED BY <1>3, <1>4, <1>5 DEF Cells
<1>8. /\ Lo(c) = x - 2^k + 1 /\ Hi(c) = x + 2^k
      /\ Lo(again) = x /\ Hi(again) = x + 2^k
      /\ Lo(left) = y - p + 1 /\ Hi(left) = y + p
  BY <1>1, <1>6 DEF Lo, Hi
<1> DEFINE z == 2^k
<1>9. z = 2 * p /\ Lo(c) = x - z + 1 /\ Hi(c) = x + z /\ Hi(again) = x + z
  BY <1>5, <1>8
<1> HIDE DEF c, k, l, p, z, again, left
<1>10. /\ Lo(left) = Lo(c) /\ Hi(left) = x /\ Hi(again) = Hi(c)
       /\ Lo(c) \in Int /\ Lo(c) <= x /\ x <= Hi(c) /\ Hi(c) \in Int
  <2> HIDE DEF x
  <2> QED BY <1>3, <1>5, <1>8, <1>9
<1>11. CellRight(again, F, Size)
  <2>1. \A i \in F : i < Lo(again)
    <3> SUFFICES ASSUME NEW i \in F PROVE i < Lo(again)
      OBVIOUS
    <3>1. i \in Int /\ i < Lo(c)
      BY <1>3 DEF CellRight
    <3> HIDE DEF x, F
    <3> QED BY <1>3, <1>8, <1>10, <3>1
  <2> HIDE DEF x
  <2> QED BY <1>1, <1>3, <1>6, <1>7, <2>1 DEF CellRight
<1>12. CellRight(left, F, Size)
  <2>1. (\A i \in F : i < Lo(left)) /\ Lo(left) <= Size
    BY <1>1, <1>3, <1>10 DEF CellRight
  <2> HIDE DEF x, y
  <2> QED BY <1>5, <1>6, <1>7, <2>1 DEF CellRight
<1> HIDE DEF x
<1>13. /\ r \in Seq(Cells) /\ Downwards(r)
       /\ \A m \in 1..Len(r) : CellRight(r[m], F, Size) /\ Hi(r[m]) <= Hi(c)
  <2>1. Hi(left) <= Lo(again) /\ Hi(left) <= Hi(c) /\ Hi(again) <= Hi(c)
    BY <1>3, <1>8, <1>10
  <2>2. CASE VisitLeft(y)
    <3> DEFINE s == <<again, left>>
    <3>1. s \in Seq(Cells) /\ Downwards(s) /\ Len(s) = 2 /\ s[1] = again /\ s[2] = left
      BY <1>7, <2>1, FewCells
    <3> HIDE DEF s
    <3>2. \A m \in 1..Len(s) : CellRight(s[m], F, Size) /\ Hi(s[m]) <= Hi(c)
      <4>1. \A m \in 1..Len(s) : m = 1 \/ m = 2
        BY <3>1
      <4> HIDE DEF F
      <4> QED BY <1>11, <1>12, <2>1, <3>1, <4>1
    <3>3. r = s
      BY <2>2 DEF s
    <3> QED BY <3>1, <3>2, <3>3
  <2>3. CASE ~ VisitLeft(y)
    <3> DEFINE s == <<again>>
    <3>1. s \in Seq(Cells) /\ Downwards(s) /\ Len(s) = 1 /\ s[1] = again
      BY <1>7, FewCells
    <3> HIDE DEF s
    <3>2. \A m \in 1..Len(s) : CellRight(s[m], F, Size) /\ Hi(s[m]) <= Hi(c)
      <4>1. \A m \in 1..Len(s) : m = 1
        BY <3>1
      <4> HIDE DEF F
      <4> QED BY <1>11, <2>1, <3>1, <4>1
    <3>3. r = s
      BY <2>3 DEF s
    <3> QED BY <3>1, <3>2, <3>3
  <2> QED BY <2>2, <2>3
<1>14. ASSUME NEW i \in Hits, i \in Span(c)
       PROVE  \E m \in 1..Len(r) : i \in Span(r[m])
  <2>1. i \in Int /\ Lo(c) <= i /\ i < Hi(c)
    BY <1>14 DEF Span
  <2>2. CASE x <= i
    <3>1. i \in Span(again)
      BY <1>8, <1>10, <2>1, <2>2 DEF Span
    <3>2. 1 \in 1..Len(r) /\ r[1] = again
      BY <1>7, FewCells
    <3> HIDE DEF r
    <3> QED BY <3>1, <3>2
  <2>3. CASE ~ x <= i
    <3>1. i < x
      BY <1>3, <2>1, <2>3
    <3>2. i \in Span(left)
      BY <1>10, <2>1, <3>1 DEF Span
    <3>3. VisitLeft(y)
      <4>1. SUFFICES ASSUME ~ VisitLeft(y) PROVE FALSE
        OBVIOUS
      <4>2. y - p < i /\ i < y + p
        <5>1. Lo(left) <= i /\ i < Hi(left)
          BY <1>10, <2>1, <3>1
        <5> HIDE DEF y
        <5> QED BY <1>5, <1>8, <2>1, <5>1
      <4>3. query.st \in Nat
        BY <1>2 DEF Traversing
      <4> HIDE DEF y
      <4> QED BY <1>1, <1>4, <1>5, <4>1, <4>2, <4>3, LeftMissed DEF p
    <3>4. 2 \in 1..Len(r) /\ r[2] = left
      BY <1>7, <3>3, FewCells
    <3> HIDE DEF r
    <3> QED BY <3>2, <3>4
  <2> QED BY <2>2, <2>3
<1>15. stack' = SubSeq(stack, 1, Len(stack) - 1) \o r
  <2>1. Popped \in Seq(Cells)
    BY <1>1, <1>2, WithoutTop DEF Traversing, Remaining, Popped
  <2>2. <<again>> \in Seq(Cells) /\ <<left>> \in Seq(Cells) /\ <<>> \in Seq(Cells)
    BY <1>7
  <2>3. Popped \o <<again>> \o <<left>> = Popped \o <<again, left>>
    <3>1. <<again>> \o <<left>> = <<again, left>>
      BY <1>7, TwoCells
    <3>2. (Popped \o <<again>>) \o <<left>> = Popped \o (<<again>> \o <<left>>)
      BY <2>1, <2>2, ConcatAssociative
    <3> QED BY <3>1, <3>2, Zenon
  <2>4. Popped \o <<again>> \o <<>> = Popped \o <<again>>
    <3>1. <<again>> \o <<>> = <<again>>
      BY <2>2, ConcatEmptySeq
    <3>2. (Popped \o <<again>>) \o <<>> = Popped \o (<<again>> \o <<>>)
      BY <2>1, <2>2, ConcatAssociative
    <3> QED BY <3>1, <3>2, Zenon
  <2> QED BY <1>1, <2>3, <2>4 DEF Popped
<1>16. Remaining(Hits, F, stack', Size)
  <2>1. Remaining(Hits, F, stack, Size)
    BY <1>2 DEF Traversing
  <2> HIDE DEF F, r
  <2> QED BY <1>1, <1>3, <1>13, <1>14, <1>15, <2>1, Replaced
<1>17. out' \in Seq(Nat) /\ InOrder(out') /\ Elements(out') \subseteq Hits /\ Elements(out') = F
  BY <1>1, <1>2 DEF Traversing
<1> HIDE DEF F
<1> QED BY <1>1, <1>2, <1>16, <1>17, Continued

LEMMA GoRightTraversal ==
  ASSUME MaximaInv, TraversalInv, GoRight
  PROVE  TraversalInv'
<1> DEFINE c == Top
           k == c.k
           l == k - 1
           x == c.x
           p == 2^l
           y == x + p
           F == Elements(out)
           right == [k |-> l, x |-> y, w |-> 0]
<1>1. /\ phase = "overlap" /\ phase' = phase /\ UNCHANGED <<a, query>>
      /\ stack # <<>> /\ k > SmallLevel /\ c.w = 1
      /\ IF x < Size /\ Starts(x)
         THEN /\ out' = IF Reaches(x) THEN Append(out, x) ELSE out
              /\ stack' = Append(Popped, right)
         ELSE out' = out /\ stack' = Popped
  BY DEF GoRight
<1>2. Traversing /\ a \in Seq(Intervals) /\ Sorted(a) /\ query.en \in Nat
  BY <1>1 DEF TraversalInv, MaximaInv, Traversing
<1>3. /\ c \in Cells /\ c = stack[Len(stack)] /\ CellRight(c, F, Size)
      /\ k \in Nat /\ x \in Nat /\ IsOfLevel(x, k)
      /\ Size \in Nat /\ F \subseteq Int /\ Hits \subseteq 0..(Size - 1) /\ Hits \subseteq Int
  BY <1>1, <1>2, TopCell
<1>4. k \in Nat \ {0} /\ l \in Nat
  <2>1. SmallLevel \in Nat
    BY TreeAssumption
  <2> HIDE DEF k
  <2> QED BY <1>1, <1>3, <2>1
<1>5. p \in Nat \ {0} /\ 2^k = 2 * p /\ y \in Nat /\ IsOfLevel(y, l)
  <2>1. p \in Nat \ {0}
    BY <1>4, PowerBounds
  <2> HIDE DEF k, x
  <2> QED BY <1>3, <1>4, <2>1, Children
<1>6. right.k = l /\ right.x = y /\ right.w = 0
  OBVIOUS
<1>7. right \in Cells
  <2> HIDE DEF k, l, x, y
  <2> QED BY <1>3, <1>4, <1>5 DEF Cells
<1>8. /\ Lo(c) = x /\ Hi(c) = x + 2^k
      /\ Lo(right) = y - p + 1 /\ Hi(right) = y + p
  BY <1>1, <1>6 DEF Lo, Hi
<1> DEFINE z == 2^k
<1>9. z = 2 * p /\ Hi(c) = x + z
  BY <1>5, <1>8
<1> HIDE DEF c, k, l, p, z, right
<1>10. /\ Lo(right) = x + 1 /\ Hi(right) = Hi(c) /\ Hi(c) \in Int /\ x < Hi(c)
  <2> HIDE DEF x
  <2> QED BY <1>3, <1>5, <1>8, <1>9
<1>11. \A i \in F : i < x
  BY <1>3, <1>8 DEF CellRight
<1>12. Remaining(Hits, F, stack, Size) /\ out \in Seq(Nat) /\ InOrder(out) /\ F \subseteq Hits
  BY <1>2 DEF Traversing
<1>13. SubSeq(stack, 1, Len(stack) - 1) = Popped /\ Popped \in Seq(Cells)
  BY <1>1, <1>12, WithoutTop DEF Remaining, Popped
<1> HIDE DEF x, F
<1>14. CASE x < Size /\ Starts(x)
  <2> DEFINE G == F \cup (IF Reaches(x) THEN {x} ELSE {})
  <2>1. out' \in Seq(Nat) /\ InOrder(out') /\ Elements(out') = G /\ G \subseteq Hits
    <3>1. CASE Reaches(x)
      <4>1. out' = out \o <<x>>
        BY <1>1, <1>3, <1>12, <1>14, <3>1, AppendIsConcat
      <4>2. <<x>> \in Seq(Nat) /\ InOrder(<<x>>) /\ Elements(<<x>>) = {x}
        BY <1>3, EmptyAndSingle
      <4>3. \A i \in Elements(out), j \in Elements(<<x>>) : i < j
        BY <1>11, <4>2 DEF F
      <4>4. out' \in Seq(Nat) /\ InOrder(out') /\ Elements(out') = F \cup {x}
        BY <1>12, <4>1, <4>2, <4>3, OrderedConcat DEF F
      <4>5. x \in Hits
        BY <1>3, <1>14, <3>1 DEF Hits
      <4> QED BY <1>12, <3>1, <4>4, <4>5
    <3>2. CASE ~ Reaches(x)
      BY <1>1, <1>12, <1>14, <3>2 DEF F
    <3> QED BY <3>1, <3>2
  <2>2. \A i \in G : i \in F \/ i = x
    OBVIOUS
  <2>3. \A i \in G : i \in Int /\ i <= x
    <3> SUFFICES ASSUME NEW i \in G PROVE i \in Int /\ i <= x
      OBVIOUS
    <3>1. i \in F \/ i = x
      BY <2>2
    <3> HIDE DEF G
    <3>2. CASE i \in F
      <4>1. i \in Int /\ i < x
        BY <1>3, <1>11, <3>2
      <4> QED BY <1>3, <4>1
    <3>3. CASE i = x
      BY <1>3, <3>3
    <3> QED BY <3>1, <3>2, <3>3
  <2>4. CellRight(right, G, Size)
    <3>1. \A i \in G : i < Lo(right)
      <4> HIDE DEF G
      <4> QED BY <1>3, <1>10, <2>3
    <3>2. Lo(right) <= Size
      BY <1>3, <1>10, <1>14
    <3> HIDE DEF G, y
    <3> QED BY <1>5, <1>6, <1>7, <3>1, <3>2 DEF CellRight
  <2> DEFINE r == <<right>>
  <2>5. r \in Seq(Cells) /\ Downwards(r) /\ Len(r) = 1 /\ r[1] = right
    BY <1>7, FewCells
  <2> HIDE DEF r
  <2>6. \A m \in 1..Len(r) : CellRight(r[m], G, Size) /\ Hi(r[m]) <= Hi(c)
    <3>1. \A m \in 1..Len(r) : m = 1
      BY <2>5
    <3> HIDE DEF G
    <3> QED BY <1>10, <2>4, <2>5, <3>1
  <2>7. \A i \in G \ F : i < Hi(c)
    BY <1>10, <2>2
  <2>8. ASSUME NEW i \in Hits, i \in Span(c)
        PROVE  i \in G \/ \E m \in 1..Len(r) : i \in Span(r[m])
    <3>1. i \in Int /\ x <= i /\ i < Hi(c)
      BY <1>8, <2>8 DEF Span
    <3>2. CASE i = x
      BY <2>8, <3>2 DEF Hits
    <3>3. CASE i # x
      <4>1. i \in Span(right)
        BY <1>3, <1>10, <3>1, <3>3 DEF Span
      <4>2. 1 \in 1..Len(r)
        BY <2>5
      <4> QED BY <2>5, <4>1, <4>2
    <3> QED BY <3>2, <3>3
  <2>9. F \subseteq G /\ G \subseteq Int
    <3>1. F \subseteq G
      OBVIOUS
    <3> HIDE DEF G
    <3> QED BY <2>3, <3>1
  <2> HIDE DEF G
  <2>10. Remaining(Hits, G, SubSeq(stack, 1, Len(stack) - 1) \o r, Size)
    BY <1>1, <1>3, <1>12, <2>5, <2>6, <2>7, <2>8, <2>9, Replaced
  <2>11. stack' = Popped \o r
    <3>1. stack' = Append(Popped, right)
      BY <1>1, <1>14
    <3> QED BY <1>7, <1>13, <3>1, AppendIsConcat DEF r
  <2>12. Remaining(Hits, Elements(out'), stack', Size)
    BY <1>13, <2>1, <2>10, <2>11
  <2> QED BY <1>1, <1>2, <2>1, <2>12, Continued
<1>15. CASE ~ (x < Size /\ Starts(x))
  <2>1. out' = out /\ stack' = Popped
    BY <1>1, <1>15
  <2>2. ASSUME NEW i \in Hits, i \in Span(c) PROVE FALSE
    <3>1. i \in 0..(Size - 1) /\ x <= i /\ i \in Int /\ Starts(i)
      BY <1>3, <1>8, <2>2 DEF Span, Hits
    <3>2. x < Size /\ x \in 0..(Size - 1)
      BY <1>3, <3>1
    <3>3. a[x + 1].st <= a[i + 1].st
      BY <1>2, <3>1, <3>2 DEF Sorted, Size
    <3>4. a[x + 1].st \in Nat /\ a[i + 1].st \in Nat
      BY <1>2, <3>1, <3>2, ElementTyped DEF Size
    <3> DEFINE u == a[x + 1].st
               v == a[i + 1].st
    <3>5. u \in Nat /\ v \in Nat /\ u <= v /\ v < query.en
      BY <3>1, <3>3, <3>4 DEF Starts, Node
    <3> HIDE DEF u, v
    <3>6. u < query.en
      BY <1>2, <3>5
    <3>7. Starts(x)
      BY <3>6 DEF u, Starts, Node
    <3> QED BY <1>15, <3>2, <3>7
  <2> DEFINE r == <<>>
  <2>3. r \in Seq(Cells) /\ Downwards(r) /\ Len(r) = 0
    BY <1>3, FewCells
  <2>4. stack' = Popped \o r
    BY <1>13, <2>1, ConcatEmptySeq
  <2> HIDE DEF r
  <2>5. \A m \in 1..Len(r) : CellRight(r[m], F, Size) /\ Hi(r[m]) <= Hi(c)
    BY <2>3
  <2>6. Remaining(Hits, F, SubSeq(stack, 1, Len(stack) - 1) \o r, Size)
    BY <1>1, <1>3, <1>12, <2>2, <2>3, <2>5, Replaced
  <2>7. Remaining(Hits, Elements(out'), stack', Size)
    BY <1>13, <2>1, <2>4, <2>6 DEF F
  <2>8. out' \in Seq(Nat) /\ InOrder(out') /\ Elements(out') \subseteq Hits
    BY <1>12, <2>1 DEF F
  <2> QED BY <1>1, <1>2, <2>7, <2>8, Continued
<1> QED BY <1>14, <1>15

LEMMA OverlapTraversal ==
  ASSUME MaximaInv, TraversalInv, NEW s \in Points, NEW e \in Points, Overlap(s, e)
  PROVE  TraversalInv'
<1> DEFINE k == max_level
           p == 2^k
           root == [k |-> k, x |-> p - 1, w |-> 0]
<1>1. /\ phase \in {"ready", "found"} /\ query' = [st |-> s, en |-> e] /\ out' = <<>>
      /\ a' = a /\ max_level' = max_level
  BY DEF Overlap
<1>2. a \in Seq(Intervals) /\ Size \in Nat /\ Covered /\ Sorted(a) /\ Size' = Size
  BY <1>1 DEF MaximaInv, TraversalInv, Size
<1>3. query.st' \in Nat /\ query.en' \in Nat
  BY <1>1, TreeAssumption
<1>4. Hits' \subseteq 0..(Size - 1)
  BY <1>2 DEF Hits
<1>5. out' \in Seq(Nat) /\ InOrder(out') /\ Elements(out') = {}
  BY <1>1, EmptyAndSingle
<1>6. CASE k < 0
  <2>1. Size = 0
    <3>1. ~ k \in Nat
      BY <1>6
    <3> QED BY <1>2, <3>1 DEF Covered
  <2>2. phase' = "found" /\ Hits' = {} /\ Len(out') = 0
    <3>1. 0..(Size - 1) = {}
      BY <2>1
    <3> QED BY <1>1, <1>4, <1>6, <3>1 DEF Overlap
  <2>3. OverlapExact'
    <3>1. {out'[n] : n \in 1..Len(out')} = {} /\ \A m, n \in 1..Len(out') : m < n => out'[m] < out'[n]
      BY <2>2
    <3> QED BY <2>2, <3>1 DEF OverlapExact, Hits
  <2> QED BY <1>1, <1>2, <2>2, <2>3 DEF TraversalInv
<1>7. CASE ~ k < 0
  <2>1. k \in Nat /\ Size < 2^(k + 1)
    BY <1>2, <1>7 DEF Covered
  <2>2. phase' = "overlap" /\ stack' = <<root>>
    BY <1>1, <1>7 DEF Overlap
  <2>3. p \in Nat \ {0} /\ 2^(k + 1) = 2 * p
    BY <2>1, Doubles, PowerBounds
  <2>4. root.k = k /\ root.x = p - 1 /\ root.w = 0
    OBVIOUS
  <2>5. Lo(root) = root.x - p + 1 /\ Hi(root) = root.x + p
    BY <2>4 DEF Lo, Hi
  <2>6. IsOfLevel(root.x, k)
    <3> DEFINE r == 2^(k + 1)
               v == p - 1
    <3>1. v \in Nat /\ v < r /\ r \in Nat
      <4> HIDE DEF p, r
      <4> QED BY <2>3 DEF r
    <3> HIDE DEF r, v
    <3>2. v % r = v
      BY <3>1
    <3> QED BY <2>4, <3>2 DEF IsOfLevel, r, v
  <2> HIDE DEF p, root, k
  <2>7. Lo(root) = 0 /\ Hi(root) = 2 * p - 1 /\ root.x \in Nat
    BY <2>3, <2>4, <2>5
  <2>8. root \in Cells
    BY <2>1, <2>4, <2>7 DEF Cells, root
  <2>9. CellRight(root, {}, Size)
    BY <1>2, <2>4, <2>6, <2>7, <2>8 DEF CellRight
  <2>10. ASSUME NEW i \in Hits' PROVE i \in Span(root)
    <3>1. i \in 0..(Size - 1)
      BY <1>4
    <3>2. i \in Int /\ 0 <= i /\ i < 2 * p - 1
      BY <1>2, <2>1, <2>3, <3>1
    <3> QED BY <2>7, <3>2 DEF Span
  <2>11. stack' \in Seq(Cells) /\ Len(stack') = 1 /\ stack'[1] = root /\ Downwards(stack')
    BY <2>2, <2>8, FewCells
  <2>12. Remaining(Hits', {}, stack', Size)
    <3>1. 1 \in 1..Len(stack') /\ \A m \in 1..Len(stack') : m = 1
      BY <2>11
    <3>2. \A m \in 1..Len(stack') : CellRight(stack'[m], {}, Size)
      BY <2>9, <2>11, <3>1
    <3>3. \A i \in Hits' : \E m \in 1..Len(stack') : i \in Span(stack'[m])
      BY <2>10, <2>11, <3>1
    <3> QED BY <2>11, <3>2, <3>3 DEF Remaining
  <2>13. Remaining(Hits', Elements(out'), stack', Size')
    BY <1>2, <1>5, <2>12
  <2>14. Traversing'
    BY <1>3, <1>5, <2>13 DEF Traversing
  <2> QED BY <1>1, <1>2, <2>2, <2>14 DEF TraversalInv
<1> QED BY <1>6, <1>7

LEMMA ReturnTraversal ==
  ASSUME TraversalInv, Return
  PROVE  TraversalInv'
<1>1. /\ Traversing /\ Sorted(a) /\ stack = <<>> /\ phase' = "found"
      /\ UNCHANGED <<a, query, out>>
  BY DEF Return, TraversalInv
<1>2. Elements(out) = Hits /\ InOrder(out)
  <2>1. ~ \E m \in 1..Len(stack) : TRUE
    BY <1>1
  <2> QED BY <1>1, <2>1 DEF Traversing, Remaining
<1>3. OverlapExact'
  <2>1. Hits' = Hits
    BY <1>1, SameHits
  <2>2. Elements(out') = Hits' /\ InOrder(out')
    BY <1>1, <1>2, <2>1
  <2> QED BY <2>2 DEF OverlapExact, Elements, InOrder, Hits
<1> QED BY <1>1, <1>3 DEF TraversalInv

\* Neighbours in order make an array in order.
LEMMA SortedArray ==
  ASSUME a \in Seq(Intervals), InOrderOfStart
  PROVE  Sorted(a)
<1> SUFFICES ASSUME NEW i \in 0..(Len(a) - 1), NEW j \in 0..(Len(a) - 1), i <= j
             PROVE  a[i + 1].st <= a[j + 1].st
  BY DEF Sorted
<1> DEFINE d == j - i
           S == {h \in 0..d : a[i + 1].st <= a[i + h + 1].st}
<1>1. Len(a) \in Nat /\ d \in Nat /\ i \in Nat /\ i + d = j
      /\ \A h \in 0..d : i + h \in 0..(Len(a) - 1) /\ i + h \in Nat
  BY ElementTyped
<1>2. \A h \in 0..d : a[i + h + 1].st \in Nat
  BY <1>1, ElementTyped
<1>3. 0 \in S
  <2>1. i + 0 + 1 = i + 1 /\ 0 \in 0..d
    BY <1>1
  <2>2. a[i + 0 + 1].st \in Nat
    BY <1>2, <2>1
  <2> HIDE DEF d
  <2>3. a[i + 1].st <= a[i + 0 + 1].st
    BY <2>1, <2>2
  <2> QED BY <2>1, <2>3
<1>4. ASSUME NEW h \in 0..(d - 1), h \in S PROVE h + 1 \in S
  <2> DEFINE g == h + 1
             m == i + h + 1
  <2>1. g \in 0..d /\ h \in 0..d /\ m \in 1..(Size - 1) /\ i + g + 1 = m + 1
    BY <1>1 DEF Size
  <2>2. a[m].st <= a[m + 1].st
    <3> HIDE DEF m
    <3> QED BY <2>1 DEF InOrderOfStart
  <2>3. a[i + 1].st <= a[m].st
    BY <1>4
  <2>4. a[i + 1].st \in Nat /\ a[m].st \in Nat /\ a[m + 1].st \in Nat
    <3>1. a[m].st \in Nat
      BY <1>2, <2>1
    <3>2. a[i + g + 1].st \in Nat
      <4> HIDE DEF g
      <4> QED BY <1>2, <2>1
    <3>3. a[i + 1].st \in Nat
      BY ElementTyped
    <3> HIDE DEF m, g
    <3> QED BY <2>1, <3>1, <3>2, <3>3
  <2> DEFINE u == a[i + 1].st
             v == a[m].st
             w == a[m + 1].st
  <2>5. u <= w
    <3> HIDE DEF u, v, w
    <3>1. u \in Nat /\ v \in Nat /\ w \in Nat /\ u <= v /\ v <= w
      BY <2>2, <2>3, <2>4 DEF u, v, w
    <3> QED BY <3>1
  <2>6. a[i + 1].st <= a[i + g + 1].st
    <3>1. a[i + g + 1] = a[m + 1]
      <4> HIDE DEF g, m
      <4> QED BY <2>1
    <3> QED BY <2>5, <3>1
  <2> QED BY <2>1, <2>6
<1>5. d \in S
  <2> HIDE DEF S, d
  <2>1. \A h \in 0..d : h \in S
    BY <1>1, <1>3, <1>4, SetInduction
  <2> QED BY <1>1, <2>1
<1> QED BY <1>1, <1>5

\* Maxima do not change the order.
LEMMA SortedKept ==
  ASSUME NEW s \in Seq(Intervals), Sorted(s), NEW t,
         t = [j \in 1..Len(s) |-> t[j]],
         \A j \in 1..Len(s) : t[j] = s[j] \/ \E m : t[j] = [s[j] EXCEPT !.max = m]
  PROVE  Sorted(t)
<1>1. Len(s) \in Nat
  OBVIOUS
<1>2. Len(t) = Len(s)
  <2> DEFINE n == Len(s)
  <2>1. n \in Nat /\ t \in [1..n -> {t[j] : j \in 1..n}]
    BY <1>1
  <2> HIDE DEF n
  <2> QED BY <2>1, MappedArray DEF n
<1>3. ASSUME NEW i \in 0..(Len(s) - 1) PROVE t[i + 1].st = s[i + 1].st
  <2>1. i + 1 \in 1..Len(s) /\ s[i + 1] \in Intervals
    BY ElementTyped
  <2> DEFINE e == s[i + 1]
             f == t[i + 1]
  <2>2. f = e \/ \E m : f = [e EXCEPT !.max = m]
    BY <2>1
  <2>3. e \in Intervals
    BY <2>1
  <2> HIDE DEF e, f
  <2>4. f.st = e.st
    BY <2>2, <2>3 DEF Intervals
  <2> QED BY <2>4 DEF e, f
<1> QED BY <1>2, <1>3 DEF Sorted

LEMMA IndexTraversal ==
  ASSUME MaximaInv, TraversalInv, Leaves \/ Level \/ Indexed
  PROVE  TraversalInv'
<1>1. a \in Seq(Intervals) /\ Sorted(a) /\ phase' \in {"level", "ready"}
  <2>1. CASE Leaves
    BY <2>1, SortedArray DEF Leaves, MaximaInv
  <2>2. CASE Level \/ Indexed
    BY <2>2 DEF Level, Indexed, MaximaInv, TraversalInv
  <2> QED BY <2>1, <2>2
<1>2. CASE a' = a
  BY <1>1, <1>2 DEF TraversalInv
<1>3. CASE a' # a
  <2>1. a' = [j \in 1..Len(a) |-> a'[j]]
        /\ \A j \in 1..Len(a) : a'[j] = a[j] \/ \E m : a'[j] = [a[j] EXCEPT !.max = m]
    <3>1. CASE Leaves
      BY <1>3, <3>1 DEF Leaves, Size
    <3>2. CASE Level
      BY <3>2 DEF Level, Size
    <3>3. CASE Indexed
      BY <1>3, <3>3 DEF Indexed
    <3> QED BY <3>1, <3>2, <3>3
  <2>2. Sorted(a')
    BY <1>1, <2>1, SortedKept
  <2> QED BY <1>1, <2>2 DEF TraversalInv
<1> QED BY <1>2, <1>3

LEMMA TraversalStep == MaximaInv /\ TraversalInv /\ [TreeNext]_treeVars => TraversalInv'
<1> SUFFICES ASSUME MaximaInv, TraversalInv, [TreeNext]_treeVars PROVE TraversalInv'
  OBVIOUS
<1>1. ASSUME NEW s \in Points, NEW e \in Points, NEW d \in Payloads, Add(s, e, d)
      PROVE  TraversalInv'
  BY <1>1 DEF Add, TraversalInv
<1>2. CASE Index
  BY <1>2 DEF Index, TraversalInv
<1>3. CASE IndexStep
  <2>1. ASSUME NEW i \in 0..(Size - 2), Exchange(i) PROVE TraversalInv'
    BY <2>1 DEF Exchange, TraversalInv
  <2> QED BY <1>3, <2>1, IndexTraversal DEF IndexStep
<1>4. ASSUME NEW s \in Points, NEW e \in Points, Overlap(s, e) PROVE TraversalInv'
  BY <1>4, OverlapTraversal
<1>5. CASE OverlapStep
  BY <1>5, ScanTraversal, GoLeftTraversal, GoRightTraversal, ReturnTraversal DEF OverlapStep
<1>6. CASE UNCHANGED treeVars
  <2>1. UNCHANGED <<a, query, out, stack, phase>>
    BY <1>6 DEF treeVars
  <2>2. Hits' = Hits /\ Size' = Size
    BY <2>1, SameHits
  <2>3. Traversing => Traversing'
    BY <2>1, <2>2 DEF Traversing
  <2>4. OverlapExact => OverlapExact'
    BY <2>1 DEF OverlapExact, Starts, Reaches, Node, Size
  <2> QED BY <2>1, <2>3, <2>4 DEF TraversalInv
<1> QED BY <1>1, <1>2, <1>3, <1>4, <1>5, <1>6 DEF TreeNext

(* overlap lists every interval that overlaps with the query, each once, and   *)
(* no other, in the order of the array, for every array and every query: no    *)
(* subtree that it leaves out has a hit, and what is on its stack stands for   *)
(* the nodes that are left (IITree.h:80-105).                                  *)
THEOREM OverlapIsExact == TreeSpec => []OverlapExact
<1>1. TreeInit => MaximaInv /\ TraversalInv
  BY MaximaInit DEF TreeInit, TraversalInv
<1>2. MaximaInv /\ TraversalInv /\ [TreeNext]_treeVars => (MaximaInv /\ TraversalInv)'
  BY MaximaStep, TraversalStep
<1>3. MaximaInv /\ TraversalInv => OverlapExact
  BY DEF TraversalInv, OverlapExact
<1> QED BY <1>1, <1>2, <1>3, PTL DEF TreeSpec

=============================================================================
