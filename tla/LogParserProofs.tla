--------------------------- MODULE LogParserProofs ---------------------------
(***************************************************************************)
(* Whatever a log has in it, the parser stays within it; no row mixes      *)
(* lines, if every line begins with three words; and a good line behind a  *)
(* good one is stored once, whatever the other lines are.                  *)
(***************************************************************************)
EXTENDS LogParser, SequenceTheorems, WellFoundedInduction, TLAPS

-----------------------------------------------------------------------------
(* Induction *)

\* A non-empty set of naturals has a least element.
LEMMA LeastNatural ==
  ASSUME NEW S, S \subseteq Nat, S # {}
  PROVE  \E i \in S : \A j \in S : i <= j
<1>1. IsWellFoundedOn(OpToRel(<, Nat), Nat)
  BY NatLessThanWellFounded
<1>2. PICK x \in S : \A y \in S : ~ (<<y, x>> \in OpToRel(<, Nat))
  BY <1>1, WFMin, Zenon
<1>3. \A y \in S : ~ (y < x)
  BY <1>2 DEF OpToRel
<1> QED BY <1>3

\* What holds of 0, and of k + 1 if of k, holds up to n.
LEMMA SetInduction ==
  ASSUME NEW S, NEW n \in Nat, 0 \in S, \A k \in 0..(n - 1) : k \in S => k + 1 \in S
  PROVE  \A k \in 0..n : k \in S
<1> DEFINE wrong == {k \in 0..n : k \notin S}
<1> SUFFICES ASSUME wrong # {} PROVE FALSE
  OBVIOUS
<1>1. PICK k \in wrong : \A j \in wrong : k <= j
  <2>1. wrong \subseteq Nat
    OBVIOUS
  <2> HIDE DEF wrong
  <2> QED BY <2>1, LeastNatural
<1>2. k # 0 /\ k - 1 \in 0..(n - 1) /\ k - 1 \notin wrong
  BY <1>1
<1> QED BY <1>2

-----------------------------------------------------------------------------
(* The text of a log *)

\* The parts of a text, one after the other
Joined(w, n, f) ==
  /\ f[0] = <<>>
  /\ \A i \in Nat : i < n => f[i + 1] = f[i] \o w[i + 1]

LEMMA JoinedExists ==
  ASSUME NEW T, NEW n \in Nat, NEW w \in [1..n -> Seq(T)]
  PROVE  \E f \in [0..n -> Seq(T)] : Joined(w, n, f)
<1> DEFINE S == {k \in 0..n : \E f \in [0..k -> Seq(T)] : Joined(w, k, f)}
<1>1. 0 \in S
  <2> DEFINE f == [i \in 0..0 |-> <<>>]
  <2>1. f \in [0..0 -> Seq(T)] /\ Joined(w, 0, f)
    BY DEF Joined
  <2> QED BY <2>1
<1>2. ASSUME NEW k \in 0..(n - 1), k \in S PROVE k + 1 \in S
  <2>1. PICK f \in [0..k -> Seq(T)] : Joined(w, k, f)
    BY <1>2
  <2> DEFINE g == [i \in 0..(k + 1) |-> IF i = k + 1 THEN f[k] \o w[k + 1] ELSE f[i]]
  <2>2. f[k] \o w[k + 1] \in Seq(T)
    BY ConcatProperties
  <2>3. g \in [0..(k + 1) -> Seq(T)]
    BY <2>2
  <2>4. Joined(w, k + 1, g)
    <3>1. g[0] = <<>>
      BY <2>1 DEF Joined
    <3>2. ASSUME NEW i \in Nat, i < k + 1 PROVE g[i + 1] = g[i] \o w[i + 1]
      <4>1. CASE i = k
        <5>1. g[k + 1] = f[k] \o w[k + 1] /\ g[k] = f[k]
          BY <3>2
        <5> HIDE DEF g
        <5> QED BY <4>1, <5>1
      <4>2. CASE i # k
        <5>1. f[i + 1] = f[i] \o w[i + 1]
          <6>1. i \in Nat /\ i < k
            BY <3>2, <4>2
          <6> QED BY <2>1, <6>1 DEF Joined
        <5>2. g[i + 1] = f[i + 1] /\ g[i] = f[i]
          BY <3>2, <4>2
        <5> HIDE DEF g
        <5> QED BY <5>1, <5>2
      <4> QED BY <4>1, <4>2
    <3> HIDE DEF g
    <3> QED BY <3>1, <3>2 DEF Joined
  <2>5. k + 1 \in 0..n
    OBVIOUS
  <2> HIDE DEF g
  <2> QED BY <2>3, <2>4, <2>5
<1>3. n \in S
  <2> HIDE DEF S
  <2>1. \A k \in 0..n : k \in S
    BY <1>1, <1>2, SetInduction
  <2> QED BY <2>1
<1> QED BY <1>3

\* FlattenSeq joins them.
LEMMA Flattened ==
  ASSUME NEW T, NEW n \in Nat, NEW w \in [1..n -> Seq(T)],
         NEW f \in [0..n -> Seq(T)], Joined(w, n, f)
  PROVE  FlattenSeq(w) = f[n]
<1>1. w \in Seq(Seq(T)) /\ Len(w) = n
  BY SeqDef
<1>2. CASE n = 0
  <2>1. w = <<>>
    BY <1>1, <1>2
  <2> QED BY <1>1, <1>2, <2>1 DEF FlattenSeq, Joined
<1>3. CASE n # 0
  <2> DEFINE Eq(g) == g = [i \in 1..n |-> IF i = 1 THEN w[i] ELSE g[i - 1] \o w[i]]
             g == CHOOSE g : Eq(g)
  <2>1. FlattenSeq(w) = g[n]
    BY <1>1, <1>3 DEF FlattenSeq
  <2>2. Eq(g)
    <3> DEFINE h == [i \in 1..n |-> f[i]]
               rhs == [i \in 1..n |-> IF i = 1 THEN w[i] ELSE h[i - 1] \o w[i]]
    <3>1. ASSUME NEW i \in 1..n PROVE h[i] = rhs[i]
      <4>1. CASE i = 1
        <5>1. 0 < n /\ w[1] \in Seq(T)
          BY <4>1
        <5>2. f[0 + 1] = f[0] \o w[0 + 1] /\ f[0] = <<>>
          BY <5>1 DEF Joined
        <5>3. f[1] = w[1]
          BY <5>1, <5>2, ConcatEmptySeq
        <5> QED BY <4>1, <5>3
      <4>2. CASE i # 1
        <5>1. i - 1 \in 0..(n - 1) /\ i - 1 \in 1..n /\ i - 1 + 1 = i
          BY <4>2
        <5> DEFINE j == i - 1
        <5>2. j \in Nat /\ j < n /\ i = j + 1 /\ j \in 1..n
          BY <5>1
        <5> HIDE DEF j
        <5>3. f[j + 1] = f[j] \o w[j + 1]
          BY <5>2 DEF Joined
        <5> QED BY <4>2, <5>2, <5>3 DEF j
      <4> QED BY <4>1, <4>2
    <3>2. h = rhs
      BY <3>1
    <3>3. Eq(h)
      BY <3>2
    <3> HIDE DEF h
    <3> QED BY <3>3
  <2>3. \A i \in 1..n : g[i] = IF i = 1 THEN w[i] ELSE g[i - 1] \o w[i]
    <3> HIDE DEF g
    <3> QED BY <2>2
  <2> HIDE DEF g
  <2> DEFINE S == {k \in 0..n : k # 0 => g[k] = f[k]}
  <2>4. 0 \in S
    OBVIOUS
  <2>5. ASSUME NEW k \in 0..(n - 1), k \in S PROVE k + 1 \in S
    <3>1. f[k + 1] = f[k] \o w[k + 1]
      <4>1. k \in Nat /\ k < n
        OBVIOUS
      <4> QED BY <4>1 DEF Joined
    <3>2. CASE k = 0
      <4>1. g[1] = w[1] /\ w[1] \in Seq(T)
        BY <2>3, <1>3
      <4>2. f[0] = <<>>
        BY DEF Joined
      <4>3. f[0 + 1] = w[0 + 1]
        BY <3>1, <3>2, <4>1, <4>2, ConcatEmptySeq
      <4> QED BY <3>2, <4>1, <4>3
    <3>3. CASE k # 0
      <4> DEFINE j == k + 1
      <4>1. j \in 1..n /\ j # 1 /\ k = j - 1
        BY <3>3
      <4>2. g[k] = f[k]
        BY <2>5, <3>3
      <4> HIDE DEF j
      <4>3. g[j] = g[j - 1] \o w[j]
        BY <2>3, <4>1
      <4>4. g[j] = f[j]
        BY <3>1, <4>1, <4>2, <4>3 DEF j
      <4> QED BY <4>1, <4>4 DEF j
    <3> QED BY <3>2, <3>3
  <2>6. n \in S
    <3> HIDE DEF S
    <3>1. \A k \in 0..n : k \in S
      BY <2>4, <2>5, SetInduction
    <3> QED BY <3>1
  <2> QED BY <2>1, <2>6, <1>3
<1> QED BY <1>2, <1>3

\* The text up to a part is how the whole begins, and every position of it is
\* in one of the parts.
LEMMA PartsOfJoined ==
  ASSUME NEW T, NEW n \in Nat, NEW w \in [1..n -> Seq(T)],
         NEW f \in [0..n -> Seq(T)], Joined(w, n, f)
  PROVE  /\ \A i \in 0..n : /\ Len(f[i]) <= Len(f[n])
                            /\ \A p \in 1..Len(f[i]) : f[n][p] = f[i][p]
         /\ \A p \in 1..Len(f[n]) : \E i \in 1..n : Len(f[i - 1]) < p /\ p <= Len(f[i])
<1> DEFINE Begins(s, t) == /\ Len(s) <= Len(t)
                           /\ \A p \in 1..Len(s) : t[p] = s[p]
           Covered(k) == \A p \in 1..Len(f[k]) : \E i \in 1..k : Len(f[i - 1]) < p /\ p <= Len(f[i])
           S == {k \in 0..n : Covered(k) /\ \A i \in 0..k : Begins(f[i], f[k])}
<1>1. 0 \in S
  <2>1. Covered(0)
    BY DEF Joined
  <2>2. \A i \in 0..0 : Begins(f[i], f[0])
    BY DEF Joined
  <2> QED BY <2>1, <2>2
<1>2. ASSUME NEW k \in 0..(n - 1), k \in S PROVE k + 1 \in S
  <2> DEFINE j == k + 1
             s == f[k]
             t == f[j]
  <2>1. j \in 1..n /\ j \in Nat /\ k \in Nat /\ k < n /\ k = j - 1
    OBVIOUS
  <2>2. t = s \o w[j] /\ s \in Seq(T) /\ w[j] \in Seq(T) /\ t \in Seq(T)
    <3>1. f[k + 1] = f[k] \o w[k + 1]
      BY <2>1 DEF Joined
    <3>2. k \in 0..n /\ k + 1 \in 0..n /\ k + 1 \in 1..n
      BY <2>1
    <3> QED BY <3>1, <3>2
  <2>3. Covered(k) /\ \A i \in 0..k : Begins(f[i], s)
    BY <1>2
  <2> HIDE DEF j, s, t
  <2>4. Begins(s, t) /\ Len(s) \in Nat /\ Len(t) \in Nat
    BY <2>2, ConcatProperties, LenProperties
  <2>5. ASSUME NEW i \in 0..j PROVE Begins(f[i], t)
    <3>1. CASE i = j
      BY <3>1, <2>2, LenProperties DEF t
    <3>2. CASE i # j
      <4>1. i \in 0..k /\ Len(f[i]) \in Nat
        BY <2>1, <3>2, LenProperties
      <4>2. Begins(f[i], s)
        BY <2>3, <4>1
      <4> QED BY <2>4, <4>1, <4>2
    <3> QED BY <3>1, <3>2
  <2>6. Covered(j)
    <3> SUFFICES ASSUME NEW p \in 1..Len(t)
                 PROVE  \E i \in 1..j : Len(f[i - 1]) < p /\ p <= Len(f[i])
      BY DEF t
    <3>1. CASE p \in 1..Len(s)
      <4>1. PICK i \in 1..k : Len(f[i - 1]) < p /\ p <= Len(f[i])
        BY <2>3, <3>1 DEF s
      <4>2. i \in 1..j
        BY <2>1
      <4> QED BY <4>1, <4>2
    <3>2. CASE p \notin 1..Len(s)
      <4>1. Len(s) < p /\ p <= Len(t)
        BY <2>4, <3>2
      <4> QED BY <2>1, <4>1 DEF s, t
    <3> QED BY <3>1, <3>2
  <2>7. j \in 0..n
    BY <2>1
  <2>8. j \in S
    BY <2>5, <2>6, <2>7 DEF t
  <2> QED BY <2>8 DEF j
<1>3. n \in S
  <2> HIDE DEF S
  <2>1. \A k \in 0..n : k \in S
    BY <1>1, <1>2, SetInduction
  <2> QED BY <2>1
<1> QED BY <1>3
\* Where the lines are in the input: each is followed by a newline, or by the
\* end of the input.
LineAt(i) ==
  /\ Start(i) \in Nat \ {0} /\ Stop(i) \in Nat
  /\ Stop(i) <= Len(input)
  /\ \A p \in Start(i)..Stop(i) :
        p - Start(i) + 1 \in DOMAIN lines[i] /\ input[p] = lines[i][p - Start(i) + 1]
  /\ Stop(i) + 1 <= Len(input) => input[Stop(i) + 1] = "nl"

Layout ==
  /\ lines \in Seq(Lines)
  /\ input \in Seq(Tokens) /\ Len(input) \in Nat
  /\ \A i \in DOMAIN lines : LineAt(i)
  /\ \A i \in DOMAIN lines : IF i = 1 THEN Start(i) = 1
                             ELSE i - 1 \in DOMAIN lines /\ Start(i) = Stop(i - 1) + 2
  /\ \A p \in 1..Len(input) :
        input[p] # "nl" => \E i \in DOMAIN lines : p \in Start(i)..Stop(i)

LEMMA LaidOut == Init => Layout
<1> SUFFICES ASSUME Init PROVE Layout
  OBVIOUS
<1> DEFINE n == Len(lines)
           w == [i \in 1..n |-> lines[i] \o <<"nl">>]
<1>1. lines \in Seq(Lines) /\ n \in Nat \ {0} /\ DOMAIN lines = 1..n
  <2>1. lines \in UNION {[1..m -> Lines] : m \in 0..MaxLines} /\ lines # <<>>
    BY DEF Init, BoundedSeq, SeqOf
  <2>2. lines \in Seq(Lines)
    BY <2>1, LinesAssumption, SeqDef
  <2> QED BY <2>1, <2>2, LenProperties, EmptySeq
<1>2. \A i \in 1..n : lines[i] \in Seq(Tokens \ {"nl"}) /\ lines[i] \in Seq(Tokens)
  <2>1. \A i \in 1..n : lines[i] \in Seq(Tokens \ {"nl"})
    BY <1>1, LinesAssumption, ElementOfSeq
  <2>2. Seq(Tokens \ {"nl"}) \subseteq Seq(Tokens)
    BY SeqMonotonic
  <2> QED BY <2>1, <2>2
<1>3. <<"nl">> \in Seq(Tokens) /\ Len(<<"nl">>) = 1 /\ <<"nl">>[1] = "nl"
  BY DEF Tokens
<1> DEFINE joins(i, v) == /\ v \in Seq(Tokens)
                          /\ Len(v) = Len(lines[i]) + 1
                          /\ \A p \in 1..Len(lines[i]) : v[p] = lines[i][p]
                          /\ v[Len(lines[i]) + 1] = "nl"
<1>4. \A i \in 1..n : joins(i, lines[i] \o <<"nl">>)
  <2> SUFFICES ASSUME NEW i \in 1..n PROVE joins(i, lines[i] \o <<"nl">>)
    OBVIOUS
  <2> DEFINE l == lines[i]
             x == <<"nl">>
  <2>1. l \in Seq(Tokens) /\ Len(l) \in Nat
    BY <1>2, LenProperties
  <2> HIDE DEF l, x
  <2>2. /\ l \o x \in Seq(Tokens) /\ Len(l \o x) = Len(l) + 1
        /\ \A p \in 1..(Len(l) + 1) : (l \o x)[p] = IF p <= Len(l) THEN l[p] ELSE x[p - Len(l)]
    BY <1>3, <2>1, ConcatProperties DEF x
  <2>3. Len(l) + 1 \in 1..(Len(l) + 1) /\ Len(l) + 1 - Len(l) = 1 /\ ~ Len(l) + 1 <= Len(l)
    BY <2>1
  <2>4. (l \o x)[Len(l) + 1] = "nl"
    BY <2>2, <2>3, <1>3 DEF x
  <2>5. \A p \in 1..Len(l) : (l \o x)[p] = l[p]
    BY <2>1, <2>2
  <2> QED BY <2>2, <2>4, <2>5 DEF l, x
<1>5. w \in [1..n -> Seq(Tokens)] /\ \A i \in 1..n : joins(i, w[i])
  BY <1>4
<1>6. PICK f \in [0..n -> Seq(Tokens)] : Joined(w, n, f)
  <2> HIDE DEF w
  <2> QED BY <1>1, <1>5, JoinedExists
<1>7. ASSUME NEW k \in 0..n
      PROVE  Text(SubSeq(lines, 1, k), TRUE) = f[k]
  <2> DEFINE u == [i \in 1..k |-> w[i]]
             g == [i \in 0..k |-> f[i]]
             s == SubSeq(lines, 1, k)
  <2>1. s = [i \in 1..k |-> lines[i]] /\ DOMAIN s = 1..k
    BY <1>1
  <2>2. [i \in DOMAIN s |-> s[i] \o <<"nl">>] = u
    BY <2>1
  <2>3. u \in [1..k -> Seq(Tokens)] /\ g \in [0..k -> Seq(Tokens)] /\ k \in Nat
    BY <1>5, <1>6
  <2>4. Joined(u, k, g)
    <3>1. g[0] = <<>>
      BY <1>6 DEF Joined
    <3>2. ASSUME NEW i \in Nat, i < k PROVE g[i + 1] = g[i] \o u[i + 1]
      <4>1. i < n /\ i \in 0..k /\ i + 1 \in 0..k /\ i + 1 \in 1..k
        BY <3>2
      <4>2. f[i + 1] = f[i] \o w[i + 1]
        BY <1>6, <4>1 DEF Joined
      <4>3. g[i + 1] = f[i + 1] /\ g[i] = f[i] /\ u[i + 1] = w[i + 1]
        BY <4>1
      <4> QED BY <4>2, <4>3
    <3> HIDE DEF g, u
    <3> QED BY <3>1, <3>2 DEF Joined
  <2>5. FlattenSeq(u) = g[k]
    <3> HIDE DEF g, u
    <3> QED BY <2>3, <2>4, Flattened
  <2> HIDE DEF u, s
  <2>6. Text(s, TRUE) = FlattenSeq(u)
    BY <2>2 DEF Text
  <2> QED BY <2>5, <2>6 DEF s
<1> DEFINE all == f[n]
           len == Len(all)
<1>8. Text(lines, TRUE) = all
  <2>1. SubSeq(lines, 1, n) = lines
    BY <1>1, SubSeqFull
  <2>2. n \in 0..n
    BY <1>1
  <2> QED BY <1>7, <2>1, <2>2
<1>9. Text(lines, FALSE) = SubSeq(all, 1, len - 1)
  BY <1>8 DEF Text
<1>10. /\ all \in Seq(Tokens) /\ len \in Nat /\ DOMAIN all = 1..len
       /\ \A i \in 0..n : f[i] \in Seq(Tokens) /\ Len(f[i]) \in Nat
  BY <1>1, <1>6, LenProperties
<1> HIDE DEF all, len
<1>11. /\ input \in Seq(Tokens) /\ Len(input) \in Nat
       /\ len - 1 <= Len(input) /\ Len(input) <= len
       /\ \A p \in 1..Len(input) : input[p] = all[p]
  <2>1. CASE input = all
    BY <2>1, <1>10 DEF len
  <2>2. CASE input = SubSeq(all, 1, len - 1)
    <3>1. 1 \in Int /\ len - 1 \in Int /\ \A i \in 1..(len - 1) : all[i] \in Tokens
      BY <1>10, ElementOfSeq DEF len
    <3>2. /\ input \in Seq(Tokens)
          /\ Len(input) = IF 1 <= len - 1 THEN len - 1 - 1 + 1 ELSE 0
          /\ \A i \in 1..(len - 1 - 1 + 1) : input[i] = all[1 + i - 1]
      BY <2>2, <3>1, SubSeqProperties
    <3>3. Len(input) = IF 1 <= len - 1 THEN len - 1 ELSE 0
      BY <3>2, <1>10
    <3>4. ASSUME NEW p \in 1..Len(input) PROVE input[p] = all[p]
      <4>1. p \in 1..(len - 1 - 1 + 1) /\ 1 + p - 1 = p
        BY <3>3, <1>10
      <4> QED BY <3>2, <4>1
    <3> QED BY <3>2, <3>3, <3>4, <1>10
  <2>3. \E closed \in BOOLEAN : input = Text(lines, closed)
    BY DEF Init
  <2> QED BY <2>1, <2>2, <2>3, <1>8, <1>9
<1>12. /\ \A i \in 0..n : /\ Len(f[i]) <= len
                          /\ \A p \in 1..Len(f[i]) : all[p] = f[i][p]
       /\ \A p \in 1..len : \E i \in 1..n : Len(f[i - 1]) < p /\ p <= Len(f[i])
  <2> HIDE DEF w
  <2> QED BY <1>1, <1>5, <1>6, PartsOfJoined DEF all, len
<1>13. ASSUME NEW i \in 1..n
       PROVE  /\ Start(i) = 1 + Len(f[i - 1])
              /\ Stop(i) + 1 = Len(f[i])
              /\ Stop(i) = Len(f[i - 1]) + Len(lines[i])
              /\ \A p \in 1..Len(lines[i]) : f[i][Len(f[i - 1]) + p] = lines[i][p]
              /\ f[i][Stop(i) + 1] = "nl"
  <2> DEFINE j == i - 1
             a == Len(f[j])
             b == Len(lines[i])
             v == w[i]
  <2>1. j \in 0..n /\ j \in Nat /\ j < n /\ i = j + 1
    BY <1>1
  <2>2. f[i] = f[j] \o v
    <3> HIDE DEF j, w
    <3>1. f[j + 1] = f[j] \o w[j + 1]
      BY <1>6, <2>1 DEF Joined
    <3> QED BY <2>1, <3>1
  <2>3. Start(i) = 1 + a
    BY <1>7, <2>1 DEF Start
  <2>4. a \in Nat /\ b \in Nat /\ f[j] \in Seq(Tokens)
    BY <1>2, <1>10, <2>1, LenProperties
  <2>5. /\ v \in Seq(Tokens) /\ Len(v) = b + 1
        /\ \A p \in 1..b : v[p] = lines[i][p]
        /\ v[b + 1] = "nl"
    BY <1>5
  <2> HIDE DEF j, v, w, joins, n
  <2>6. /\ Len(f[i]) = a + (b + 1)
        /\ \A p \in 1..(a + (b + 1)) : f[i][p] = IF p <= a THEN f[j][p] ELSE v[p - a]
    <3>1. /\ Len(f[j] \o v) = Len(f[j]) + Len(v)
          /\ \A p \in 1..(Len(f[j]) + Len(v)) : (f[j] \o v)[p] =
               IF p <= Len(f[j]) THEN f[j][p] ELSE v[p - Len(f[j])]
      BY <2>4, <2>5, ConcatProperties
    <3> QED BY <2>2, <2>5, <3>1
  <2>7. Stop(i) = a + b
    <3>1. Stop(i) = Start(i) + b - 1
      BY DEF Stop
    <3> HIDE DEF a, b
    <3> QED BY <2>3, <2>4, <3>1
  <2> HIDE DEF a, b
  <2>8. ASSUME NEW p \in 1..b PROVE f[i][a + p] = lines[i][p]
    <3> DEFINE q == a + p
    <3>1. q \in 1..(a + (b + 1)) /\ ~ q <= a /\ q - a = p
      BY <2>4
    <3> HIDE DEF q
    <3>2. f[i][q] = v[q - a]
      BY <2>6, <3>1
    <3>3. f[i][q] = v[p]
      BY <3>1, <3>2
    <3> QED BY <2>5, <3>3 DEF q
  <2>9. f[i][a + b + 1] = "nl"
    <3> DEFINE q == a + b + 1
    <3>1. q \in 1..(a + (b + 1)) /\ ~ q <= a /\ q - a = b + 1
      BY <2>4
    <3> HIDE DEF q
    <3>2. f[i][q] = v[q - a]
      BY <2>6, <3>1
    <3>3. f[i][q] = v[b + 1]
      BY <3>1, <3>2
    <3> QED BY <2>5, <3>3 DEF q
  <2>10. Stop(i) + 1 = a + b + 1 /\ Len(f[i]) = a + b + 1
    BY <2>4, <2>6, <2>7
  <2> QED BY <2>3, <2>7, <2>8, <2>9, <2>10 DEF a, b, j
<1>14. ASSUME NEW i \in 1..n PROVE LineAt(i)
  <2> DEFINE a == Len(f[i - 1])
             b == Len(lines[i])
  <2>1. a \in Nat /\ b \in Nat /\ Len(f[i]) \in Nat
    <3>1. i - 1 \in 0..n /\ i \in 0..n
      BY <1>1
    <3> QED BY <1>2, <1>10, <3>1, LenProperties
  <2>2. DOMAIN lines[i] = 1..b
    BY <1>2, LenProperties
  <2>3. Start(i) = 1 + a /\ Stop(i) = a + b /\ Len(f[i]) = a + b + 1
    BY <1>13
  <2>4. Len(f[i]) <= len /\ \A p \in 1..Len(f[i]) : all[p] = f[i][p]
    <3>1. i \in 0..n
      BY <1>1
    <3> QED BY <1>12, <3>1
  <2> HIDE DEF a, b
  <2>5. Stop(i) <= Len(input)
    BY <2>1, <2>3, <2>4, <1>10, <1>11
  <2>6. ASSUME NEW p \in Start(i)..Stop(i)
        PROVE  p - Start(i) + 1 \in DOMAIN lines[i] /\ input[p] = lines[i][p - Start(i) + 1]
    <3> DEFINE q == p - Start(i) + 1
    <3>1. q \in 1..b /\ p = a + q /\ p \in 1..Len(f[i]) /\ p \in 1..Len(input)
      BY <2>1, <2>3, <2>5, <1>11
    <3> HIDE DEF q
    <3>2. f[i][p] = lines[i][q]
      BY <1>13, <3>1 DEF a, b
    <3> QED BY <1>11, <2>2, <2>4, <3>1, <3>2 DEF q
  <2>7. Stop(i) + 1 <= Len(input) => input[Stop(i) + 1] = "nl"
    <3>1. Stop(i) + 1 \in 1..Len(f[i])
      BY <2>1, <2>3
    <3>2. all[Stop(i) + 1] = "nl"
      BY <1>13, <2>4, <3>1
    <3> QED BY <1>11, <3>1, <3>2, <2>1, <2>3
  <2> QED BY <2>1, <2>3, <2>5, <2>6, <2>7 DEF LineAt
<1>15. ASSUME NEW p \in 1..Len(input), input[p] # "nl"
       PROVE  \E i \in DOMAIN lines : p \in Start(i)..Stop(i)
  <2>1. p \in 1..len
    BY <1>10, <1>11
  <2>2. PICK i \in 1..n : Len(f[i - 1]) < p /\ p <= Len(f[i])
    BY <1>12, <2>1
  <2>3. /\ Start(i) = 1 + Len(f[i - 1]) /\ Stop(i) + 1 = Len(f[i])
        /\ f[i][Stop(i) + 1] = "nl"
    BY <1>13
  <2>4. Len(f[i - 1]) \in Nat /\ Len(f[i]) \in Nat /\ Stop(i) \in Int
    <3>1. i - 1 \in 0..n /\ i \in 0..n
      BY <1>1
    <3>2. LineAt(i)
      BY <1>14
    <3> QED BY <1>10, <3>1, <3>2 DEF LineAt
  <2>5. p # Len(f[i])
    <3>1. SUFFICES ASSUME p = Len(f[i]) PROVE input[p] = "nl"
      BY <1>15
    <3>2. p \in 1..Len(f[i]) /\ i \in 0..n
      BY <1>1, <3>1
    <3>3. input[p] = all[p] /\ all[p] = f[i][p]
      BY <1>11, <1>12, <3>2
    <3> QED BY <2>3, <3>1, <3>3
  <2>6. p \in Start(i)..Stop(i)
    BY <2>2, <2>3, <2>4, <2>5
  <2> QED BY <1>1, <2>6
<1>16. ASSUME NEW i \in DOMAIN lines
       PROVE  IF i = 1 THEN Start(i) = 1
              ELSE i - 1 \in DOMAIN lines /\ Start(i) = Stop(i - 1) + 2
  <2>1. i \in 1..n
    BY <1>1
  <2>2. CASE i = 1
    <3>1. Len(f[0]) = 0
      BY <1>6 DEF Joined
    <3>2. Start(i) = 1 + Len(f[i - 1])
      BY <1>13, <2>1
    <3>3. i - 1 = 0
      BY <2>2
    <3>4. Start(i) = 1
      BY <3>1, <3>2, <3>3
    <3> QED BY <2>2, <3>4
  <2>3. CASE i # 1
    <3> DEFINE j == i - 1
    <3>1. j \in 1..n /\ j \in 0..n
      BY <2>1, <2>3, <1>1
    <3>2. Start(i) = 1 + Len(f[j])
      BY <1>13, <2>1
    <3> HIDE DEF j
    <3>3. Stop(j) + 1 = Len(f[j]) /\ Len(f[j]) \in Nat /\ Stop(j) \in Nat
      BY <1>10, <1>13, <1>14, <3>1 DEF LineAt
    <3>4. Start(i) = Stop(j) + 2
      BY <3>2, <3>3
    <3> QED BY <1>1, <2>3, <3>1, <3>4 DEF j
  <2> QED BY <2>2, <2>3
<1> QED BY <1>1, <1>11, <1>14, <1>15, <1>16 DEF Layout

-----------------------------------------------------------------------------
(* The inductive invariant *)

Span == (1..Len(input)) \X (0..Len(input))

ParserTypes == Layout /\ TypeOK

\* The words of line i that begin before the next character
Begun(i) == {p \in Start(i)..(at - 1) :
               input[p] # "sp" /\ (p = Start(i) \/ input[p - 1] = "sp")}

\* The fields that have been read are all on line i, where the parser is.
InLine(i) ==
  /\ at - 1 \in Start(i)..Stop(i)
  /\ spans[1][2] \in Start(i)..Stop(i)
  /\ \A f \in 2..Len(spans) : Within(spans[f], i)

\* A word has run over the end of its line, and at most two of line i's have
\* been read since: too few for what has to come after them.
Broken(i) ==
  /\ at - 1 \in Start(i)..Stop(i) /\ input[at - 1] = "sp"
  /\ \/ Len(spans) = 1 /\ Begun(i) = {}
     \/ Len(spans) \in {2, 6} /\ \E x \in Start(i)..(at - 1) : Begun(i) \subseteq {x}
     \/ /\ Len(spans) \in {3, 7}
        /\ \E x, y \in Start(i)..(at - 1) : Begun(i) \subseteq {x, y}

FromOneLine(row) ==
  \E i \in DOMAIN lines : /\ row[1][2] \in Start(i)..Stop(i)
                          /\ \A f \in 2..Len(Format) : Within(row[f], i)

RowsInv ==
  /\ RowsFromOneLine
  /\ pc = "skip" => spans = <<>>
  /\ Len(spans) > 0 => \E i \in DOMAIN lines : InLine(i) \/ Broken(i)

-----------------------------------------------------------------------------
(* Where the parser's operations stop *)

LEMMA NextOfFacts ==
  ASSUME Layout, NEW S, NEW p \in 1..(Len(input) + 1)
  PROVE  /\ NextOf(p, S) \in p..(Len(input) + 1)
         /\ NextOf(p, S) <= Len(input) => input[NextOf(p, S)] \in S
         /\ \A r \in p..(NextOf(p, S) - 1) : input[r] \notin S
<1> DEFINE n == Len(input)
           T == {q \in p..(n + 1) : q <= n => input[q] \in S}
           First(q) == /\ q <= n => input[q] \in S
                       /\ \A r \in p..(q - 1) : input[r] \notin S
<1>1. n \in Nat /\ p \in 1..(n + 1)
  BY DEF Layout
<1> HIDE DEF n
<1>2. n + 1 \in T /\ T \subseteq Nat
  BY <1>1
<1>3. PICK q \in T : \A r \in T : q <= r
  <2> HIDE DEF T
  <2> QED BY <1>2, LeastNatural
<1>4. First(q)
  <2>1. ASSUME NEW r \in p..(q - 1) PROVE input[r] \notin S
    <3>1. r \notin T
      BY <1>1, <1>3
    <3> QED BY <1>1, <1>3, <3>1
  <2> QED BY <1>3, <2>1
<1>5. \E x \in p..(n + 1) : First(x)
  BY <1>3, <1>4
<1>6. NextOf(p, S) = CHOOSE x \in p..(n + 1) : First(x)
  BY DEF NextOf, n
<1> HIDE DEF First
<1>7. NextOf(p, S) \in p..(n + 1) /\ First(NextOf(p, S))
  BY <1>5, <1>6
<1> QED BY <1>7 DEF First, n

\* A word, up to the space that ends it
LEMMA WordFacts ==
  ASSUME ParserTypes
  PROVE  /\ SkipSpaces(at) \in at..(Len(input) + 1)
         /\ WordEnd \in SkipSpaces(at)..(Len(input) + 1)
         /\ \A r \in at..(SkipSpaces(at) - 1) : input[r] = "sp"
         /\ \A r \in SkipSpaces(at)..(WordEnd - 1) : input[r] # "sp"
         /\ WordEnd <= Len(input) => input[WordEnd] = "sp" /\ SkipSpaces(at) < WordEnd
<1> DEFINE o == SkipSpaces(at)
           n == Len(input)
<1>1. Layout /\ at \in 1..(n + 1) /\ input \in Seq(Tokens) /\ n \in Nat
  BY DEF ParserTypes, TypeOK, Layout
<1>2. /\ o \in at..(n + 1)
      /\ o <= n => input[o] \in Tokens \ {"sp"}
      /\ \A r \in at..(o - 1) : input[r] \notin Tokens \ {"sp"}
  BY <1>1, NextOfFacts DEF SkipSpaces
<1>3. o \in 1..(n + 1)
  BY <1>1, <1>2
<1> HIDE DEF o
<1>4. /\ WordEnd \in o..(n + 1)
      /\ WordEnd <= n => input[WordEnd] = "sp"
      /\ \A r \in o..(WordEnd - 1) : input[r] # "sp"
  <2>1. WordEnd = NextOf(o, {"sp"})
    BY DEF WordEnd, o
  <2> QED BY <1>1, <1>3, <2>1, NextOfFacts
<1>5. ASSUME NEW r \in at..(o - 1) PROVE input[r] = "sp"
  <2>1. r \in 1..n
    BY <1>1, <1>2
  <2>2. input[r] \in Tokens
    BY <1>1, <2>1, ElementOfSeq
  <2> QED BY <1>2, <2>2
<1>6. WordEnd <= n => o < WordEnd
  BY <1>1, <1>2, <1>4
<1> QED BY <1>2, <1>4, <1>5, <1>6 DEF o

\* What is between delimiters does not go on to the next line.
LEMMA DelimFacts ==
  ASSUME ParserTypes, NEW kind, SkipSpaces(at) <= Len(input)
  PROVE  /\ DelimEnd(kind) \in (SkipSpaces(at) + 1)..(Len(input) + 1)
         /\ \A r \in (SkipSpaces(at) + 1)..(DelimEnd(kind) - 1) : input[r] # "nl"
<1> DEFINE o == SkipSpaces(at) + 1
<1>1. o \in 1..(Len(input) + 1) /\ Layout
  BY WordFacts DEF ParserTypes, TypeOK, Layout
<1>2. DelimEnd(kind) = NextOf(o, {Closing(kind), "nl"})
  BY DEF DelimEnd
<1> HIDE DEF o
<1>3. /\ DelimEnd(kind) \in o..(Len(input) + 1)
      /\ \A r \in o..(DelimEnd(kind) - 1) : input[r] \notin {Closing(kind), "nl"}
  BY <1>1, <1>2, NextOfFacts
<1> QED BY <1>3 DEF o

-----------------------------------------------------------------------------
(* What the steps do *)

LEMMA FormatFacts ==
  /\ Len(Format) = 12
  /\ \A k \in 1..12 : /\ Format[k] \in {"word", "bracketed", "quoted", "number"}
                      /\ Format[k] = "word" <=> k \in 1..3
                      /\ Format[k] = "number" <=> k \in {6, 7}
<1>1. Len(Format) = 12
  BY DEF Format
<1>2. /\ Format[1] = "word" /\ Format[2] = "word" /\ Format[3] = "word"
      /\ Format[4] = "bracketed" /\ Format[5] = "quoted"
      /\ Format[6] = "number" /\ Format[7] = "number"
      /\ Format[8] = "quoted" /\ Format[9] = "quoted" /\ Format[10] = "quoted"
      /\ Format[11] = "quoted" /\ Format[12] = "quoted"
  BY DEF Format
<1>3. \A k \in 1..12 : \/ k = 1 \/ k = 2 \/ k = 3 \/ k = 4 \/ k = 5 \/ k = 6
                       \/ k = 7 \/ k = 8 \/ k = 9 \/ k = 10 \/ k = 11 \/ k = 12
  OBVIOUS
<1> QED BY <1>1, <1>2, <1>3

\* An operation throws, and the fields of the line so far are forgotten.
Thrown == /\ at' \in 1..(Len(input) + 1)
          /\ spans' = <<>>
          /\ pc' \in {"skip", "eof"}

\* A word is read, in a place where one is asked for.
ReadsWord ==
  /\ pc = "fields" /\ pc' = "fields"
  /\ Len(spans) \in {0, 1, 2, 5, 6}
  /\ WordEnd <= Len(input)
  /\ spans' = Append(spans, <<SkipSpaces(at), WordEnd - 1>>)
  /\ at' = WordEnd + 1

ReadsDelim(kind) ==
  /\ pc = "fields" /\ pc' = "fields"
  /\ Len(spans) \in {3, 4, 7, 8, 9, 10, 11}
  /\ SkipSpaces(at) <= Len(input)
  /\ input[SkipSpaces(at)] \in {"[", "quote"}
  /\ DelimEnd(kind) <= Len(input)
  /\ input[DelimEnd(kind)] # "nl"
  /\ spans' = Append(spans, <<SkipSpaces(at) + 1, DelimEnd(kind) - 1>>)
  /\ at' = DelimEnd(kind) + 1

LEMMA WantsFacts ==
  ASSUME ParserTypes, NEW kinds, Wants(kinds)
  PROVE  /\ pc = "fields" /\ Len(spans) \in 0..11
         /\ kinds \subseteq {"word", "number"} => Len(spans) \in {0, 1, 2, 5, 6}
         /\ kinds \subseteq {"bracketed", "quoted"} =>
              Len(spans) \in {3, 4, 7, 8, 9, 10, 11}
<1> DEFINE k == Len(spans)
<1>1. k \in Nat /\ k < 12 /\ Format[k + 1] \in kinds /\ pc = "fields"
  <2>1. spans \in Seq(Span)
    BY DEF ParserTypes, TypeOK, Span
  <2> QED BY <2>1, FormatFacts, LenProperties DEF Wants
<1> HIDE DEF k
<1>2. k + 1 \in 1..12 /\ k \in 0..11
  BY <1>1
<1>3. kinds \subseteq {"word", "number"} => k + 1 \in 1..3 \/ k + 1 \in {6, 7}
  BY <1>1, <1>2, FormatFacts
<1>4. kinds \subseteq {"bracketed", "quoted"} => ~ (k + 1 \in 1..3) /\ ~ (k + 1 \in {6, 7})
  BY <1>1, <1>2, FormatFacts
<1>5. kinds \subseteq {"word", "number"} => k \in {0, 1, 2, 5, 6}
  BY <1>2, <1>3
<1>6. kinds \subseteq {"bracketed", "quoted"} => k \in {3, 4, 7, 8, 9, 10, 11}
  BY <1>2, <1>4
<1> QED BY <1>1, <1>2, <1>5, <1>6 DEF k

LEMMA ReadSteps ==
  ASSUME ParserTypes,
         GetWord \/ GetNumber \/ \E kind \in {"bracketed", "quoted"} : GetDelim(kind)
  PROVE  /\ UNCHANGED <<lines, input, rows>>
         /\ Thrown \/ ReadsWord \/ \E kind \in {"bracketed", "quoted"} : ReadsDelim(kind)
<1>1. at \in 1..(Len(input) + 1) /\ Len(input) \in Nat
  BY DEF ParserTypes, TypeOK, Layout
<1>2. ASSUME Eof PROVE Thrown
  BY <1>1, <1>2 DEF Eof, Thrown
<1>3. CASE GetWord
  <2>1. CASE WordEnd > Len(input)
    BY <1>2, <1>3, <2>1 DEF GetWord, Eof
  <2>2. CASE ~ WordEnd > Len(input)
    <3>1. Wants({"word"}) /\ Field(SkipSpaces(at), WordEnd - 1) /\ WordEnd <= Len(input)
      BY <1>1, <1>3, <2>2, WordFacts DEF GetWord
    <3>2. WordEnd \in Int
      BY WordFacts, <1>1
    <3> QED BY <3>1, <3>2, WantsFacts DEF Field, ReadsWord
  <2> QED BY <2>1, <2>2
<1>4. CASE GetNumber
  <2>1. CASE Eof
    BY <1>2, <2>1 DEF Eof
  <2>2. CASE WordEnd <= Len(input) /\ Throw(WordEnd + 1)
    <3>1. WordEnd + 1 \in 1..(Len(input) + 1)
      BY <1>1, <2>2, WordFacts
    <3> QED BY <2>2, <3>1 DEF Throw, Thrown
  <2>3. CASE WordEnd <= Len(input) /\ Field(SkipSpaces(at), WordEnd - 1)
    <3>1. Wants({"number"})
      BY <1>4 DEF GetNumber
    <3>2. WordEnd \in Int
      BY WordFacts, <1>1
    <3> QED BY <2>3, <3>1, <3>2, WantsFacts DEF Field, ReadsWord
  <2> QED BY <1>4, <2>1, <2>2, <2>3 DEF GetNumber
<1>5. ASSUME NEW kind \in {"bracketed", "quoted"}, GetDelim(kind)
      PROVE  UNCHANGED <<lines, input, rows>> /\ (Thrown \/ ReadsDelim(kind))
  <2> DEFINE o == SkipSpaces(at)
             d == DelimEnd(kind)
  <2>1. CASE Eof
    BY <1>2, <2>1 DEF Eof
  <2>2. CASE o <= Len(input) /\ Throw(o + 1)
    <3>1. o + 1 \in 1..(Len(input) + 1)
      BY <1>1, <2>2, WordFacts
    <3> QED BY <2>2, <3>1 DEF Throw, Thrown
  <2>3. CASE o <= Len(input) /\ d <= Len(input) /\ Throw(d + 1)
    <3>1. d + 1 \in 1..(Len(input) + 1)
      BY <1>1, <2>3, WordFacts, DelimFacts
    <3> QED BY <2>3, <3>1 DEF Throw, Thrown
  <2>4. CASE /\ o <= Len(input) /\ input[o] = Opening(kind)
             /\ d <= Len(input) /\ input[d] = Closing(kind)
             /\ Field(o + 1, d - 1)
    <3>1. Wants({kind}) /\ {kind} \subseteq {"bracketed", "quoted"}
      BY <1>5 DEF GetDelim
    <3>2. d \in Int
      BY <1>1, <2>4, WordFacts, DelimFacts
    <3>3. Opening(kind) \in {"[", "quote"} /\ Closing(kind) # "nl"
      BY DEF Opening, Closing
    <3>4. at' = d + 1
      BY <2>4, <3>2 DEF Field
    <3>5. pc = "fields" /\ Len(spans) \in {3, 4, 7, 8, 9, 10, 11}
      BY <3>1, WantsFacts
    <3> QED BY <2>4, <3>3, <3>4, <3>5 DEF Field, ReadsDelim
  <2> QED BY <1>5, <2>1, <2>2, <2>3, <2>4 DEF GetDelim
<1> QED BY <1>3, <1>4, <1>5

-----------------------------------------------------------------------------
(* Types *)

\* The spans of one row after one more field
LEMMA FieldTypes ==
  ASSUME ParserTypes, UNCHANGED <<lines, input, rows>>, pc' = "fields",
         Len(spans) < 12, NEW x, x \in Span, spans' = Append(spans, x),
         at' \in 1..(Len(input) + 1)
  PROVE  ParserTypes'
<1>1. spans \in Seq(Span) /\ Len(spans) \in Nat
  BY LenProperties DEF ParserTypes, TypeOK, Span
<1>2. spans' \in Seq(Span) /\ Len(spans') = Len(spans) + 1
  BY <1>1, AppendProperties
<1>3. Len(spans') <= Len(Format)
  BY <1>1, <1>2, FormatFacts
<1>4. Span' = Span
  BY DEF Span
<1> QED BY <1>2, <1>3, <1>4 DEF ParserTypes, TypeOK, Span, Layout, LineAt, Start, Stop

LEMMA ThrownTypes ==
  ASSUME ParserTypes, UNCHANGED <<lines, input, rows>>, Thrown
  PROVE  ParserTypes'
<1>1. <<>> \in Seq(Span) /\ Len(<<>>) = 0
  OBVIOUS
<1>2. spans' \in Seq(Span) /\ Len(spans') <= Len(Format)
  BY <1>1, FormatFacts DEF Thrown
<1> QED BY <1>2 DEF Thrown, ParserTypes, TypeOK, Span, Layout, LineAt, Start, Stop

LEMMA ReadsWordTypes ==
  ASSUME ParserTypes, UNCHANGED <<lines, input, rows>>, ReadsWord
  PROVE  ParserTypes'
<1> DEFINE o == SkipSpaces(at)
           e == WordEnd
           n == Len(input)
<1>1. /\ n \in Nat /\ at \in 1..(n + 1) /\ o \in at..(n + 1)
      /\ e \in o..(n + 1) /\ e <= n /\ o < e
  BY WordFacts DEF ParserTypes, TypeOK, Layout, ReadsWord
<1> HIDE DEF o, e, n
<1>2. o \in 1..n /\ e - 1 \in 0..n /\ e + 1 \in 1..(n + 1)
  BY <1>1
<1>3. <<o, e - 1>> \in Span
  BY <1>2 DEF Span, n
<1>4. spans' = Append(spans, <<o, e - 1>>) /\ at' = e + 1 /\ pc' = "fields"
  BY DEF ReadsWord, o, e
<1>6. Len(spans) < 12
  <2> DEFINE k == Len(spans)
  <2>1. k \in {0, 1, 2, 5, 6}
    BY DEF ReadsWord
  <2> HIDE DEF k
  <2>2. k < 12
    BY <2>1
  <2> QED BY <2>2 DEF k
<1>5. at' \in 1..(Len(input) + 1)
  <2>1. at' \in 1..(n + 1)
    BY <1>2, <1>4
  <2> QED BY <2>1 DEF n
<1> HIDE DEF Span
<1> QED BY <1>3, <1>4, <1>5, <1>6, FieldTypes

LEMMA ReadsDelimTypes ==
  ASSUME ParserTypes, UNCHANGED <<lines, input, rows>>,
         NEW kind, ReadsDelim(kind)
  PROVE  ParserTypes'
<1> DEFINE o == SkipSpaces(at)
           d == DelimEnd(kind)
           n == Len(input)
<1>1. /\ n \in Nat /\ at \in 1..(n + 1) /\ o \in at..(n + 1)
      /\ d \in (o + 1)..(n + 1) /\ d <= n
  BY WordFacts, DelimFacts DEF ParserTypes, TypeOK, Layout, ReadsDelim
<1> HIDE DEF o, d, n
<1>2. o + 1 \in 1..n /\ d - 1 \in 0..n /\ d + 1 \in 1..(n + 1)
  BY <1>1
<1>3. <<o + 1, d - 1>> \in Span
  BY <1>2 DEF Span, n
<1>4. spans' = Append(spans, <<o + 1, d - 1>>) /\ at' = d + 1 /\ pc' = "fields"
  BY DEF ReadsDelim, o, d
<1>6. Len(spans) < 12
  <2> DEFINE k == Len(spans)
  <2>1. k \in {3, 4, 7, 8, 9, 10, 11}
    BY DEF ReadsDelim
  <2> HIDE DEF k
  <2>2. k < 12
    BY <2>1
  <2> QED BY <2>2 DEF k
<1>5. at' \in 1..(Len(input) + 1)
  <2>1. at' \in 1..(n + 1)
    BY <1>2, <1>4
  <2> QED BY <2>1 DEF n
<1> HIDE DEF Span
<1> QED BY <1>3, <1>4, <1>5, <1>6, FieldTypes

\* The rows with one more
LEMMA RowsAppended ==
  ASSUME ParserTypes, AddValue
  PROVE  \A n \in DOMAIN rows' : \/ n \in DOMAIN rows /\ rows'[n] = rows[n]
                                 \/ rows'[n] = spans
BY DEF AddValue

LEMMA SkipFacts ==
  ASSUME ParserTypes, SkipToEol
  PROVE  /\ UNCHANGED <<lines, input, rows>>
         /\ at' \in 1..(Len(input) + 1)
         /\ spans' \in {spans, <<>>}
         /\ pc = "skip" /\ pc' \in {"fields", "eof"}
<1>1. at \in 1..(Len(input) + 1) /\ Layout /\ Len(input) \in Nat
  BY DEF ParserTypes, TypeOK, Layout
<1>2. Eol(at) \in at..(Len(input) + 1)
  BY <1>1, NextOfFacts DEF Eol
<1>3. CASE Eol(at) > Len(input)
  BY <1>1, <1>3 DEF SkipToEol, Eof
<1>4. CASE ~ Eol(at) > Len(input)
  <2>1. Eol(at) + 1 \in 1..(Len(input) + 1)
    BY <1>1, <1>2, <1>4
  <2> QED BY <1>4, <2>1 DEF SkipToEol
<1> QED BY <1>3, <1>4

LEMMA TypesInit == Init => ParserTypes
<1> SUFFICES ASSUME Init PROVE ParserTypes
  OBVIOUS
<1>1. Layout
  BY LaidOut
<1>2. <<>> \in Seq(Span) /\ Len(<<>>) = 0 /\ DOMAIN <<>> = {}
  OBVIOUS
<1>3. Len(input) \in Nat /\ 1 \in 1..(Len(input) + 1)
  BY <1>1 DEF Layout
<1> QED BY <1>1, <1>2, <1>3, FormatFacts DEF Init, ParserTypes, TypeOK, Span, Layout

LEMMA TypesStep == ParserTypes /\ [Next]_vars => ParserTypes'
<1> SUFFICES ASSUME ParserTypes, [Next]_vars PROVE ParserTypes'
  OBVIOUS
<1>1. CASE GetWord \/ GetNumber \/ \E kind \in {"bracketed", "quoted"} : GetDelim(kind)
  BY <1>1, ReadSteps, ThrownTypes, ReadsWordTypes, ReadsDelimTypes
<1>2. CASE LookupFails
  <2>1. Thrown /\ UNCHANGED <<lines, input, rows>>
    BY <1>2 DEF LookupFails, Throw, Thrown, ParserTypes, TypeOK
  <2> QED BY <2>1, ThrownTypes
<1>3. CASE AddValue
  <2>1. spans \in Seq(Span) /\ Len(spans) = Len(Format)
    BY <1>3 DEF AddValue, ParserTypes, TypeOK, Span
  <2>2. \A n \in DOMAIN rows : rows[n] \in Seq(Span) /\ Len(rows[n]) = Len(Format)
    BY DEF ParserTypes, TypeOK, Span
  <2>3. \A n \in DOMAIN rows' : rows'[n] \in Seq(Span) /\ Len(rows'[n]) = Len(Format)
    BY <1>3, <2>1, <2>2, RowsAppended
  <2>4. spans' \in Seq(Span) /\ Len(spans') <= Len(Format)
    <3>1. <<>> \in Seq(Span) /\ Len(<<>>) = 0
      OBVIOUS
    <3> QED BY <1>3, <3>1, FormatFacts DEF AddValue
  <2>5. UNCHANGED <<lines, input, at>> /\ pc' = "skip"
    BY <1>3 DEF AddValue
  <2> QED BY <2>3, <2>4, <2>5 DEF ParserTypes, TypeOK, Span, Layout, LineAt, Start, Stop
<1>4. CASE SkipToEol
  <2>1. spans' \in Seq(Span) /\ Len(spans') <= Len(Format)
    <3>1. <<>> \in Seq(Span) /\ Len(<<>>) = 0
      OBVIOUS
    <3>2. spans \in Seq(Span) /\ Len(spans) <= Len(Format)
      BY DEF ParserTypes, TypeOK, Span
    <3>3. spans' = spans \/ spans' = <<>>
      BY <1>4, SkipFacts
    <3>4. Len(<<>>) <= Len(Format)
      BY <3>1, FormatFacts
    <3> HIDE DEF Span
    <3>5. CASE spans' = spans
      BY <3>2, <3>5
    <3>6. CASE spans' = <<>>
      BY <3>1, <3>4, <3>6
    <3> QED BY <3>3, <3>5, <3>6
  <2>2. UNCHANGED <<lines, input, rows>> /\ at' \in 1..(Len(input) + 1)
        /\ pc' \in {"fields", "eof"}
    BY <1>4, SkipFacts
  <2>3. Layout'
    BY <2>2 DEF ParserTypes, Layout, LineAt, Start, Stop
  <2> QED BY <2>1, <2>2, <2>3 DEF ParserTypes, TypeOK, Span
<1>5. CASE UNCHANGED vars
  BY <1>5 DEF vars, ParserTypes, TypeOK, Span, Layout, LineAt, Start, Stop
<1> QED BY <1>1, <1>2, <1>3, <1>4, <1>5 DEF Next

LEMMA AlwaysTyped == Spec => []ParserTypes
BY TypesInit, TypesStep, PTL DEF Spec

(* The parser never reads past the end of the input, whatever is in it, and  *)
(* no row has another number of fields than the loop asks for                *)
(* (access2sql.cc:74-134, 174-241).                                          *)
THEOREM TypeCorrect == Spec => []TypeOK
<1>1. ParserTypes => TypeOK
  BY DEF ParserTypes
<1> QED BY <1>1, AlwaysTyped, PTL

-----------------------------------------------------------------------------
(* Lines in the input *)

\* What is free of newlines and begins on a line stays on that line.
LEMMA SameLine ==
  ASSUME ParserTypes, NEW i \in DOMAIN lines, NEW a \in Start(i)..Stop(i),
         NEW b \in Nat, b <= Len(input), \A r \in a..b : input[r] # "nl"
  PROVE  b <= Stop(i)
<1> DEFINE s == Stop(i)
           n == Len(input)
           m == s + 1
<1>1. /\ Start(i) \in Nat /\ s \in Nat /\ n \in Nat
      /\ s + 1 <= n => input[m] = "nl"
  BY DEF ParserTypes, Layout, LineAt
<1>2. a \in Nat /\ a <= s
  BY <1>1
<1> HIDE DEF s, n
<1>3. SUFFICES ASSUME ~ b <= s PROVE FALSE
  BY DEF s
<1>4. m \in a..b /\ s + 1 <= n
  BY <1>1, <1>2, <1>3 DEF n
<1> HIDE DEF m
<1> QED BY <1>1, <1>4

\* A character that is on a line is not a newline.
LEMMA OnLine ==
  ASSUME ParserTypes, NEW i \in DOMAIN lines, NEW p \in Start(i)..Stop(i)
  PROVE  input[p] # "nl"
<1> DEFINE q == p - Start(i) + 1
<1>1. q \in DOMAIN lines[i] /\ input[p] = lines[i][q]
  BY DEF ParserTypes, Layout, LineAt
<1>2. lines[i] \in Seq(Tokens \ {"nl"})
  <2>1. lines \in Seq(Lines)
    BY DEF ParserTypes, Layout
  <2>2. lines[i] \in Lines
    BY <2>1, SeqDef
  <2> QED BY <2>2, LinesAssumption
<1> HIDE DEF q
<1>3. lines[i][q] \in Tokens \ {"nl"}
  BY <1>1, <1>2, SeqDef
<1> QED BY <1>1, <1>3

LEMMA LineOf ==
  ASSUME ParserTypes, NEW p \in 1..Len(input), input[p] # "nl"
  PROVE  \E i \in DOMAIN lines : p \in Start(i)..Stop(i)
BY DEF ParserTypes, Layout

\* The spans after one more field
LEMMA AppendFacts ==
  ASSUME ParserTypes, NEW x, spans' = Append(spans, x)
  PROVE  /\ Len(spans) \in Nat /\ Len(spans') = Len(spans) + 1
         /\ \A f \in 1..Len(spans) : spans'[f] = spans[f]
         /\ spans'[Len(spans) + 1] = x
<1> DEFINE S == Span \cup {x}
<1>1. spans \in Seq(Span)
  BY DEF ParserTypes, TypeOK, Span
<1>2. spans \in Seq(S) /\ x \in S
  <2> HIDE DEF Span
  <2>1. Seq(Span) \subseteq Seq(S)
    BY SeqMonotonic
  <2> QED BY <1>1, <2>1
<1> HIDE DEF S
<1> QED BY <1>2, AppendProperties, LenProperties

\* A step leaves the lines where they are.
LEMMA LinesKept ==
  ASSUME lines' = lines
  PROVE  \A i : Start(i)' = Start(i) /\ Stop(i)' = Stop(i)
BY DEF Start, Stop

\* A field on the line that the parser is on keeps InLine.
LEMMA StaysInLine ==
  ASSUME ParserTypes, UNCHANGED <<lines, input, rows>>,
         NEW i \in DOMAIN lines, InLine(i), Len(spans) >= 1,
         NEW x, spans' = Append(spans, x), Within(x, i),
         at' - 1 \in Start(i)..Stop(i)
  PROVE  InLine(i)'
<1> DEFINE k == Len(spans)
<1>1. /\ k \in Nat /\ k >= 1 /\ Len(spans') = k + 1
      /\ \A f \in 1..k : spans'[f] = spans[f]
      /\ spans'[k + 1] = x
  BY AppendFacts
<1>2. spans[1][2] \in Start(i)..Stop(i) /\ \A f \in 2..k : Within(spans[f], i)
  BY DEF InLine
<1> HIDE DEF k
<1>3. spans'[1][2] \in Start(i)..Stop(i)
  BY <1>1, <1>2
<1>4. ASSUME NEW f \in 2..(k + 1) PROVE Within(spans'[f], i)
  <2>1. CASE f = k + 1
    BY <1>1, <2>1
  <2>2. CASE f \in 2..k
    <3>1. f \in 1..k
      BY <1>1, <2>2
    <3> QED BY <1>1, <1>2, <2>2, <3>1
  <2> QED BY <1>1, <2>1, <2>2
<1>5. \A f \in 2..Len(spans') : Within(spans'[f], i)
  BY <1>1, <1>4
<1>6. Start(i)' = Start(i) /\ Stop(i)' = Stop(i)
  BY LinesKept
<1> QED BY <1>3, <1>5, <1>6 DEF InLine, Within

-----------------------------------------------------------------------------
(* Words that run over the end of a line *)

\* Which words of the line that a word ends on have begun by then
LEMMA BegunAfterWord ==
  ASSUME ParserTypes, UNCHANGED <<lines, input, rows>>, ReadsWord,
         NEW i \in DOMAIN lines, WordEnd \in Start(i)..Stop(i)
  PROVE  /\ Start(i) <= at - 1 => Begun(i)' \subseteq Begun(i) \cup {SkipSpaces(at)}
         /\ SkipSpaces(at) < Start(i) => Begun(i)' \subseteq {Start(i)}
         /\ SkipSpaces(at) < Start(i) /\ WordEnd = Start(i) => Begun(i)' = {}
<1> DEFINE o == SkipSpaces(at)
           e == WordEnd
           s == Start(i)
           B == {p \in s..e : input[p] # "sp" /\ (p = s \/ input[p - 1] = "sp")}
<1>1. /\ at \in Nat \ {0} /\ s \in Nat /\ o \in Int /\ e \in Int
      /\ at <= o /\ o < e /\ s <= e
      /\ \A r \in at..(o - 1) : input[r] = "sp"
      /\ \A r \in o..(e - 1) : input[r] # "sp"
      /\ input[e] = "sp"
  <2>1. at \in 1..(Len(input) + 1) /\ Len(input) \in Nat /\ s \in Nat /\ Stop(i) \in Nat
    BY DEF ParserTypes, TypeOK, Layout, LineAt
  <2> QED BY <2>1, WordFacts DEF ReadsWord
<1>2. Begun(i)' = B
  <2>1. at' - 1 = e
    <3>1. at' = e + 1
      BY DEF ReadsWord
    <3> QED BY <1>1, <3>1
  <2>2. Start(i)' = s
    BY LinesKept
  <2> QED BY <2>1, <2>2 DEF Begun
<1>3. Begun(i) = {p \in s..(at - 1) : input[p] # "sp" /\ (p = s \/ input[p - 1] = "sp")}
  BY DEF Begun
<1> HIDE DEF o, e, s
<1>4. ASSUME s <= at - 1, NEW p \in B PROVE p \in Begun(i) \/ p = o
  <2> DEFINE q == p - 1
  <2>1. /\ p \in s..e /\ input[p] # "sp" /\ (p = s \/ input[q] = "sp")
    OBVIOUS
  <2>2. CASE p <= at - 1
    BY <1>1, <1>3, <2>1, <2>2
  <2>3. CASE p \in at..(o - 1)
    BY <1>1, <2>1, <2>3
  <2>4. CASE p \in (o + 1)..(e - 1)
    <3>1. q \in o..(e - 1) /\ p # s
      BY <1>1, <1>4, <2>4
    <3> HIDE DEF q
    <3> QED BY <1>1, <2>1, <3>1
  <2>5. CASE p = e
    BY <1>1, <2>1, <2>5
  <2> HIDE DEF q, B
  <2> QED BY <1>1, <1>4, <2>1, <2>2, <2>3, <2>4, <2>5
<1>5. ASSUME o < s, NEW p \in B PROVE p = s /\ p # e
  <2> DEFINE q == p - 1
  <2>1. /\ p \in s..e /\ input[p] # "sp" /\ (p = s \/ input[q] = "sp")
    OBVIOUS
  <2>2. p # e
    BY <1>1, <2>1
  <2>3. CASE p # s
    <3>1. q \in o..(e - 1)
      BY <1>1, <1>5, <2>1, <2>2, <2>3
    <3> HIDE DEF q
    <3> QED BY <1>1, <2>1, <2>3, <3>1
  <2> QED BY <2>2, <2>3
<1> HIDE DEF B
<1>6. s <= at - 1 => Begun(i)' \subseteq Begun(i) \cup {o}
  BY <1>2, <1>4
<1>7. o < s => Begun(i)' \subseteq {s}
  BY <1>2, <1>5
<1>8. o < s /\ e = s => Begun(i)' = {}
  BY <1>2, <1>5
<1> QED BY <1>6, <1>7, <1>8 DEF o, e, s

\* Broken, as the state after a word has it
LEMMA BrokenAfterWord ==
  ASSUME ParserTypes, UNCHANGED <<lines, input, rows>>, ReadsWord,
         NEW i \in DOMAIN lines, WordEnd \in Start(i)..Stop(i),
         NEW k \in Nat, k = Len(spans') 
  PROVE  /\ k = 1 /\ Begun(i)' = {} => Broken(i)'
         /\ \A x \in Start(i)..WordEnd :
               k \in {2, 6} /\ Begun(i)' \subseteq {x} => Broken(i)'
         /\ \A x, y \in Start(i)..WordEnd :
               k \in {3, 7} /\ Begun(i)' \subseteq {x, y} => Broken(i)'
<1>1. at' - 1 = WordEnd /\ input'[at' - 1] = "sp"
  <2>1. at' = WordEnd + 1 /\ WordEnd <= Len(input) /\ input' = input
    BY DEF ReadsWord
  <2>2. WordEnd \in Int
    BY DEF ParserTypes, Layout, LineAt
  <2>3. at' - 1 = WordEnd
    BY <2>1, <2>2
  <2> QED BY <2>1, <2>3, WordFacts
<1>2. Start(i)' = Start(i) /\ Stop(i)' = Stop(i)
  BY LinesKept
<1> DEFINE b == Begun(i)'
<1>3. Broken(i)' <=> \/ k = 1 /\ b = {}
                     \/ k \in {2, 6} /\ \E x \in Start(i)..WordEnd : b \subseteq {x}
                     \/ k \in {3, 7} /\ \E x, y \in Start(i)..WordEnd : b \subseteq {x, y}
  BY <1>1, <1>2 DEF Broken
<1> HIDE DEF b
<1>4. /\ k = 1 /\ b = {} => Broken(i)'
      /\ \A x \in Start(i)..WordEnd : k \in {2, 6} /\ b \subseteq {x} => Broken(i)'
      /\ \A x, y \in Start(i)..WordEnd : k \in {3, 7} /\ b \subseteq {x, y} => Broken(i)'
  BY <1>3
<1> QED BY <1>4 DEF b

\* A word keeps the fields on one line, or breaks the line that it ends on.
LEMMA ReadsWordRows ==
  ASSUME ParserTypes, RowsInv, UNCHANGED <<lines, input, rows>>, ReadsWord
  PROVE  \E i \in DOMAIN lines : InLine(i)' \/ Broken(i)'
<1> DEFINE o == SkipSpaces(at)
           e == WordEnd
           k == Len(spans)
           x == <<o, e - 1>>
           n == Len(input)
<1>1. /\ at \in Nat \ {0} /\ o \in Nat /\ e \in Nat /\ n \in Nat
      /\ at <= o /\ o < e /\ e <= n /\ e \in 1..n
      /\ \A r \in at..(o - 1) : input[r] = "sp"
      /\ \A r \in o..(e - 1) : input[r] # "sp"
      /\ input[e] = "sp"
  <2>1. at \in 1..(Len(input) + 1) /\ Len(input) \in Nat
    BY DEF ParserTypes, TypeOK, Layout
  <2> QED BY <2>1, WordFacts DEF ReadsWord
<1>2. PICK i \in DOMAIN lines : e \in Start(i)..Stop(i)
  <2>1. input[e] # "nl"
    BY <1>1
  <2> QED BY <1>1, <2>1, LineOf
<1> DEFINE s == Start(i)
           t == Stop(i)
<1>3. s \in Nat \ {0} /\ t \in Nat /\ s <= e /\ e <= t
  <2>1. s \in Nat \ {0} /\ t \in Nat
    BY DEF ParserTypes, Layout, LineAt
  <2> QED BY <1>2, <2>1
<1>4. spans' = Append(spans, x) /\ at' = e + 1
  BY DEF ReadsWord
<1>5. /\ k \in Nat /\ Len(spans') = k + 1
      /\ \A f \in 1..k : spans'[f] = spans[f]
      /\ spans'[k + 1] = x
  BY <1>4, AppendFacts
<1>6. x[1] = o /\ x[2] = e - 1
  OBVIOUS
<1>7. at' - 1 = e
  <2> HIDE DEF e
  <2> QED BY <1>1, <1>4
<1>8. k \in {0, 1, 2, 5, 6}
  BY DEF ReadsWord
<1>9. RowsInv
  OBVIOUS
\* The first word, all of it or its end on line i
<1>10. ASSUME k = 0, e - 1 >= s PROVE InLine(i)'
  <2>1. spans'[1][2] \in s..t
    <3>1. e - 1 \in s..t
      <4> HIDE DEF s, t, e
      <4> QED BY <1>1, <1>3, <1>10
    <3>2. spans'[1] = x
      BY <1>5, <1>10
    <3> QED BY <1>6, <3>1, <3>2
  <2>2. Len(spans') = 1
    <3> HIDE DEF k
    <3> QED BY <1>5, <1>10
  <2>3. \A f \in 2..Len(spans') : FALSE
    BY <2>2
  <2>4. Start(i)' = s /\ Stop(i)' = t
    BY LinesKept
  <2> QED BY <1>2, <1>7, <2>1, <2>3, <2>4 DEF InLine
<1>11. CASE o < s
  <2>1. CASE k = 0
    <3>1. CASE e = s
      <4>1. Begun(i)' = {}
        BY <1>2, <1>11, <3>1, BegunAfterWord
      <4>2. Len(spans') = 1
        <5> HIDE DEF k
        <5> QED BY <1>5, <2>1
      <4>3. Broken(i)'
        BY <1>2, <4>1, <4>2, BrokenAfterWord
      <4> QED BY <4>3
    <3>2. CASE e # s
      <4>1. e - 1 >= s
        <5> HIDE DEF e, s
        <5> QED BY <1>1, <1>3, <3>2
      <4> QED BY <1>10, <2>1, <4>1
    <3> QED BY <3>1, <3>2
  <2>2. CASE k # 0
    <3>1. Begun(i)' \subseteq {s}
      BY <1>2, <1>11, BegunAfterWord
    <3>2. s \in Start(i)..WordEnd /\ Begun(i)' \subseteq {s, s}
      <4>1. s \in s..e
        <5> HIDE DEF s, e
        <5> QED BY <1>1, <1>3
      <4> QED BY <3>1, <4>1
    <3>3. Len(spans') \in {2, 6} \/ Len(spans') \in {3, 7}
      <4> HIDE DEF k
      <4> QED BY <1>5, <1>8, <2>2
    <3>4. Len(spans') \in Nat
      BY <3>3
    <3>5. Broken(i)'
      BY <1>2, <3>1, <3>2, <3>3, <3>4, BrokenAfterWord
    <3> QED BY <3>5
  <2> QED BY <2>1, <2>2
<1>12. CASE ~ o < s
  <2>1. CASE k = 0
    <3>1. e - 1 >= s
      <4> HIDE DEF o, e, s
      <4> QED BY <1>1, <1>3, <1>12
    <3> QED BY <1>10, <2>1, <3>1
  <2>2. CASE k # 0
    <3>1. k > 0
      <4> HIDE DEF k
      <4> QED BY <1>5, <2>2
    <3>2. PICK j \in DOMAIN lines : InLine(j) \/ Broken(j)
      BY <1>9, <3>1 DEF RowsInv
    <3> DEFINE u == Start(j)
               v == Stop(j)
    <3>3. at - 1 \in u..v
      BY <3>2 DEF InLine, Broken
    <3>4. u \in Nat /\ v \in Nat
      BY DEF ParserTypes, Layout, LineAt
    <3>5. ASSUME NEW r \in (at - 1)..e PROVE input[r] # "nl"
      <4>1. CASE r = at - 1
        BY <3>3, <4>1, OnLine
      <4>2. CASE r \in at..(o - 1)
        BY <1>1, <4>2
      <4>3. CASE r \in o..e
        <5>1. r \in s..t
          <6> HIDE DEF o, e, s, t
          <6> QED BY <1>1, <1>3, <1>12, <4>3
        <5> QED BY <5>1, OnLine
      <4>4. r = at - 1 \/ r \in at..(o - 1) \/ r \in o..e
        <5> HIDE DEF o, e
        <5> QED BY <1>1, <3>5
      <4> QED BY <4>1, <4>2, <4>3, <4>4
    <3>6. e <= v
      BY <1>1, <3>3, <3>5, SameLine
    <3>7. e \in u..v /\ u <= at - 1 /\ o \in u..e /\ e - 1 <= v /\ o >= u
      <4> HIDE DEF o, e, u, v
      <4> QED BY <1>1, <3>3, <3>4, <3>6
    <3>8. CASE InLine(j)
      <4>1. Within(x, j)
        BY <1>6, <3>7 DEF Within
      <4>2. k >= 1
        <5> HIDE DEF k
        <5> QED BY <1>5, <3>1
      <4>3. at' - 1 \in Start(j)..Stop(j)
        BY <1>7, <3>7
      <4> HIDE DEF x
      <4>4. InLine(j)'
        BY <1>4, <3>8, <4>1, <4>2, <4>3, StaysInLine
      <4> QED BY <4>4
    <3>9. CASE Broken(j)
      <4>1. Begun(j)' \subseteq Begun(j) \cup {o}
        BY <3>7, BegunAfterWord
      <4>2. ASSUME NEW z \in u..(at - 1) PROVE z \in u..e
        <5> HIDE DEF o, e, u
        <5> QED BY <1>1, <3>4, <4>2
      <4>3. \/ k = 1 /\ Begun(j) = {}
            \/ k \in {2, 6} /\ \E y \in u..(at - 1) : Begun(j) \subseteq {y}
        <5>1. ~ k \in {3, 7}
          <6> HIDE DEF k
          <6> QED BY <1>8
        <5> QED BY <3>9, <5>1 DEF Broken
      <4>4. CASE k = 1 /\ Begun(j) = {}
        <5>1. Len(spans') = 2 /\ Begun(j)' \subseteq {o}
          <6> HIDE DEF k, o
          <6> QED BY <1>5, <4>1, <4>4
        <5>2. Broken(j)'
          BY <3>7, <5>1, BrokenAfterWord
        <5> QED BY <5>2
      <4>5. CASE k \in {2, 6} /\ \E y \in u..(at - 1) : Begun(j) \subseteq {y}
        <5>1. PICK y \in u..(at - 1) : Begun(j) \subseteq {y}
          BY <4>5
        <5>2. Len(spans') \in {3, 7} /\ Begun(j)' \subseteq {y, o}
          <6> HIDE DEF k, o
          <6> QED BY <1>5, <4>1, <4>5, <5>1
        <5>3. y \in u..e
          BY <4>2
        <5>4. Len(spans') \in Nat
          BY <5>2
        <5>5. Broken(j)'
          BY <3>7, <5>2, <5>3, <5>4, BrokenAfterWord
        <5> QED BY <5>5
      <4> QED BY <4>3, <4>4, <4>5
    <3> QED BY <3>2, <3>8, <3>9
  <2> QED BY <2>1, <2>2
<1> QED BY <1>11, <1>12

\* What opens a field in quotes or brackets cannot be the first that the
\* parser reads behind two words of a line.
LEMMA NoDelimWhenBroken ==
  ASSUME ParserTypes, NEW kind, ReadsDelim(kind),
         NEW i \in DOMAIN lines, Broken(i), ThreeWords(lines[i]),
         SkipSpaces(at) \in Start(i)..Stop(i)
  PROVE  FALSE
<1> DEFINE o == SkipSpaces(at)
           k == Len(spans)
           s == Start(i)
           l == lines[i]
           p == o - s + 1
           P == {q \in 1..p : BeginsWord(l, q)}
<1>1. /\ at \in Nat \ {0} /\ o \in Nat /\ s \in Nat \ {0} /\ at <= o
      /\ s <= at - 1 /\ input[at - 1] = "sp"
      /\ \A r \in at..(o - 1) : input[r] = "sp"
      /\ input[o] \in {"[", "quote"}
  <2>1. /\ at \in 1..(Len(input) + 1) /\ Len(input) \in Nat
        /\ s \in Nat \ {0} /\ Stop(i) \in Nat
    BY DEF ParserTypes, TypeOK, Layout, LineAt
  <2>2. at - 1 \in s..Stop(i) /\ input[at - 1] = "sp"
    BY DEF Broken
  <2> QED BY <2>1, <2>2, WordFacts DEF ReadsDelim
<1>2. /\ \A r \in s..o : r - s + 1 \in DOMAIN l /\ input[r] = l[r - s + 1]
  <2>1. s \in Nat /\ Stop(i) \in Nat /\ o <= Stop(i)
    BY <1>1 DEF ParserTypes, Layout, LineAt
  <2>2. \A r \in s..Stop(i) : r - s + 1 \in DOMAIN l /\ input[r] = l[r - s + 1]
    BY DEF ParserTypes, Layout, LineAt
  <2> HIDE DEF s, o, l
  <2> QED BY <1>1, <2>1, <2>2
<1>3. PICK x, y \in s..(at - 1) : Begun(i) \subseteq {x, y}
  <2>1. k \in {3, 4, 7, 8, 9, 10, 11}
    BY DEF ReadsDelim
  <2>2. k # 1 /\ ~ k \in {2, 6}
    <3> HIDE DEF k
    <3> QED BY <2>1
  <2> QED BY <2>2 DEF Broken
<1>4. Begun(i) = {q \in s..(at - 1) : input[q] # "sp" /\ (q = s \/ input[q - 1] = "sp")}
  BY DEF Begun
<1> HIDE DEF o, k, s, l
<1>5. p \in Nat /\ p > 1 /\ p \in DOMAIN l /\ l[p] \in {"[", "quote"}
  <2>1. o \in s..o
    BY <1>1
  <2>2. p \in DOMAIN l /\ input[o] = l[p]
    BY <1>2, <2>1
  <2>3. p \in Nat /\ p > 1
    BY <1>1
  <2> QED BY <1>1, <2>2, <2>3
<1>6. BeginsWord(l, p)
  <2> DEFINE r == o - 1
             m == p - 1
  <2>1. r \in s..o /\ r - s + 1 = m
    BY <1>1
  <2>2. input[r] = l[m]
    BY <1>2, <2>1
  <2>3. r = at - 1 \/ r \in at..(o - 1)
    BY <1>1
  <2>4. input[r] = "sp"
    <3> HIDE DEF r
    <3> QED BY <1>1, <2>3
  <2>5. l[p - 1] = "sp"
    BY <2>2, <2>4
  <2> QED BY <1>5, <2>5 DEF BeginsWord
<1> DEFINE v == x - s + 1
           w == y - s + 1
<1>7. v \in 1..p /\ w \in 1..p
  BY <1>1, <1>3
<1>8. PICK q \in 1..p : BeginsWord(l, q) /\ q \notin {v, w, p}
  <2>1. ThreeWords(l)
    BY DEF l
  <2> HIDE DEF p, v, w
  <2>2. ~ (P \subseteq {v, w, p})
    BY <1>5, <1>6, <1>7, <2>1 DEF ThreeWords
  <2> QED BY <2>2
<1> DEFINE r == q + s - 1
           b == r - 1
<1>9. r \in s..o /\ r - s + 1 = q /\ r # o
  BY <1>1, <1>8
<1>10. input[r] # "sp"
  <2>1. input[r] = l[q]
    BY <1>2, <1>9
  <2> QED BY <1>8, <2>1 DEF BeginsWord
<1>11. r = s \/ input[b] = "sp"
  <2>1. CASE q = 1
    BY <1>1, <2>1
  <2>2. CASE q # 1
    <3> DEFINE m == q - 1
    <3>1. b \in s..o /\ b - s + 1 = m
      BY <1>1, <1>9, <2>2
    <3>2. input[b] = l[m]
      BY <1>2, <3>1
    <3>3. l[m] = "sp"
      BY <1>8, <2>2 DEF BeginsWord
    <3> QED BY <3>2, <3>3
  <2> QED BY <2>1, <2>2
<1>12. r \in s..(at - 1)
  <2>1. ~ r \in at..(o - 1)
    <3> HIDE DEF r
    <3> QED BY <1>1, <1>10
  <2>2. r \in Nat
    BY <1>1
  <2> HIDE DEF r
  <2> QED BY <1>1, <1>9, <2>1, <2>2
<1>13. r \in {x, y}
  <2>1. r \in Begun(i)
    <3> HIDE DEF r
    <3> QED BY <1>4, <1>10, <1>11, <1>12 DEF b
  <2> QED BY <1>3, <2>1
<1>14. q \in {v, w}
  BY <1>1, <1>3, <1>13
<1> QED BY <1>8, <1>14

\* A field in quotes or brackets is on the line that the parser is on.
LEMMA ReadsDelimRows ==
  ASSUME ParserTypes, RowsInv, UNCHANGED <<lines, input, rows>>,
         NEW kind, ReadsDelim(kind), \A l \in Lines : ThreeWords(l)
  PROVE  \E i \in DOMAIN lines : InLine(i)'
<1> DEFINE o == SkipSpaces(at)
           d == DelimEnd(kind)
           k == Len(spans)
           x == <<o + 1, d - 1>>
           n == Len(input)
<1>1. /\ at \in Nat \ {0} /\ o \in Nat /\ d \in Nat /\ n \in Nat
      /\ at <= o /\ o < d /\ d <= n
      /\ \A r \in at..(o - 1) : input[r] = "sp"
      /\ input[o] \in {"[", "quote"}
      /\ \A r \in (o + 1)..(d - 1) : input[r] # "nl"
      /\ input[d] # "nl"
  <2>1. at \in 1..(Len(input) + 1) /\ Len(input) \in Nat
    BY DEF ParserTypes, TypeOK, Layout
  <2> QED BY <2>1, WordFacts, DelimFacts DEF ReadsDelim
<1>2. spans' = Append(spans, x) /\ at' - 1 = d
  <2>1. spans' = Append(spans, x) /\ at' = d + 1
    BY DEF ReadsDelim
  <2> HIDE DEF d
  <2> QED BY <1>1, <2>1
<1>3. k >= 1
  <2>1. k \in {3, 4, 7, 8, 9, 10, 11}
    BY DEF ReadsDelim
  <2> HIDE DEF k
  <2> QED BY <2>1
<1>4. PICK i \in DOMAIN lines : InLine(i) \/ Broken(i)
  <2>1. k > 0
    <3>1. k \in Nat
      BY <1>2, AppendFacts
    <3> HIDE DEF k
    <3> QED BY <1>3, <3>1
  <2> QED BY <2>1 DEF RowsInv
<1> DEFINE s == Start(i)
           t == Stop(i)
<1>5. s \in Nat /\ t \in Nat
  BY DEF ParserTypes, Layout, LineAt
<1>6. at - 1 \in s..t
  BY <1>4 DEF InLine, Broken
<1>7. ASSUME NEW r \in (at - 1)..d PROVE input[r] # "nl"
  <2>1. CASE r = at - 1
    BY <1>6, <2>1, OnLine
  <2>2. CASE r \in at..(o - 1)
    BY <1>1, <2>2
  <2>3. CASE r = o
    BY <1>1, <2>3
  <2>4. CASE r \in (o + 1)..(d - 1)
    BY <1>1, <2>4
  <2>5. CASE r = d
    BY <1>1, <2>5
  <2> HIDE DEF o, d
  <2> QED BY <1>1, <1>7, <2>1, <2>2, <2>3, <2>4, <2>5
<1>8. d <= t
  BY <1>1, <1>6, <1>7, SameLine
<1>9. o \in s..t /\ d \in s..t /\ o + 1 >= s /\ d - 1 <= t
  <2> HIDE DEF o, d, s, t
  <2> QED BY <1>1, <1>5, <1>6, <1>8
<1>10. ~ Broken(i)
  <2>1. ThreeWords(lines[i])
    <3>1. lines \in Seq(Lines)
      BY DEF ParserTypes, Layout
    <3>2. lines[i] \in Lines
      BY <3>1, SeqDef
    <3> QED BY <3>2
  <2> QED BY <1>9, <2>1, NoDelimWhenBroken
<1>11. Within(x, i)
  <2>1. x[1] = o + 1 /\ x[2] = d - 1
    OBVIOUS
  <2> QED BY <1>9, <2>1 DEF Within
<1> HIDE DEF x
<1> QED BY <1>2, <1>3, <1>4, <1>9, <1>10, <1>11, StaysInLine

-----------------------------------------------------------------------------
(* The rows *)

LEMMA RowsOf == RowsFromOneLine <=> \A n \in DOMAIN rows : FromOneLine(rows[n])
BY DEF RowsFromOneLine, FromOneLine

LEMMA RowsKept ==
  ASSUME UNCHANGED <<lines, input, rows>>, RowsFromOneLine
  PROVE  RowsFromOneLine'
BY LinesKept DEF RowsFromOneLine, Within

LEMMA RowsInvInit == Init => RowsInv
<1> SUFFICES ASSUME Init PROVE RowsInv
  OBVIOUS
<1>1. rows = <<>> /\ spans = <<>> /\ DOMAIN <<>> = {} /\ Len(<<>>) = 0
  BY DEF Init
<1>2. ~ Len(spans) > 0
  BY <1>1
<1>3. RowsFromOneLine
  BY <1>1 DEF RowsFromOneLine
<1> QED BY <1>1, <1>2, <1>3 DEF RowsInv

LEMMA ForgetsFields ==
  ASSUME RowsInv, UNCHANGED <<lines, input, rows>>, spans' = <<>>
  PROVE  RowsInv'
<1>1. RowsFromOneLine'
  BY RowsKept DEF RowsInv
<1>2. spans' = <<>>
  OBVIOUS
<1>3. ~ Len(spans') > 0
  <2>1. Len(<<>>) = 0
    OBVIOUS
  <2> QED BY <2>1
<1> QED BY <1>1, <1>2, <1>3 DEF RowsInv

LEMMA RowsInvStep ==
  ASSUME \A l \in Lines : ThreeWords(l)
  PROVE  ParserTypes /\ RowsInv /\ [Next]_vars => RowsInv'
<1> SUFFICES ASSUME ParserTypes, RowsInv, [Next]_vars PROVE RowsInv'
  OBVIOUS
<1>1. RowsFromOneLine
  BY DEF RowsInv
<1>2. CASE GetWord \/ GetNumber \/ \E kind \in {"bracketed", "quoted"} : GetDelim(kind)
  <2>1. UNCHANGED <<lines, input, rows>>
    BY <1>2, ReadSteps
  <2>2. CASE Thrown
    BY <2>1, <2>2, ForgetsFields DEF Thrown
  <2>3. CASE ReadsWord \/ \E kind \in {"bracketed", "quoted"} : ReadsDelim(kind)
    <3>1. \E i \in DOMAIN lines : InLine(i)' \/ Broken(i)'
      BY <2>1, <2>3, ReadsWordRows, ReadsDelimRows
    <3>2. RowsFromOneLine'
      BY <1>1, <2>1, RowsKept
    <3>3. pc' = "fields" /\ lines' = lines
      BY <2>1, <2>3 DEF ReadsWord, ReadsDelim
    <3> QED BY <3>1, <3>2, <3>3 DEF RowsInv
  <2> QED BY <1>2, <2>2, <2>3, ReadSteps
<1>3. CASE LookupFails
  BY <1>3, ForgetsFields DEF LookupFails, Throw
<1>4. CASE AddValue
  <2>1. FromOneLine(spans)
    <3> DEFINE k == Len(spans)
    <3>1. k = 12
      BY <1>4, FormatFacts DEF AddValue
    <3>2. k > 0 /\ k # 1 /\ ~ k \in {2, 6} /\ ~ k \in {3, 7}
      <4> HIDE DEF k
      <4> QED BY <3>1
    <3>3. PICK i \in DOMAIN lines : InLine(i)
      BY <3>2 DEF RowsInv, Broken
    <3> QED BY <3>1, <3>3, FormatFacts DEF FromOneLine, InLine
  <2>2. UNCHANGED lines /\ spans' = <<>>
    BY <1>4 DEF AddValue
  <2>3. \A n \in DOMAIN rows' : FromOneLine(rows'[n])
    BY <1>1, <1>4, <2>1, RowsAppended, RowsOf
  <2>4. RowsFromOneLine'
    BY <2>2, <2>3, LinesKept DEF RowsFromOneLine, FromOneLine, Within
  <2>5. ~ Len(spans') > 0
    <3>1. Len(<<>>) = 0
      OBVIOUS
    <3> QED BY <2>2, <3>1
  <2> QED BY <2>2, <2>4, <2>5 DEF RowsInv
<1>5. CASE SkipToEol
  <2>1. UNCHANGED <<lines, input, rows>> /\ spans' = <<>>
    BY <1>5, SkipFacts DEF RowsInv
  <2> QED BY <2>1, ForgetsFields
<1>6. CASE UNCHANGED vars
  <2>1. UNCHANGED <<lines, input, at, spans, rows, pc>>
    BY <1>6 DEF vars
  <2>2. RowsFromOneLine'
    BY <1>1, <2>1, RowsKept
  <2>3. \A i : Start(i)' = Start(i) /\ Stop(i)' = Stop(i)
    BY <2>1, LinesKept
  <2>5. (\E i \in DOMAIN lines : InLine(i) \/ Broken(i))
        => \E i \in DOMAIN lines' : InLine(i)' \/ Broken(i)'
    <3> SUFFICES ASSUME NEW i \in DOMAIN lines, InLine(i) \/ Broken(i)
                 PROVE  \E j \in DOMAIN lines' : InLine(j)' \/ Broken(j)'
      OBVIOUS
    <3>1. InLine(i) => InLine(i)'
      BY <2>1, <2>3 DEF InLine, Within
    <3>2. Begun(i)' = Begun(i)
      BY <2>1, <2>3 DEF Begun
    <3>3. Broken(i) => Broken(i)'
      BY <2>1, <2>3, <3>2 DEF Broken
    <3>4. i \in DOMAIN lines'
      BY <2>1
    <3> QED BY <3>1, <3>3, <3>4
  <2>6. Len(spans') > 0 => Len(spans) > 0
    BY <2>1
  <2>7. pc' = "skip" => spans' = <<>>
    BY <2>1 DEF RowsInv
  <2> QED BY <2>2, <2>5, <2>6, <2>7 DEF RowsInv
<1> QED BY <1>2, <1>3, <1>4, <1>5, <1>6 DEF Next

(* No row mixes lines, and a word that has run over the end of a line, or a  *)
(* line without its fields, never gives the fields of the next line to a     *)
(* row: if no line has a date or a quoted field among its first three words  *)
(* (access2sql.cc:79-119, 174-241).                                          *)
THEOREM RowsOnOneLine ==
  ASSUME \A l \in Lines : ThreeWords(l)
  PROVE  Spec => []RowsFromOneLine
<1>1. Init => RowsInv
  BY RowsInvInit
<1>2. ParserTypes /\ RowsInv /\ [Next]_vars => RowsInv'
  BY RowsInvStep
<1>3. RowsInv => RowsFromOneLine
  BY DEF RowsInv
<1> QED BY <1>1, <1>2, <1>3, AlwaysTyped, PTL DEF Spec

-----------------------------------------------------------------------------
(* Lines that are as the loop expects them *)

GoodInFormat == \A l \in GoodLines : \E b, e : InFormat(l, b, e)

\* Where the fields of a good line begin and end
Marks(l) == CHOOSE m : InFormat(l, m[1], m[2])

Words == {1, 2, 3, 6, 7}

\* Field f of line i in the input, its delimiters included
Left(i, f)  == Start(i) + Marks(lines[i])[1][f] - 1
Right(i, f) == Start(i) + Marks(lines[i])[2][f] - 1

\* Where the parser is when it has read f fields of line i
Behind(i, f) == IF f = 0 THEN Start(i)
                ELSE IF f \in Words THEN Right(i, f) + 2 ELSE Right(i, f) + 1

FieldOf(i, f) == IF f \in Words THEN <<Left(i, f), Right(i, f)>>
                                ELSE <<Left(i, f) + 1, Right(i, f) - 1>>

\* Words of a line before that the parser has counted as fields of this one:
\* <<words read of the line, fields read>>.
Astray == {<<1, 2>>, <<1, 3>>, <<1, 6>>, <<1, 7>>, <<2, 3>>, <<2, 7>>}

\* On a good line, the parser is behind one of its fields, whatever it takes
\* them for, or skips the rest.
Reads(i) ==
  /\ pc = "fields"
  /\ \E f \in 0..12 : /\ at = Behind(i, f)
                      /\ Len(spans) = f \/ <<f, Len(spans)>> \in Astray

OnGoodLine(i) ==
  pc \in {"skip", "eof"} \/ at < Start(i) \/ at > Stop(i) + 1 \/ Reads(i)

NoRow(i) == \A n \in DOMAIN rows : ~ IsRowOf(n, i)

\* A good line behind a good one: not reached, being read, or stored.
Ahead(i) == pc # "eof" /\ at < Start(i) /\ NoRow(i)

Reading(i) ==
  /\ pc = "fields" /\ NoRow(i)
  /\ at = Behind(i, Len(spans))
  /\ \A f \in 1..Len(spans) : spans[f] = FieldOf(i, f)

Done(i) ==
  /\ StoredOnce(i) /\ at >= Start(i)
  /\ pc = "fields" => at > Stop(i) + 1
  /\ Len(spans) > 0 => spans[1][2] > Stop(i)

RecoverInv ==
  /\ rows \in Seq(Seq(Span))
  /\ pc = "skip" => spans = <<>>
  /\ Len(spans) > 0 => spans[1][1] < at
  /\ \A i \in DOMAIN lines : Good(i) =>
       /\ OnGoodLine(i)
       /\ i = 1 \/ Good(i - 1) => Ahead(i) \/ Reading(i) \/ Done(i)

-----------------------------------------------------------------------------
(* Where the fields of a good line are *)

LEMMA KindOf ==
  ASSUME NEW f \in 1..12
  PROVE  /\ f \in Words <=> Format[f] \in {"word", "number"}
         /\ f \notin Words <=> Format[f] \in {"bracketed", "quoted"}
BY FormatFacts DEF Words

LEMMA Marked ==
  ASSUME GoodInFormat, NEW i, Good(i)
  PROVE  InFormat(lines[i], Marks(lines[i])[1], Marks(lines[i])[2])
<1> DEFINE l == lines[i]
<1>1. PICK b, e : InFormat(l, b, e)
  BY DEF GoodInFormat, Good
<1> DEFINE m == <<b, e>>
<1>2. m[1] = b /\ m[2] = e
  OBVIOUS
<1>3. InFormat(l, m[1], m[2])
  BY <1>1, <1>2
<1> HIDE DEF m, l
<1>4. \E x : InFormat(l, x[1], x[2])
  BY <1>3
<1>5. InFormat(l, Marks(l)[1], Marks(l)[2])
  BY <1>4 DEF Marks
<1> QED BY <1>5 DEF l

\* The characters of a line
LEMMA TokenAt ==
  ASSUME ParserTypes, NEW i \in DOMAIN lines
  PROVE  /\ lines[i] \in Seq(Tokens \ {"nl"}) /\ Len(lines[i]) \in Nat
         /\ DOMAIN lines[i] = 1..Len(lines[i])
         /\ Start(i) \in Nat \ {0} /\ Stop(i) \in Nat /\ Len(input) \in Nat
         /\ Stop(i) = Start(i) + Len(lines[i]) - 1 /\ Stop(i) <= Len(input)
         /\ Stop(i) + 1 <= Len(input) => input[Stop(i) + 1] = "nl"
         /\ \A p \in 1..Len(lines[i]) : input[Start(i) + p - 1] = lines[i][p]
<1> DEFINE l == lines[i]
           s == Start(i)
           n == Len(lines[i])
<1>1. l \in Seq(Tokens \ {"nl"}) /\ n \in Nat /\ DOMAIN l = 1..n
  <2>1. lines \in Seq(Lines)
    BY DEF ParserTypes, Layout
  <2>2. l \in Lines
    BY <2>1, SeqDef
  <2>3. l \in Seq(Tokens \ {"nl"})
    BY <2>2, LinesAssumption
  <2> HIDE DEF l
  <2> QED BY <2>3, LenProperties DEF l
<1>2. LineAt(i) /\ Len(input) \in Nat
  BY DEF ParserTypes, Layout
<1>3. s \in Nat \ {0} /\ Stop(i) = s + n - 1
  BY <1>2 DEF LineAt, Stop
<1>4. ASSUME NEW p \in 1..n PROVE input[s + p - 1] = l[p]
  <2> DEFINE q == s + p - 1
  <2>1. q \in s..Stop(i) /\ q - s + 1 = p
    <3> HIDE DEF s, n
    <3> QED BY <1>1, <1>3
  <2> HIDE DEF q
  <2>2. input[q] = l[q - s + 1]
    BY <1>2, <2>1 DEF LineAt
  <2> QED BY <2>1, <2>2 DEF q
<1> QED BY <1>1, <1>2, <1>3, <1>4 DEF LineAt

\* A word of the input from a to b, and what is in delimiters there
WordFrom(a, b) ==
  /\ \A r \in a..b : input[r] # "sp"
  /\ input[b + 1] = "sp" /\ input[a] \notin {"[", "quote"}

DelimFrom(kind, a, b) ==
  /\ a < b /\ input[a] = Opening(kind) /\ input[b] = Closing(kind)
  /\ \A r \in (a + 1)..(b - 1) : input[r] \notin {Closing(kind), "nl"}

FieldAt(i, f) ==
  LET a == Left(i, f)  b == Right(i, f)  s == Start(i)  t == Stop(i) IN
  /\ a \in Nat /\ b \in Nat /\ s <= a /\ a <= b /\ b <= t
  /\ f \in Words => b + 1 <= t /\ WordFrom(a, b)
  /\ f \notin Words => DelimFrom(Format[f], a, b)
  /\ f \in {6, 7} => input[a] \in {"number", "address"}

LEMMA FieldPlaced ==
  ASSUME ParserTypes, GoodInFormat, NEW i \in DOMAIN lines, Good(i), NEW f \in 1..12
  PROVE  FieldAt(i, f)
<1> DEFINE l == lines[i]
           s == Start(i)
           n == Len(lines[i])
           first == Marks(lines[i])[1][f]
           last == Marks(lines[i])[2][f]
           a == s + first - 1
           b == s + last - 1
           kind == Format[f]
<1>1. FieldFrom(l, kind, first, last)
  BY Marked, FormatFacts DEF InFormat
<1>2. a = Left(i, f) /\ b = Right(i, f)
  BY DEF Left, Right
<1>3. /\ l \in Seq(Tokens \ {"nl"}) /\ n \in Nat /\ DOMAIN l = 1..n
      /\ s \in Nat \ {0} /\ Stop(i) = s + n - 1
      /\ \A p \in 1..n : input[s + p - 1] = l[p]
  BY TokenAt
<1>4. kind = "number" <=> f \in {6, 7}
  BY FormatFacts
<1>5. f \in Words <=> kind \in {"word", "number"}
  BY KindOf
<1> HIDE DEF l, s, n, first, last, kind
<1>6. /\ first \in 1..n /\ last \in 1..n /\ first <= last
      /\ kind \in {"word", "number"} => last + 1 \in 1..n
  BY <1>1, <1>3 DEF FieldFrom
<1>7. a \in Nat /\ b \in Nat /\ s <= a /\ a <= b /\ b <= Stop(i)
  BY <1>3, <1>6
<1>8. ASSUME NEW r \in a..b
      PROVE  r - s + 1 \in 1..n /\ input[r] = l[r - s + 1] /\ r - s + 1 \in first..last
  <2> DEFINE p == r - s + 1
  <2>1. p \in 1..n /\ p \in first..last /\ s + p - 1 = r
    BY <1>3, <1>6
  <2> HIDE DEF p
  <2>2. input[s + p - 1] = l[p]
    BY <1>3, <2>1
  <2> QED BY <2>1, <2>2 DEF p
<1>9. input[a] = l[first] /\ input[b] = l[last]
  BY <1>3, <1>6
<1>10. ASSUME f \in Words
       PROVE  b + 1 <= Stop(i) /\ WordFrom(a, b) /\ (f \in {6, 7} => input[a] \in {"number", "address"})
  <2>1. /\ l[last + 1] = "sp" /\ l[first] \notin {"[", "quote"}
        /\ \A p \in first..last : l[p] # "sp"
        /\ kind = "number" => l[first] \in {"number", "address"}
    BY <1>1, <1>5, <1>10 DEF FieldFrom
  <2> DEFINE p == last + 1
  <2>2. p \in 1..n /\ b + 1 = s + p - 1 /\ b + 1 <= Stop(i)
    BY <1>3, <1>5, <1>6, <1>10
  <2>3. input[s + p - 1] = l[p]
    <3> HIDE DEF p
    <3> QED BY <1>3, <2>2
  <2>4. input[b + 1] = "sp"
    BY <2>1, <2>2, <2>3
  <2> HIDE DEF a, b
  <2>5. \A r \in a..b : input[r] # "sp"
    BY <1>8, <2>1
  <2> QED BY <1>4, <1>9, <2>1, <2>2, <2>4, <2>5 DEF WordFrom
<1>11. ASSUME f \notin Words PROVE DelimFrom(kind, a, b)
  <2>1. /\ first < last /\ l[first] = Opening(kind) /\ l[last] = Closing(kind)
        /\ \A p \in (first + 1)..(last - 1) : l[p] # Closing(kind)
    BY <1>1, <1>5, <1>11 DEF FieldFrom
  <2>2. a < b
    BY <1>3, <1>6, <2>1
  <2>3. ASSUME NEW r \in (a + 1)..(b - 1) PROVE input[r] \notin {Closing(kind), "nl"}
    <3> DEFINE p == r - s + 1
    <3>1. r \in a..b /\ p \in (first + 1)..(last - 1)
      BY <1>3, <1>6, <1>7
    <3>2. input[r] = l[p] /\ p \in 1..n
      <4> HIDE DEF a, b
      <4> QED BY <1>8, <3>1
    <3> HIDE DEF p
    <3>3. l[p] \in Tokens \ {"nl"}
      BY <1>3, <3>2, ElementOfSeq
    <3> QED BY <2>1, <3>1, <3>2, <3>3
  <2> HIDE DEF a, b
  <2> QED BY <1>9, <2>1, <2>2, <2>3 DEF DelimFrom
<1>12. f \in {6, 7} => f \in Words
  BY DEF Words
<1> HIDE DEF a, b
<1> QED BY <1>2, <1>7, <1>10, <1>11, <1>12 DEF FieldAt, s, kind

\* What a field of a good line begins with is not a space.
LEMMA BeginsTight ==
  ASSUME ParserTypes, NEW i, NEW f \in 1..12, FieldAt(i, f)
  PROVE  input[Left(i, f)] # "sp"
<1> DEFINE a == Left(i, f)
           b == Right(i, f)
<1>1. a \in Nat /\ b \in Nat /\ a <= b
  BY DEF FieldAt
<1>2. CASE f \in Words
  <2>1. \A r \in a..b : input[r] # "sp"
    BY <1>2 DEF FieldAt, WordFrom
  <2> QED BY <1>1, <2>1
<1>3. CASE f \notin Words
  <2>1. input[a] = Opening(Format[f])
    BY <1>3 DEF FieldAt, DelimFrom
  <2> QED BY <2>1 DEF Opening
<1> QED BY <1>2, <1>3

\* The first field is one token.
LEMMA FirstPlaced ==
  ASSUME ParserTypes, GoodInFormat, NEW i \in DOMAIN lines, Good(i)
  PROVE  /\ Left(i, 1) = Start(i) /\ Right(i, 1) = Start(i)
         /\ input[Start(i)] \in {"number", "address"}
         /\ Start(i) \in Nat /\ Start(i) + 1 <= Stop(i) /\ input[Start(i) + 1] = "sp"
<1> DEFINE l == lines[i]
           s == Start(i)
<1>1. /\ Marks(l)[1][1] = 1 /\ Marks(l)[2][1] = 1
      /\ l[1] \in {"number", "address"}
  BY Marked DEF InFormat
<1>2. s \in Nat
  BY TokenAt
<1>3. Left(i, 1) = s /\ Right(i, 1) = s
  BY <1>1, <1>2 DEF Left, Right
<1>4. FieldAt(i, 1)
  BY FieldPlaced
<1>5. s + 1 <= Stop(i) /\ WordFrom(s, s)
  BY <1>3, <1>4 DEF FieldAt, Words
<1>6. input[s] = l[1]
  <2>1. 1 \in 1..Len(l) /\ s + 1 - 1 = s
    BY <1>2, <1>5, TokenAt
  <2>2. \A p \in 1..Len(l) : input[s + p - 1] = l[p]
    BY TokenAt
  <2>3. input[s + 1 - 1] = l[1]
    BY <2>1, <2>2
  <2> QED BY <2>1, <2>3
<1> QED BY <1>1, <1>2, <1>3, <1>5, <1>6 DEF WordFrom

\* The parser behind a field is on the line or at its end.
LEMMA BehindPlaced ==
  ASSUME ParserTypes, GoodInFormat, NEW i \in DOMAIN lines, Good(i), NEW f \in 0..12
  PROVE  /\ Behind(i, f) \in Nat /\ Start(i) <= Behind(i, f)
         /\ Behind(i, f) <= Stop(i) + 1
<1>1. Start(i) \in Nat /\ Stop(i) \in Nat /\ Start(i) + 1 <= Stop(i)
  BY TokenAt, FirstPlaced
<1>2. CASE f = 0
  BY <1>1, <1>2 DEF Behind
<1>3. CASE f # 0
  <2>1. f \in 1..12
    BY <1>3
  <2>2. FieldAt(i, f)
    BY <2>1, FieldPlaced
  <2> DEFINE a == Left(i, f)
             b == Right(i, f)
             s == Start(i)
             t == Stop(i)
  <2>3. /\ a \in Nat /\ b \in Nat /\ s <= a /\ a <= b /\ b <= t
        /\ f \in Words => b + 1 <= t
    BY <2>2 DEF FieldAt
  <2>4. CASE f \in Words
    <3>1. Behind(i, f) = b + 2
      BY <1>3, <2>4 DEF Behind
    <3> HIDE DEF a, b, s, t
    <3>2. b + 2 \in Nat /\ s <= b + 2 /\ b + 2 <= t + 1
      BY <1>1, <2>3, <2>4 DEF s, t
    <3> QED BY <3>1, <3>2 DEF s, t
  <2>5. CASE f \notin Words
    <3>1. Behind(i, f) = b + 1
      BY <1>3, <2>5 DEF Behind
    <3> HIDE DEF a, b, s, t
    <3>2. b + 1 \in Nat /\ s <= b + 1 /\ b + 1 <= t + 1
      BY <1>1, <2>3, <2>5 DEF s, t
    <3> QED BY <3>1, <3>2 DEF s, t
  <2> QED BY <2>4, <2>5
<1> QED BY <1>2, <1>3

\* Only spaces are between the parser and the next field.
LEMMA SpacesBetween ==
  ASSUME ParserTypes, GoodInFormat, NEW i \in DOMAIN lines, Good(i), NEW f \in 1..12
  PROVE  /\ Behind(i, f - 1) <= Left(i, f)
         /\ \A r \in Behind(i, f - 1)..(Left(i, f) - 1) : input[r] = "sp"
<1>1. FieldAt(i, f) /\ input[Left(i, f)] # "sp"
  BY FieldPlaced, BeginsTight
<1>2. CASE f = 1
  <2>1. Behind(i, f - 1) = Start(i) /\ Left(i, f) = Start(i) /\ Start(i) \in Nat
    BY <1>2, FirstPlaced DEF Behind
  <2> QED BY <2>1
<1>3. CASE f # 1
  <2> DEFINE g == f - 1
             l == lines[i]
             s == Start(i)
             a == Left(i, f)
             b == Right(i, g)
             first == Marks(l)[1][f]
             last == Marks(l)[2][g]
             c == Behind(i, g)
  <2>1. g \in 1..12 /\ f \in 2..12 /\ g # 0
    BY <1>3
  <2>2. FieldAt(i, g)
    <3> HIDE DEF g
    <3> QED BY <2>1, FieldPlaced
  <2>3. c = IF g \in Words THEN b + 2 ELSE b + 1
    <3> HIDE DEF g
    <3> QED BY <2>1 DEF Behind
  <2>4. /\ last < first
        /\ \A p \in (last + 1)..(first - 1) : l[p] = "sp"
    BY <2>1, Marked, FormatFacts DEF InFormat
  <2>5. first \in 1..Len(l) /\ last \in 1..Len(l)
    <3>1. FieldFrom(l, Format[f], Marks(l)[1][f], Marks(l)[2][f])
      BY Marked, FormatFacts DEF InFormat
    <3>2. FieldFrom(l, Format[g], Marks(l)[1][g], Marks(l)[2][g])
      <4> HIDE DEF g
      <4> QED BY <2>1, Marked, FormatFacts DEF InFormat
    <3>3. DOMAIN l = 1..Len(l)
      BY TokenAt
    <3> HIDE DEF l, g
    <3> QED BY <3>1, <3>2, <3>3 DEF FieldFrom
  <2>6. a = s + first - 1 /\ b = s + last - 1 /\ s \in Nat /\ Len(l) \in Nat
    BY TokenAt DEF Left, Right
  <2>7. \A p \in 1..Len(l) : input[s + p - 1] = l[p]
    BY TokenAt
  <2>8. g \in Words => input[b + 1] = "sp"
    BY <2>2 DEF FieldAt, WordFrom
  <2>9. input[a] # "sp"
    BY <1>1
  <2> HIDE DEF a, b, s, l, first, last, c, g
  <2>10. b < a /\ a \in Int /\ b \in Int
    BY <2>4, <2>5, <2>6
  <2>11. c <= a
    <3>1. b + 1 # a \/ g \notin Words
      BY <2>8, <2>9
    <3> QED BY <2>3, <2>10, <3>1
  <2>12. ASSUME NEW r \in c..(a - 1) PROVE input[r] = "sp"
    <3> DEFINE p == r - s + 1
    <3>1. p \in (last + 1)..(first - 1) /\ p \in 1..Len(l) /\ s + p - 1 = r
      BY <2>3, <2>5, <2>6
    <3> HIDE DEF p
    <3>2. input[s + p - 1] = l[p]
      BY <2>7, <3>1
    <3> QED BY <2>4, <3>1, <3>2
  <2> QED BY <2>11, <2>12 DEF c, a, g
<1> QED BY <1>2, <1>3

-----------------------------------------------------------------------------
(* Reading a good line *)

LEMMA NextIs ==
  ASSUME Layout, NEW S, NEW p \in 1..(Len(input) + 1), NEW q \in p..Len(input),
         input[q] \in S, \A r \in p..(q - 1) : input[r] \notin S
  PROVE  NextOf(p, S) = q
<1> DEFINE x == NextOf(p, S)
           n == Len(input)
<1>1. /\ x \in p..(n + 1)
      /\ x <= n => input[x] \in S
      /\ \A r \in p..(x - 1) : input[r] \notin S
  BY NextOfFacts
<1>2. n \in Nat /\ p \in 1..(n + 1) /\ q \in p..n
  BY DEF Layout
<1> HIDE DEF x, n
<1>3. ~ x < q
  <2> SUFFICES ASSUME x < q PROVE FALSE
    OBVIOUS
  <2>1. x \in p..(q - 1) /\ x <= n
    BY <1>1, <1>2
  <2> QED BY <1>1, <2>1
<1>4. ~ q < x
  <2> SUFFICES ASSUME q < x PROVE FALSE
    OBVIOUS
  <2>1. q \in p..(x - 1)
    BY <1>1, <1>2
  <2> QED BY <1>1, <2>1
<1>5. x = q
  BY <1>1, <1>2, <1>3, <1>4
<1> QED BY <1>5 DEF x

LEMMA SkipsTo ==
  ASSUME ParserTypes, GoodInFormat, NEW i \in DOMAIN lines, Good(i),
         NEW f \in 1..12, at = Behind(i, f - 1)
  PROVE  /\ SkipSpaces(at) = Left(i, f)
         /\ Left(i, f) \in 1..Len(input)
<1> DEFINE a == Left(i, f)
           n == Len(input)
<1>1. Layout /\ at \in 1..(n + 1) /\ n \in Nat /\ input \in Seq(Tokens)
  BY DEF ParserTypes, TypeOK, Layout
<1>2. FieldAt(i, f) /\ input[a] # "sp"
  BY FieldPlaced, BeginsTight
<1>3. a \in Nat /\ a <= n
  <2>1. a \in Nat /\ Right(i, f) \in Nat /\ a <= Right(i, f) /\ Right(i, f) <= Stop(i)
    BY <1>2 DEF FieldAt
  <2>2. Stop(i) \in Nat /\ Stop(i) <= n
    BY TokenAt
  <2> HIDE DEF a, n
  <2> QED BY <1>1, <2>1, <2>2
<1>4. at <= a /\ \A r \in at..(a - 1) : input[r] = "sp"
  BY SpacesBetween
<1> HIDE DEF a, n
<1>5. a \in at..n /\ a \in 1..n
  BY <1>1, <1>3, <1>4
<1>6. input[a] \in Tokens \ {"sp"}
  BY <1>1, <1>2, <1>5, ElementOfSeq DEF n, a
<1>7. NextOf(at, Tokens \ {"sp"}) = a
  BY <1>1, <1>4, <1>5, <1>6, NextIs DEF n
<1> QED BY <1>5, <1>7 DEF SkipSpaces, a, n

LEMMA WordThere ==
  ASSUME ParserTypes, GoodInFormat, NEW i \in DOMAIN lines, Good(i),
         NEW f \in 1..12, at = Behind(i, f - 1), f \in Words
  PROVE  WordEnd = Right(i, f) + 1 /\ WordEnd <= Stop(i) /\ WordEnd <= Len(input)
<1> DEFINE a == Left(i, f)
           b == Right(i, f)
           n == Len(input)
           e == b + 1
<1>1. SkipSpaces(at) = a /\ a \in 1..n /\ Layout /\ n \in Nat
  BY SkipsTo DEF ParserTypes, Layout
<1>2. FieldAt(i, f)
  BY FieldPlaced
<1>3. /\ b \in Nat /\ a <= b /\ b + 1 <= Stop(i)
      /\ \A r \in a..b : input[r] # "sp"
      /\ input[b + 1] = "sp"
  BY <1>2 DEF FieldAt, WordFrom
<1>4. Stop(i) \in Nat /\ Stop(i) <= n
  BY TokenAt
<1> HIDE DEF a, b, n
<1>5. e \in a..n /\ e - 1 = b /\ a \in 1..(n + 1) /\ e <= n
  BY <1>1, <1>3, <1>4
<1>6. input[e] \in {"sp"} /\ \A r \in a..(e - 1) : input[r] \notin {"sp"}
  BY <1>3, <1>5
<1> HIDE DEF e
<1>7. NextOf(a, {"sp"}) = e
  BY <1>1, <1>5, <1>6, NextIs DEF n
<1> QED BY <1>1, <1>3, <1>5, <1>7 DEF WordEnd, a, b, n, e

LEMMA DelimThere ==
  ASSUME ParserTypes, GoodInFormat, NEW i \in DOMAIN lines, Good(i),
         NEW f \in 1..12, at = Behind(i, f - 1), f \notin Words
  PROVE  DelimEnd(Format[f]) = Right(i, f)
<1> DEFINE a == Left(i, f)
           b == Right(i, f)
           n == Len(input)
           c == a + 1
           S == {Closing(Format[f]), "nl"}
<1>1. SkipSpaces(at) = a /\ a \in 1..n /\ Layout /\ n \in Nat
  BY SkipsTo DEF ParserTypes, Layout
<1>2. FieldAt(i, f)
  BY FieldPlaced
<1>3. /\ b \in Nat /\ b <= Stop(i) /\ a < b /\ input[b] \in S
      /\ \A r \in (a + 1)..(b - 1) : input[r] \notin S
  BY <1>2 DEF FieldAt, DelimFrom
<1>4. Stop(i) \in Nat /\ Stop(i) <= n
  BY TokenAt
<1> HIDE DEF a, b, n, S
<1>5. b \in c..n /\ c \in 1..(n + 1)
  BY <1>1, <1>3, <1>4
<1>6. \A r \in c..(b - 1) : input[r] \notin S
  BY <1>3
<1> HIDE DEF c
<1>7. NextOf(c, S) = b
  BY <1>1, <1>3, <1>5, <1>6, NextIs DEF n
<1> QED BY <1>1, <1>7 DEF DelimEnd, c, S, a, b

\* A good line is read field by field, and nothing in it throws.
LEMMA ReadsNext ==
  ASSUME ParserTypes, GoodInFormat, NEW i \in DOMAIN lines, Good(i),
         NEW f \in 1..12, at = Behind(i, f - 1), Len(spans) = f - 1,
         GetWord \/ GetNumber \/ \E kind \in {"bracketed", "quoted"} : GetDelim(kind)
  PROVE  /\ UNCHANGED <<lines, input, rows, pc>>
         /\ spans' = Append(spans, FieldOf(i, f))
         /\ at' = Behind(i, f)
<1> DEFINE a == Left(i, f)
           b == Right(i, f)
<1>1. FieldAt(i, f) /\ SkipSpaces(at) = a /\ a \in 1..Len(input)
  BY FieldPlaced, SkipsTo
<1>2. a \in Nat /\ b \in Nat /\ f # 0 /\ Len(spans) + 1 = f
  BY <1>1 DEF FieldAt
<1>3. CASE f \in Words
  <2>1. WordEnd = b + 1 /\ WordEnd <= Len(input)
    BY <1>3, WordThere
  <2>2. Format[f] \in {"word", "number"} /\ (Format[f] = "number" => f \in {6, 7})
    BY <1>3, KindOf, FormatFacts
  <2>3. FieldOf(i, f) = <<a, b>> /\ Behind(i, f) = b + 2
    BY <1>2, <1>3 DEF FieldOf, Behind
  <2>4. WordEnd - 1 = b /\ ~ WordEnd > Len(input)
    <3>1. Len(input) \in Nat
      BY DEF ParserTypes, Layout
    <3> HIDE DEF a, b
    <3> QED BY <1>2, <2>1, <3>1
  <2>5. GetWord \/ GetNumber
    BY <1>2, <2>2 DEF GetDelim, Wants
  <2>6. Field(a, b)
    <3>1. CASE GetWord
      BY <1>1, <2>4, <3>1 DEF GetWord
    <3>2. CASE GetNumber
      <4>1. f \in {6, 7}
        BY <1>2, <2>2, <3>2 DEF GetNumber, Wants
      <4>2. input[a] \in {"number", "address"} /\ a <= b
        BY <1>1, <4>1 DEF FieldAt
      <4>3. Numeric(a, b)
        <5> HIDE DEF a, b
        <5>1. a \in a..b /\ \A q \in a..(a - 1) : input[q] = "nl"
          BY <1>2, <4>2
        <5> QED BY <4>2, <5>1 DEF Numeric
      <4> QED BY <1>1, <2>4, <3>2, <4>3 DEF GetNumber
    <3> QED BY <2>5, <3>1, <3>2
  <2> QED BY <2>3, <2>6 DEF Field
<1>4. CASE f \notin Words
  <2>1. Format[f] \in {"bracketed", "quoted"}
    BY <1>4, KindOf
  <2>2. DelimEnd(Format[f]) = b
    BY <1>4, DelimThere
  <2>3. DelimFrom(Format[f], a, b) /\ b <= Stop(i)
    BY <1>1, <1>4 DEF FieldAt
  <2>4. FieldOf(i, f) = <<a + 1, b - 1>> /\ Behind(i, f) = b + 1
    BY <1>2, <1>4 DEF FieldOf, Behind
  <2>5. GetDelim(Format[f])
    BY <1>2, <2>1 DEF GetWord, GetNumber, GetDelim, Wants
  <2>6. Len(input) \in Nat /\ b <= Len(input)
    <3>1. Len(input) \in Nat /\ Stop(i) \in Nat /\ Stop(i) <= Len(input)
      BY TokenAt
    <3> HIDE DEF a, b
    <3> QED BY <1>2, <2>3, <3>1
  <2>7. /\ ~ SkipSpaces(at) > Len(input) /\ ~ DelimEnd(Format[f]) > Len(input)
        /\ input[SkipSpaces(at)] = Opening(Format[f])
        /\ input[DelimEnd(Format[f])] = Closing(Format[f])
    <3>1. ~ a > Len(input) /\ ~ b > Len(input)
      <4> HIDE DEF a, b
      <4> QED BY <1>1, <1>2, <2>6
    <3>2. input[a] = Opening(Format[f]) /\ input[b] = Closing(Format[f])
      BY <2>3 DEF DelimFrom
    <3> HIDE DEF a, b
    <3> QED BY <1>1, <2>2, <3>1, <3>2
  <2>8. Field(SkipSpaces(at) + 1, DelimEnd(Format[f]) - 1)
    BY <2>5, <2>7 DEF GetDelim
  <2>9. Field(a + 1, b - 1)
    BY <1>1, <2>2, <2>8
  <2>10. b - 1 + 2 = b + 1
    <3> HIDE DEF b
    <3> QED BY <1>2
  <2> QED BY <2>4, <2>9, <2>10 DEF Field
<1> QED BY <1>3, <1>4

\* The parser that takes the words of a line for later fields either goes on to
\* its second word or gives up within the line.
LEMMA ReadsAstray ==
  ASSUME ParserTypes, GoodInFormat, NEW i \in DOMAIN lines, Good(i), pc = "fields",
         NEW m \in 0..12, at = Behind(i, m), <<m, Len(spans)>> \in Astray,
         GetWord \/ GetNumber \/ \E kind \in {"bracketed", "quoted"} : GetDelim(kind)
  PROVE  /\ UNCHANGED <<lines, input, rows>>
         /\ \/ pc' = "fields" /\ at' = Behind(i, 2) /\ <<2, Len(spans')>> \in Astray
            \/ pc' = "skip" /\ spans' = <<>> /\ at < at' /\ at' <= Stop(i) + 1
<1> DEFINE k == Len(spans)
           f == m + 1
           a == Left(i, f)
           b == Right(i, f)
<1>1. m \in {1, 2} /\ k \in {2, 3, 6, 7} /\ (m = 2 => k \in {3, 7})
  BY DEF Astray
<1>2. f \in 1..12 /\ f \in Words /\ m = f - 1 /\ (m = 1 => f = 2)
  BY <1>1 DEF Words
<1> HIDE DEF f
<1>3. FieldAt(i, f) /\ SkipSpaces(at) = a /\ a \in 1..Len(input)
  BY <1>2, FieldPlaced, SkipsTo
<1>4. WordEnd = b + 1 /\ WordEnd <= Len(input) /\ Behind(i, f) = b + 2
  <2>1. f # 0
    BY <1>2
  <2> QED BY <1>2, <2>1, WordThere DEF Behind
<1>5. /\ a \in Nat /\ b \in Nat /\ a <= b /\ b + 1 <= Stop(i) /\ input[a] \notin {"[", "quote"}
  BY <1>2, <1>3 DEF FieldAt, WordFrom
<1>6. at \in Nat /\ at <= a /\ Stop(i) \in Nat /\ Len(input) \in Nat
  <2>1. at \in Nat
    BY BehindPlaced
  <2>2. at <= a
    BY <1>2, SpacesBetween
  <2> QED BY <2>1, <2>2, TokenAt
<1> HIDE DEF a, b
<1>7. /\ ~ WordEnd > Len(input) /\ ~ SkipSpaces(at) > Len(input) /\ WordEnd - 1 = b
      /\ at < b + 2 /\ b + 2 <= Stop(i) + 1 /\ at < a + 1 /\ a + 1 <= Stop(i) + 1
      /\ WordEnd + 1 = b + 2 /\ b + 2 = b + 2
  BY <1>3, <1>4, <1>5, <1>6
<1>8. Format[k + 1] = IF k = 2 THEN "word" ELSE IF k = 6 THEN "number"
                      ELSE IF k = 3 THEN "bracketed" ELSE "quoted"
  <2> HIDE DEF k
  <2> QED BY <1>1 DEF Format
<1>9. ASSUME Field(a, b), k \in {2, 6}
      PROVE  /\ UNCHANGED <<lines, input, rows>>
             /\ pc' = "fields" /\ at' = Behind(i, 2) /\ <<2, Len(spans')>> \in Astray
  <2>1. m = 1 /\ f = 2
    <3> HIDE DEF k
    <3> QED BY <1>1, <1>2, <1>9
  <2>2. Len(spans') = k + 1
    BY <1>9, AppendFacts DEF Field
  <2>3. <<2, Len(spans')>> \in Astray
    <3> HIDE DEF k
    <3> QED BY <1>9, <2>2 DEF Astray
  <2> QED BY <1>4, <1>9, <2>1, <2>3 DEF Field
<1>10. CASE GetWord
  <2>1. k = 2
    <3> HIDE DEF k
    <3>1. Format[k + 1] \in {"word"}
      BY <1>10 DEF GetWord, Wants, k
    <3> QED BY <1>1, <1>8, <3>1
  <2>2. Field(a, b)
    BY <1>3, <1>7, <1>10 DEF GetWord
  <2> QED BY <1>9, <2>1, <2>2
<1>11. CASE GetNumber
  <2>1. k = 6
    <3> HIDE DEF k
    <3>1. Format[k + 1] \in {"number"}
      BY <1>11 DEF GetNumber, Wants, k
    <3> QED BY <1>1, <1>8, <3>1
  <2>2. Field(a, b) \/ Throw(b + 2)
    BY <1>3, <1>4, <1>7, <1>11 DEF GetNumber
  <2>3. CASE Throw(b + 2)
    BY <1>7, <2>3 DEF Throw
  <2> QED BY <1>9, <2>1, <2>2, <2>3
<1>12. ASSUME NEW kind \in {"bracketed", "quoted"}, GetDelim(kind)
       PROVE  /\ UNCHANGED <<lines, input, rows>>
              /\ pc' = "skip" /\ spans' = <<>> /\ at < at' /\ at' <= Stop(i) + 1
  <2>1. input[a] # Opening(kind)
    BY <1>5 DEF Opening
  <2>2. Throw(a + 1)
    BY <1>3, <1>7, <1>12, <2>1 DEF GetDelim
  <2> QED BY <1>7, <2>2 DEF Throw
<1> QED BY <1>10, <1>11, <1>12

-----------------------------------------------------------------------------
(* Reaching a good line *)

LEMMA NewlineBefore ==
  ASSUME ParserTypes, GoodInFormat, NEW i \in DOMAIN lines, Good(i), at < Start(i)
  PROVE  /\ i # 1 /\ i - 1 \in DOMAIN lines /\ Start(i) = Stop(i - 1) + 2
         /\ Start(i) - 1 \in at..Len(input) /\ input[Start(i) - 1] = "nl"
<1> DEFINE j == i - 1
           s == Start(i)
           t == Stop(j)
<1>1. at \in Nat \ {0} /\ s \in Nat /\ s + 1 <= Stop(i) /\ Stop(i) <= Len(input)
      /\ Stop(i) \in Nat /\ Len(input) \in Nat
  BY TokenAt, FirstPlaced DEF ParserTypes, TypeOK
<1>2. i # 1 /\ j \in DOMAIN lines /\ s = t + 2
  <2>1. IF i = 1 THEN Start(i) = 1
        ELSE i - 1 \in DOMAIN lines /\ Start(i) = Stop(i - 1) + 2
    BY DEF ParserTypes, Layout
  <2>2. s # 1
    <3> HIDE DEF s
    <3> QED BY <1>1 DEF s
  <2> QED BY <2>1, <2>2
<1> HIDE DEF j
<1>3. t \in Nat /\ (t + 1 <= Len(input) => input[t + 1] = "nl")
  BY <1>2, TokenAt
<1> HIDE DEF s, t
<1>4. s - 1 = t + 1 /\ t + 1 <= Len(input) /\ s - 1 \in at..Len(input)
  BY <1>1, <1>2, <1>3 DEF s
<1>5. input[s - 1] = "nl"
  BY <1>3, <1>4
<1> QED BY <1>2, <1>4, <1>5 DEF s, t, j

\* What is searched for is found by the newline at the latest.
LEMMA StopsBy ==
  ASSUME Layout, NEW S, NEW p \in 1..Len(input), NEW q \in p..Len(input), input[q] \in S
  PROVE  NextOf(p, S) <= q
<1> DEFINE x == NextOf(p, S)
           n == Len(input)
<1>1. n \in Nat /\ p \in 1..(n + 1) /\ q \in p..n
  BY DEF Layout
<1>2. x \in p..(n + 1) /\ \A r \in p..(x - 1) : input[r] \notin S
  BY <1>1, NextOfFacts
<1> HIDE DEF x, n
<1>3. SUFFICES ASSUME ~ x <= q PROVE FALSE
  BY DEF x
<1>4. q \in p..(x - 1)
  BY <1>1, <1>2, <1>3
<1> QED BY <1>2, <1>4

\* A word that begins before a good line is over before it or ends with its
\* first word.
LEMMA WordCrosses ==
  ASSUME ParserTypes, GoodInFormat, NEW i \in DOMAIN lines, Good(i), at < Start(i)
  PROVE  /\ SkipSpaces(at) < Start(i)
         /\ WordEnd <= Len(input) /\ WordEnd \in Nat
         /\ WordEnd + 1 < Start(i) \/ WordEnd + 1 = Behind(i, 1)
<1> DEFINE s == Start(i)
           p == s - 1
           q == s + 1
           o == SkipSpaces(at)
           e == WordEnd
           n == Len(input)
<1>1. /\ p \in at..n /\ input[p] = "nl"
  BY NewlineBefore
<1>2. /\ s \in Nat /\ q <= n /\ input[q] = "sp" /\ input[s] \in {"number", "address"}
      /\ Behind(i, 1) = s + 2 /\ n \in Nat /\ at \in 1..(n + 1) /\ Layout
  <2>1. /\ s \in Nat /\ q <= Stop(i) /\ input[q] = "sp" /\ input[s] \in {"number", "address"}
        /\ Right(i, 1) = s
    BY FirstPlaced
  <2>2. Stop(i) <= n /\ n \in Nat /\ Stop(i) \in Nat
    BY TokenAt
  <2>3. Behind(i, 1) = s + 2
    BY <2>1 DEF Behind, Words
  <2>4. at \in 1..(n + 1) /\ Layout
    BY DEF ParserTypes, TypeOK
  <2> HIDE DEF s, n, Layout
  <2> QED BY <2>1, <2>2, <2>3, <2>4
<1>3. o <= p
  <2>1. at \in 1..n /\ "nl" \in Tokens \ {"sp"}
    <3> HIDE DEF p, n
    <3> QED BY <1>1, <1>2 DEF Tokens
  <2>2. NextOf(at, Tokens \ {"sp"}) <= p
    <3> HIDE DEF p, n
    <3> QED BY <1>1, <1>2, <2>1, StopsBy DEF n
  <2> QED BY <2>2 DEF SkipSpaces
<1>4. /\ o \in at..(n + 1) /\ e \in o..(n + 1)
      /\ \A r \in o..(e - 1) : input[r] # "sp"
      /\ e <= n => input[e] = "sp"
  BY WordFacts
<1> HIDE DEF s, o, e, n
<1>5. e <= q
  <2> SUFFICES ASSUME ~ e <= q PROVE FALSE
    OBVIOUS
  <2>1. q \in o..(e - 1)
    BY <1>2, <1>3, <1>4
  <2> QED BY <1>2, <1>4, <2>1
<1>6. e # p /\ e # s
  <2>1. e <= n
    BY <1>2, <1>4, <1>5
  <2> QED BY <1>1, <1>2, <1>4, <2>1
<1>7. e \in Nat /\ e <= n /\ o < s /\ (e + 1 < s \/ e + 1 = s + 2)
  BY <1>2, <1>3, <1>4, <1>5, <1>6
<1> QED BY <1>2, <1>7 DEF s, o, e, n

LEMMA EolPlaced ==
  ASSUME ParserTypes, NEW q \in at..Len(input), input[q] = "nl"
  PROVE  Eol(at) \in at..q
<1>1. Layout /\ at \in 1..(Len(input) + 1) /\ Len(input) \in Nat
  BY DEF ParserTypes, TypeOK, Layout
<1>2. at \in 1..Len(input)
  BY <1>1
<1>3. NextOf(at, {"nl"}) <= q
  BY <1>1, <1>2, StopsBy
<1>4. NextOf(at, {"nl"}) \in at..(Len(input) + 1)
  BY <1>1, NextOfFacts
<1> QED BY <1>1, <1>3, <1>4 DEF Eol

\* The step comes to line i at most: to its beginning, or behind its first word.
Reaches(i) ==
  /\ UNCHANGED <<lines, input>> /\ pc' # "eof"
  /\ \/ at' < Start(i)
     \/ at' = Start(i) /\ spans' = <<>>
     \/ at' = Behind(i, 1) /\ pc' = "skip" /\ spans' = <<>>
     \/ /\ at' = Behind(i, 1) /\ pc' = "fields"
        /\ Len(spans') = 1 \/ <<1, Len(spans')>> \in Astray

LEMMA WordReaches ==
  ASSUME ParserTypes, GoodInFormat, NEW i \in DOMAIN lines, Good(i), at < Start(i),
         GetWord \/ GetNumber
  PROVE  Reaches(i)
<1> DEFINE e == WordEnd
           o == SkipSpaces(at)
<1>1. e \in Nat /\ e <= Len(input) /\ Len(input) \in Nat
      /\ (e + 1 < Start(i) \/ e + 1 = Behind(i, 1))
  BY WordCrosses, TokenAt
<1>2. ~ e > Len(input) /\ e - 1 + 2 = e + 1
  <2> HIDE DEF e
  <2> QED BY <1>1
<1>3. Len(spans) \in {0, 1, 2, 5, 6} /\ pc = "fields"
  <2>1. {"word"} \subseteq {"word", "number"} /\ {"number"} \subseteq {"word", "number"}
    OBVIOUS
  <2>2. CASE GetWord
    BY <2>1, <2>2, WantsFacts DEF GetWord
  <2>3. CASE GetNumber
    BY <2>1, <2>3, WantsFacts DEF GetNumber
  <2> QED BY <2>2, <2>3
<1>4. Field(o, e - 1) \/ Throw(e + 1)
  BY <1>2 DEF GetWord, GetNumber
<1>5. CASE Field(o, e - 1)
  <2>1. UNCHANGED <<lines, input, pc>> /\ spans' = Append(spans, <<o, e - 1>>)
        /\ at' = e + 1
    BY <1>2, <1>5 DEF Field
  <2>2. Len(spans') = Len(spans) + 1
    BY <2>1, AppendFacts
  <2> DEFINE k == Len(spans)
  <2>3. Len(spans') = 1 \/ <<1, Len(spans')>> \in Astray
    <3>1. k \in {0, 1, 2, 5, 6} /\ Len(spans') = k + 1
      BY <1>3, <2>2
    <3> HIDE DEF k
    <3> QED BY <3>1 DEF Astray
  <2> QED BY <1>1, <1>3, <2>1, <2>3 DEF Reaches
<1>6. CASE Throw(e + 1)
  BY <1>1, <1>6 DEF Throw, Reaches
<1> QED BY <1>4, <1>5, <1>6

LEMMA DelimReaches ==
  ASSUME ParserTypes, GoodInFormat, NEW i \in DOMAIN lines, Good(i), at < Start(i),
         NEW kind \in {"bracketed", "quoted"}, GetDelim(kind)
  PROVE  Reaches(i)
<1> DEFINE o == SkipSpaces(at)
           d == DelimEnd(kind)
           p == Start(i) - 1
           n == Len(input)
<1>1. p \in at..n /\ input[p] = "nl" /\ p + 1 = Start(i) /\ n \in Nat /\ at \in Nat
  <2>1. Start(i) \in Nat /\ n \in Nat
    BY TokenAt
  <2>2. at \in Nat
    BY DEF ParserTypes, TypeOK
  <2> QED BY <2>1, <2>2, NewlineBefore
<1>2. o \in Nat /\ o <= p
  <2>1. o < Start(i) /\ o \in at..(n + 1)
    BY WordCrosses, WordFacts
  <2> HIDE DEF o, n
  <2> QED BY <1>1, <2>1
<1>3. o <= n
  <2> HIDE DEF o, p, n
  <2> QED BY <1>1, <1>2
<1>4. pc = "fields"
  BY DEF GetDelim, Wants
<1>5. CASE input[o] # Opening(kind)
  <2>1. Throw(o + 1)
    <3>1. ~ o > n
      <4> HIDE DEF o, n
      <4> QED BY <1>1, <1>2, <1>3
    <3> QED BY <1>5, <3>1 DEF GetDelim, Eof
  <2>2. o + 1 < Start(i) \/ o + 1 = Start(i)
    <3> HIDE DEF o, n
    <3> QED BY <1>1, <1>2
  <2> QED BY <2>1, <2>2 DEF Throw, Reaches
<1>6. CASE input[o] = Opening(kind)
  <2>1. o < p
    <3>1. Opening(kind) # "nl"
      BY DEF Opening
    <3> HIDE DEF o, n, p
    <3> QED BY <1>1, <1>2, <1>6, <3>1
  <2>2. d \in Nat /\ d <= p
    <3> DEFINE c == o + 1
               S == {Closing(kind), "nl"}
    <3>1. c \in 1..n /\ p \in c..n /\ input[p] \in S
      <4> HIDE DEF o, n, p
      <4> QED BY <1>1, <1>2, <2>1
    <3>2. Layout
      BY DEF ParserTypes
    <3>3. NextOf(c, S) <= p
      <4> HIDE DEF c, S, p
      <4> QED BY <3>1, <3>2, StopsBy
    <3>4. d = NextOf(c, S)
      BY DEF DelimEnd
    <3>5. d \in (o + 1)..(n + 1)
      BY <1>3, DelimFacts
    <3> HIDE DEF d, o, n
    <3> QED BY <1>1, <1>2, <3>3, <3>4, <3>5
  <2>3. ~ o > n /\ ~ d > n /\ d - 1 + 2 = d + 1
    <3> HIDE DEF o, d, n, p
    <3> QED BY <1>1, <1>2, <1>3, <2>2
  <2>4. CASE input[d] = Closing(kind)
    <3>1. Field(o + 1, d - 1)
      BY <1>6, <2>3, <2>4 DEF GetDelim, Eof
    <3>2. d + 1 < Start(i)
      <4>1. Closing(kind) # "nl"
        BY DEF Closing
      <4> HIDE DEF d, n, p
      <4> QED BY <1>1, <2>2, <2>4, <4>1
    <3>3. at' = d + 1 /\ UNCHANGED <<lines, input, pc>>
      <4> HIDE DEF d, o
      <4> QED BY <2>3, <3>1 DEF Field
    <3> QED BY <1>4, <3>2, <3>3 DEF Reaches
  <2>5. CASE input[d] # Closing(kind)
    <3>1. Throw(d + 1)
      BY <1>6, <2>3, <2>5 DEF GetDelim, Eof
    <3>2. d + 1 < Start(i) \/ d + 1 = Start(i)
      <4> HIDE DEF d, n
      <4> QED BY <1>1, <2>2
    <3> QED BY <3>1, <3>2 DEF Throw, Reaches
  <2> QED BY <2>4, <2>5
<1> QED BY <1>5, <1>6

LEMMA StepReaches ==
  ASSUME ParserTypes, GoodInFormat, pc = "skip" => spans = <<>>, Next,
         NEW i \in DOMAIN lines, Good(i), at < Start(i)
  PROVE  Reaches(i)
<1>1. CASE LookupFails
  BY <1>1 DEF LookupFails, Throw, Reaches
<1>2. CASE AddValue
  BY <1>2 DEF AddValue, Reaches
<1>3. CASE SkipToEol
  <2> DEFINE p == Start(i) - 1
             e == Eol(at)
  <2>1. p \in at..Len(input) /\ input[p] = "nl"
    BY NewlineBefore
  <2>2. e \in at..p
    <3> HIDE DEF p
    <3> QED BY <2>1, EolPlaced
  <2>3. Start(i) \in Nat /\ Len(input) \in Nat /\ at \in Nat
    BY TokenAt DEF ParserTypes, TypeOK
  <2> HIDE DEF e
  <2>4. ~ e > Len(input) /\ (e + 1 < Start(i) \/ e + 1 = Start(i))
    BY <2>1, <2>2, <2>3
  <2>5. at' = e + 1 /\ pc' = "fields" /\ UNCHANGED <<lines, input, spans>> /\ pc = "skip"
    BY <1>3, <2>4 DEF SkipToEol, e
  <2> QED BY <2>4, <2>5 DEF Reaches
<1> QED BY <1>1, <1>2, <1>3, WordReaches, DelimReaches DEF Next

-----------------------------------------------------------------------------
(* On a good line *)

LEMMA PlacesKept ==
  ASSUME UNCHANGED <<lines, input>>
  PROVE  \A i : /\ Start(i)' = Start(i) /\ Stop(i)' = Stop(i)
                /\ \A f : /\ Behind(i, f)' = Behind(i, f)
                          /\ FieldOf(i, f)' = FieldOf(i, f)
BY DEF Start, Stop, Behind, FieldOf, Left, Right

LEMMA ReadForward ==
  ASSUME ParserTypes,
         GetWord \/ GetNumber \/ \E kind \in {"bracketed", "quoted"} : GetDelim(kind)
  PROVE  /\ UNCHANGED <<lines, input, rows>> /\ at' >= at
         /\ pc = "fields" /\ pc' \in {"fields", "skip", "eof"}
         /\ \/ spans' = <<>>
            \/ \E x : /\ spans' = Append(spans, x) /\ x[1] >= at /\ x[2] >= at
                      /\ x[1] < at' /\ Len(spans) < 12
                      /\ x[1] \in Nat /\ x[2] \in Nat /\ pc' = "fields"
<1> DEFINE o == SkipSpaces(at)
           e == WordEnd
           n == Len(input)
<1>1. n \in Nat /\ at \in Nat /\ at <= n + 1
  BY DEF ParserTypes, TypeOK, Layout
<1>2. /\ o \in at..(n + 1) /\ e \in o..(n + 1) /\ (e <= n => o < e)
  BY WordFacts
<1>3. CASE GetWord \/ GetNumber
  <2>1. pc = "fields" /\ Len(spans) < 12
    BY <1>3, FormatFacts DEF GetWord, GetNumber, Wants
  <2>2. Eof \/ (e <= n /\ Throw(e + 1)) \/ (e <= n /\ Field(o, e - 1))
    <3> HIDE DEF o, e, n
    <3>1. e > n \/ e <= n
      BY <1>1, <1>2
    <3> QED BY <1>3, <3>1 DEF GetWord, GetNumber, o, e, n
  <2>3. CASE Eof
    <3>1. n + 1 >= at
      <4> HIDE DEF n
      <4> QED BY <1>1
    <3> QED BY <2>1, <2>3, <3>1 DEF Eof
  <2>4. CASE e <= n /\ Throw(e + 1)
    <3>1. e + 1 >= at
      <4> HIDE DEF o, e, n
      <4> QED BY <1>1, <1>2
    <3> QED BY <2>1, <2>4, <3>1 DEF Throw
  <2>5. CASE e <= n /\ Field(o, e - 1)
    <3>1. /\ o >= at /\ e - 1 >= at /\ o < e - 1 + 2 /\ e - 1 + 2 >= at
          /\ o \in Nat /\ e - 1 \in Nat
      <4> HIDE DEF o, e, n
      <4> QED BY <1>1, <1>2, <2>5
    <3> DEFINE x == <<o, e - 1>>
    <3>2. x[1] = o /\ x[2] = e - 1
      OBVIOUS
    <3>3. /\ spans' = Append(spans, x) /\ at' = e - 1 + 2
          /\ UNCHANGED <<lines, input, rows, pc>>
      BY <2>5 DEF Field
    <3> HIDE DEF x, o, e
    <3>4. x[1] >= at /\ x[2] >= at /\ x[1] < at' /\ at' >= at /\ x[1] \in Nat /\ x[2] \in Nat
      BY <3>1, <3>2, <3>3
    <3> QED BY <2>1, <3>3, <3>4
  <2> QED BY <2>2, <2>3, <2>4, <2>5
<1>4. ASSUME NEW kind \in {"bracketed", "quoted"}, GetDelim(kind)
      PROVE  /\ UNCHANGED <<lines, input, rows>> /\ at' >= at
             /\ pc = "fields" /\ pc' \in {"fields", "skip", "eof"}
             /\ \/ spans' = <<>>
                \/ \E x : /\ spans' = Append(spans, x) /\ x[1] >= at /\ x[2] >= at
                          /\ x[1] < at' /\ Len(spans) < 12
                          /\ x[1] \in Nat /\ x[2] \in Nat /\ pc' = "fields"
  <2> DEFINE d == DelimEnd(kind)
  <2>1. pc = "fields" /\ Len(spans) < 12
    BY <1>4, FormatFacts DEF GetDelim, Wants
  <2>2. \/ Eof
        \/ o <= n /\ Throw(o + 1)
        \/ o <= n /\ d <= n /\ Throw(d + 1)
        \/ o <= n /\ d <= n /\ Field(o + 1, d - 1)
    BY <1>4 DEF GetDelim
  <2>3. o <= n => d \in (o + 1)..(n + 1)
    BY DelimFacts
  <2>4. CASE Eof
    <3>1. n + 1 >= at
      <4> HIDE DEF n
      <4> QED BY <1>1
    <3> QED BY <2>1, <2>4, <3>1 DEF Eof
  <2>5. CASE o <= n /\ Throw(o + 1)
    <3>1. o + 1 >= at
      <4> HIDE DEF o, n
      <4> QED BY <1>1, <1>2
    <3> QED BY <2>1, <2>5, <3>1 DEF Throw
  <2>6. CASE o <= n /\ d <= n /\ Throw(d + 1)
    <3>1. d + 1 >= at
      <4> HIDE DEF o, d, n
      <4> QED BY <1>1, <1>2, <2>3, <2>6
    <3> QED BY <2>1, <2>6, <3>1 DEF Throw
  <2>7. CASE o <= n /\ d <= n /\ Field(o + 1, d - 1)
    <3>1. /\ o + 1 >= at /\ d - 1 >= at /\ o + 1 < d - 1 + 2 /\ d - 1 + 2 >= at
          /\ o + 1 \in Nat /\ d - 1 \in Nat
      <4> HIDE DEF o, d, n
      <4> QED BY <1>1, <1>2, <2>3, <2>7
    <3> DEFINE x == <<o + 1, d - 1>>
    <3>2. x[1] = o + 1 /\ x[2] = d - 1
      OBVIOUS
    <3>3. /\ spans' = Append(spans, x) /\ at' = d - 1 + 2
          /\ UNCHANGED <<lines, input, rows, pc>>
      BY <2>7 DEF Field
    <3> HIDE DEF x, o, d
    <3>4. x[1] >= at /\ x[2] >= at /\ x[1] < at' /\ at' >= at /\ x[1] \in Nat /\ x[2] \in Nat
      BY <3>1, <3>2, <3>3
    <3> QED BY <2>1, <3>3, <3>4
  <2> QED BY <2>2, <2>4, <2>5, <2>6, <2>7
<1> QED BY <1>3, <1>4

\* What skips from a line on comes behind it.
LEMMA EolBeyond ==
  ASSUME ParserTypes, NEW i \in DOMAIN lines, at >= Start(i)
  PROVE  Eol(at) \in Nat /\ Eol(at) > Stop(i) /\ Eol(at) >= at
<1> DEFINE e == Eol(at)
<1>1. /\ at \in 1..(Len(input) + 1) /\ Layout /\ Len(input) \in Nat
      /\ Start(i) \in Nat /\ Stop(i) \in Nat /\ Stop(i) <= Len(input)
  BY TokenAt DEF ParserTypes, TypeOK
<1>2. e \in at..(Len(input) + 1) /\ (e <= Len(input) => input[e] \in {"nl"})
  BY <1>1, NextOfFacts DEF Eol
<1>3. e \notin Start(i)..Stop(i) \/ ~ e <= Len(input)
  BY <1>2, OnLine
<1> HIDE DEF e
<1>4. e \in Nat /\ e > Stop(i) /\ e >= at
  BY <1>1, <1>2, <1>3
<1> QED BY <1>4 DEF e

LEMMA Forward ==
  ASSUME ParserTypes, Next
  PROVE  UNCHANGED <<lines, input>> /\ at' >= at /\ pc # "eof" /\ at \in Nat /\ at' \in Nat
<1> DEFINE forward == UNCHANGED <<lines, input>> /\ at' >= at /\ pc # "eof"
<1>1. at \in 1..(Len(input) + 1) /\ Len(input) \in Nat /\ Layout
  BY DEF ParserTypes, TypeOK, Layout
<1>2. ASSUME LookupFails \/ AddValue PROVE forward
  BY <1>1, <1>2 DEF LookupFails, Throw, AddValue
<1>3. ASSUME SkipToEol PROVE forward
  <2>1. Eol(at) \in at..(Len(input) + 1)
    BY <1>1, NextOfFacts DEF Eol
  <2> DEFINE e == Eol(at)
             n == Len(input)
  <2>2. e + 1 >= at /\ n + 1 >= at
    <3> HIDE DEF e, n
    <3> QED BY <1>1, <2>1 DEF e, n
  <2>3. pc = "skip" /\ UNCHANGED <<lines, input>> /\ (at' = n + 1 \/ at' = e + 1)
    BY <1>3 DEF SkipToEol, Eof
  <2> QED BY <2>2, <2>3
<1>4. ASSUME GetWord \/ GetNumber \/ \E kind \in {"bracketed", "quoted"} : GetDelim(kind)
      PROVE  forward
  BY <1>4, ReadForward
<1>5. at' \in Nat
  <2>1. ParserTypes'
    BY TypesStep
  <2> QED BY <2>1 DEF ParserTypes, TypeOK
<1> QED BY <1>1, <1>2, <1>3, <1>4, <1>5 DEF Next

\* What one step does on a good line
LEMMA ReadsStep ==
  ASSUME ParserTypes, GoodInFormat, Next, NEW i \in DOMAIN lines, Good(i), Reads(i)
  PROVE  /\ at' <= Stop(i) + 1 /\ at' >= Start(i)
         /\ \/ pc' = "skip"
            \/ /\ pc' = "fields"
               /\ \E f \in 0..12 : /\ at' = Behind(i, f)
                                   /\ Len(spans') = f \/ <<f, Len(spans')>> \in Astray
<1>1. pc = "fields"
  BY DEF Reads
<1>2. PICK f \in 0..12 : at = Behind(i, f) /\ (Len(spans) = f \/ <<f, Len(spans)>> \in Astray)
  BY DEF Reads
<1>3. /\ at \in Nat /\ Start(i) <= at /\ at <= Stop(i) + 1
      /\ Start(i) \in Nat /\ Stop(i) \in Nat
  BY <1>2, BehindPlaced, TokenAt
<1>4. CASE LookupFails
  BY <1>3, <1>4 DEF LookupFails, Throw
<1>5. CASE AddValue
  BY <1>3, <1>5 DEF AddValue
<1>6. CASE GetWord \/ GetNumber \/ \E kind \in {"bracketed", "quoted"} : GetDelim(kind)
  <2>1. CASE Len(spans) = f
    <3> DEFINE g == f + 1
    <3>1. Len(spans) < 12
      BY <1>6, FormatFacts DEF GetWord, GetNumber, GetDelim, Wants
    <3>2. g \in 1..12 /\ g - 1 = f
      BY <2>1, <3>1
    <3> HIDE DEF g
    <3>3. /\ UNCHANGED <<lines, input, rows, pc>>
          /\ spans' = Append(spans, FieldOf(i, g))
          /\ at' = Behind(i, g)
      BY <1>2, <1>6, <2>1, <3>2, ReadsNext
    <3>4. Len(spans') = g
      <4>1. Len(spans') = Len(spans) + 1
        BY <3>3, AppendFacts
      <4> QED BY <2>1, <4>1 DEF g
    <3>5. g \in 0..12
      BY <3>2
    <3>6. Behind(i, g) \in Nat /\ Start(i) <= Behind(i, g) /\ Behind(i, g) <= Stop(i) + 1
      BY <3>5, BehindPlaced
    <3>7. at' <= Stop(i) + 1 /\ at' >= Start(i)
      <4> DEFINE c == Behind(i, g)
      <4> HIDE DEF c
      <4>1. c \in Nat /\ Start(i) <= c /\ c <= Stop(i) + 1 /\ at' = c
        BY <3>3, <3>6 DEF c
      <4> QED BY <1>3, <4>1
    <3> QED BY <1>1, <3>3, <3>4, <3>5, <3>7
  <2>2. CASE <<f, Len(spans)>> \in Astray
    <3>1. \/ pc' = "fields" /\ at' = Behind(i, 2) /\ <<2, Len(spans')>> \in Astray
          \/ pc' = "skip" /\ spans' = <<>> /\ at < at' /\ at' <= Stop(i) + 1
      BY <1>1, <1>2, <1>6, <2>2, ReadsAstray
    <3>2. at' >= at /\ at' \in Nat
      BY Forward
    <3>3. at' >= Start(i)
      BY <1>3, <3>2
    <3>4. 2 \in 0..12 /\ Behind(i, 2) <= Stop(i) + 1
      BY BehindPlaced
    <3> QED BY <3>1, <3>3, <3>4
  <2> QED BY <1>2, <2>1, <2>2
<1>7. ~ SkipToEol
  BY <1>1 DEF SkipToEol
<1> QED BY <1>4, <1>5, <1>6, <1>7 DEF Next

LEMMA OnGoodLineStep ==
  ASSUME ParserTypes, GoodInFormat, pc = "skip" => spans = <<>>, Next,
         NEW i \in DOMAIN lines, Good(i), OnGoodLine(i)
  PROVE  OnGoodLine(i)'
<1>1. UNCHANGED <<lines, input>> /\ at' >= at /\ pc # "eof" /\ at \in Nat /\ at' \in Nat
  BY Forward
<1>2. Start(i)' = Start(i) /\ Stop(i)' = Stop(i) /\ \A f : Behind(i, f)' = Behind(i, f)
  BY <1>1, PlacesKept
<1>3. pc' \in {"fields", "skip", "eof"}
  <2>1. ParserTypes'
    BY TypesStep
  <2> QED BY <2>1 DEF ParserTypes, TypeOK
<1>4. OnGoodLine(i)' <=>
        \/ pc' \in {"skip", "eof"} \/ at' < Start(i) \/ at' > Stop(i) + 1
        \/ /\ pc' = "fields"
           /\ \E f \in 0..12 : /\ at' = Behind(i, f)
                               /\ Len(spans') = f \/ <<f, Len(spans')>> \in Astray
  BY <1>2 DEF OnGoodLine, Reads
<1>5. CASE at < Start(i)
  <2>1. Reaches(i)
    BY <1>5, StepReaches
  <2>2. CASE at' = Start(i) /\ spans' = <<>>
    <3>1. Len(spans') = 0 /\ at' = Behind(i, 0) /\ 0 \in 0..12
      <4>1. Len(<<>>) = 0
        OBVIOUS
      <4> QED BY <2>2, <4>1 DEF Behind
    <3> QED BY <1>3, <1>4, <3>1
  <2>3. 1 \in 0..12
    OBVIOUS
  <2> QED BY <1>4, <2>1, <2>2, <2>3 DEF Reaches
<1>6. CASE at > Stop(i) + 1
  <2>1. Stop(i) \in Nat
    BY TokenAt
  <2>2. at' > Stop(i) + 1
    BY <1>1, <1>6, <2>1
  <2> QED BY <1>4, <2>2
<1>7. CASE Reads(i)
  BY <1>4, <1>7, ReadsStep
<1>8. CASE pc = "skip" /\ ~ at < Start(i)
  <2>1. Start(i) \in Nat /\ Stop(i) \in Nat
    BY TokenAt
  <2>2. at >= Start(i)
    BY <1>1, <1>8, <2>1
  <2> DEFINE e == Eol(at)
  <2>3. e \in Nat /\ e > Stop(i)
    BY <2>2, EolBeyond
  <2> HIDE DEF e
  <2>4. e + 1 > Stop(i) + 1
    BY <2>1, <2>3
  <2>5. SkipToEol
    BY <1>8 DEF Next, GetWord, GetNumber, GetDelim, Wants, LookupFails, AddValue
  <2>6. pc' = "eof" \/ at' = e + 1
    BY <2>5 DEF SkipToEol, Eof, e
  <2> QED BY <1>4, <2>4, <2>6
<1> QED BY <1>1, <1>5, <1>6, <1>7, <1>8 DEF OnGoodLine

-----------------------------------------------------------------------------
(* Rows of a line *)

LEMMA RowOf ==
  ASSUME UNCHANGED lines
  PROVE  /\ UNCHANGED rows => /\ \A i : NoRow(i)' = NoRow(i)
                              /\ \A i : StoredOnce(i)' = StoredOnce(i)
BY PlacesKept, LinesKept DEF NoRow, StoredOnce, IsRowOf, Within

\* The row that is added is of the line that its fields are on.
LEMMA RowAdded ==
  ASSUME ParserTypes, rows \in Seq(Seq(Span)), AddValue, NEW i
  PROVE  LET fits == \A f \in 1..Len(Format) : Within(spans[f], i) IN
         /\ NoRow(i) /\ ~ fits => NoRow(i)'
         /\ NoRow(i) /\ fits => StoredOnce(i)'
         /\ StoredOnce(i) /\ ~ fits => StoredOnce(i)'
<1> DEFINE fits == \A f \in 1..Len(Format) : Within(spans[f], i)
           x == Len(rows) + 1
           IsOld(n) == IsRowOf(n, i)
           IsNew(n) == \A f \in 1..Len(Format) : Within(rows'[n][f], i)
<1>1. rows' = Append(rows, spans) /\ UNCHANGED <<lines, input>>
  BY DEF AddValue
<1>2. \A n : IsRowOf(n, i)' <=> IsNew(n)
  <2>1. Start(i)' = Start(i) /\ Stop(i)' = Stop(i)
    BY <1>1, PlacesKept
  <2> QED BY <2>1 DEF IsRowOf, Within
<1>3. spans \in Seq(Span) /\ Len(rows) \in Nat /\ DOMAIN rows = 1..Len(rows)
  BY LenProperties DEF ParserTypes, TypeOK, Span
<1>4. /\ DOMAIN rows' = 1..x /\ rows'[x] = spans
      /\ \A n \in 1..Len(rows) : rows'[n] = rows[n]
  <2> DEFINE T == Seq(Span)
  <2>1. rows \in Seq(T) /\ spans \in T
    BY <1>3
  <2> HIDE DEF T
  <2>2. /\ Append(rows, spans) \in Seq(T) /\ Len(Append(rows, spans)) = Len(rows) + 1
        /\ \A n \in 1..Len(rows) : Append(rows, spans)[n] = rows[n]
        /\ Append(rows, spans)[Len(rows) + 1] = spans
    BY <2>1, AppendProperties
  <2>3. DOMAIN Append(rows, spans) = 1..Len(Append(rows, spans))
    BY <2>2, LenProperties
  <2> QED BY <1>1, <2>2, <2>3
<1>5. IsNew(x) <=> fits
  BY <1>4
<1>6. \A n \in DOMAIN rows : n \in DOMAIN rows' /\ n # x /\ (IsNew(n) <=> IsOld(n))
  BY <1>3, <1>4 DEF IsRowOf
<1>7. \A n \in DOMAIN rows' : n = x \/ n \in DOMAIN rows
  BY <1>3, <1>4
<1>8. x \in DOMAIN rows'
  BY <1>3, <1>4
<1>9. NoRow(i) <=> \A n \in DOMAIN rows : ~ IsOld(n)
  BY DEF NoRow
<1>10. NoRow(i)' <=> \A n \in DOMAIN rows' : ~ IsNew(n)
  BY <1>2 DEF NoRow
<1>11. StoredOnce(i) <=>
         \E n \in DOMAIN rows : IsOld(n) /\ \A m \in DOMAIN rows \ {n} : ~ IsOld(m)
  BY DEF StoredOnce
<1>12. StoredOnce(i)' <=>
         \E n \in DOMAIN rows' : IsNew(n) /\ \A m \in DOMAIN rows' \ {n} : ~ IsNew(m)
  BY <1>2 DEF StoredOnce
<1> HIDE DEF x, IsOld, IsNew, fits
<1>13. NoRow(i) /\ ~ fits => NoRow(i)'
  BY <1>5, <1>6, <1>7, <1>9, <1>10
<1>14. NoRow(i) /\ fits => StoredOnce(i)'
  BY <1>5, <1>6, <1>7, <1>8, <1>9, <1>12
<1>15. StoredOnce(i) /\ ~ fits => StoredOnce(i)'
  <2> SUFFICES ASSUME StoredOnce(i), ~ fits PROVE StoredOnce(i)'
    OBVIOUS
  <2>1. PICK n \in DOMAIN rows : IsOld(n) /\ \A m \in DOMAIN rows \ {n} : ~ IsOld(m)
    BY <1>11
  <2>2. n \in DOMAIN rows' /\ IsNew(n)
    BY <1>6, <2>1
  <2>3. \A m \in DOMAIN rows' \ {n} : ~ IsNew(m)
    BY <1>5, <1>6, <1>7, <2>1
  <2> QED BY <1>12, <2>2, <2>3
<1> QED BY <1>13, <1>14, <1>15 DEF fits

-----------------------------------------------------------------------------
(* A good line behind a good line *)

LEMMA RowsChange ==
  ASSUME ParserTypes, Next
  PROVE  UNCHANGED rows \/ AddValue
BY ReadForward DEF Next, LookupFails, Throw, SkipToEol, Eof

LEMMA FirstSpan ==
  ASSUME ParserTypes, Len(spans) > 0
  PROVE  spans[1][1] \in Nat /\ spans[1][2] \in Nat
<1>1. spans \in Seq(Span) /\ Len(spans) \in Nat
  BY LenProperties DEF ParserTypes, TypeOK, Span
<1>2. 1 \in 1..Len(spans)
  BY <1>1
<1>3. spans[1] \in Span
  <2> HIDE DEF Span
  <2> QED BY <1>1, <1>2, ElementOfSeq
<1> QED BY <1>3 DEF Span

LEMMA AheadRows ==
  ASSUME ParserTypes, RecoverInv, Next, NEW i \in DOMAIN lines, at < Start(i), NoRow(i)
  PROVE  NoRow(i)'
<1>1. UNCHANGED <<lines, input>> /\ at \in Nat
  BY Forward
<1>2. CASE UNCHANGED rows
  BY <1>1, <1>2, RowOf
<1>3. CASE AddValue
  <2>1. Len(spans) = 12
    BY <1>3, FormatFacts DEF AddValue
  <2>2. spans[1][1] < at
    BY <2>1 DEF RecoverInv
  <2>3. spans[1][1] \in Nat
    BY <2>1, FirstSpan
  <2>4. Start(i) \in Nat
    BY TokenAt
  <2>5. ~ Within(spans[1], i)
    BY <1>1, <2>2, <2>3, <2>4 DEF Within
  <2>6. 1 \in 1..Len(Format)
    BY FormatFacts
  <2>7. rows \in Seq(Seq(Span))
    BY DEF RecoverInv
  <2> QED BY <1>3, <2>5, <2>6, <2>7, RowAdded
<1> QED BY <1>2, <1>3, RowsChange

LEMMA AheadStep ==
  ASSUME ParserTypes, GoodInFormat, RecoverInv, Next,
         NEW i \in DOMAIN lines, Good(i), i = 1 \/ Good(i - 1), Ahead(i)
  PROVE  Ahead(i)' \/ Reading(i)'
<1> DEFINE j == i - 1
           s == Start(i)
           t == Stop(j)
<1>1. at < s /\ NoRow(i) /\ pc # "eof"
  BY DEF Ahead
<1>2. /\ i # 1 /\ j \in DOMAIN lines /\ s = t + 2
      /\ s - 1 \in at..Len(input) /\ input[s - 1] = "nl"
  BY <1>1, NewlineBefore
<1>3. Good(j)
  BY <1>2
<1> HIDE DEF j
<1>4. UNCHANGED <<lines, input>> /\ at \in Nat /\ at' \in Nat
  BY Forward
<1>5. NoRow(i)'
  BY <1>1, AheadRows
<1>6. s \in Nat /\ t \in Nat /\ Start(j) \in Nat /\ Start(j) <= t
  BY <1>2, <1>3, TokenAt, FirstPlaced
<1>7. Start(i)' = s /\ Behind(i, 0)' = Behind(i, 0) /\ Behind(i, 0) = s
  BY <1>4, PlacesKept DEF Behind
<1>8. OnGoodLine(j) /\ (pc = "skip" => spans = <<>>)
  BY <1>2, <1>3 DEF RecoverInv
<1>9. ASSUME at' <= t + 1, pc' # "eof" PROVE Ahead(i)'
  <2>1. at' < s
    BY <1>2, <1>4, <1>6, <1>9
  <2> QED BY <1>5, <1>7, <1>9, <2>1 DEF Ahead
<1>10. CASE at < Start(j)
  <2>1. Reaches(j)
    BY <1>2, <1>3, <1>8, <1>10, StepReaches
  <2>2. Behind(j, 1) <= t + 1 /\ Behind(j, 1) \in Nat
    <3>1. 1 \in 0..12
      OBVIOUS
    <3> QED BY <1>2, <1>3, <3>1, BehindPlaced
  <2>3. at' < Start(j) \/ at' = Start(j) \/ at' = Behind(j, 1)
    BY <2>1 DEF Reaches
  <2>4. at' <= t + 1
    BY <1>4, <1>6, <2>2, <2>3
  <2> QED BY <1>9, <2>1, <2>4 DEF Reaches
<1>11. CASE ~ at < Start(j) /\ Reads(j)
  <2>1. at' <= t + 1 /\ (pc' = "skip" \/ pc' = "fields")
    BY <1>2, <1>3, <1>11, ReadsStep
  <2> QED BY <1>9, <2>1
<1>12. CASE ~ at < Start(j) /\ pc = "skip"
  <2> DEFINE e == Eol(at)
             p == s - 1
  <2>1. at >= Start(j)
    BY <1>4, <1>6, <1>12
  <2>2. e \in Nat /\ e > t
    BY <1>2, <2>1, EolBeyond
  <2>3. e \in at..p
    BY <1>2, EolPlaced
  <2> HIDE DEF e, s, t
  <2>4. e = t + 1 /\ ~ e > Len(input) /\ e + 1 = s
    <3>1. Len(input) \in Nat
      BY DEF ParserTypes, Layout
    <3> QED BY <1>2, <1>4, <1>6, <2>2, <2>3, <3>1
  <2>5. SkipToEol
    BY <1>12 DEF Next, GetWord, GetNumber, GetDelim, Wants, LookupFails, AddValue
  <2>6. at' = s /\ pc' = "fields" /\ spans' = spans
    BY <2>4, <2>5 DEF SkipToEol, e
  <2>7. spans' = <<>> /\ Len(spans') = 0
    <3>1. Len(<<>>) = 0
      OBVIOUS
    <3> QED BY <1>8, <1>12, <2>6, <3>1
  <2>8. at' = Behind(i, 0)'
    BY <1>7, <2>6 DEF s
  <2>9. \A f \in 1..Len(spans') : FALSE
    BY <2>7
  <2> QED BY <1>5, <2>6, <2>7, <2>8, <2>9 DEF Reading
<1>13. ~ at > t + 1
  BY <1>1, <1>2, <1>4, <1>6
<1> QED BY <1>1, <1>8, <1>10, <1>11, <1>12, <1>13 DEF OnGoodLine

\* All of the fields of a good line are on it.
LEMMA FieldsWithin ==
  ASSUME ParserTypes, GoodInFormat, NEW i \in DOMAIN lines, Good(i), NEW f \in 1..12
  PROVE  Within(FieldOf(i, f), i)
<1> DEFINE a == Left(i, f)
           b == Right(i, f)
           s == Start(i)
           t == Stop(i)
<1>1. a \in Nat /\ b \in Nat /\ s <= a /\ a <= b /\ b <= t
  BY FieldPlaced DEF FieldAt
<1>2. s \in Nat /\ t \in Nat
  BY TokenAt
<1>3. FieldOf(i, f) = <<a, b>> \/ FieldOf(i, f) = <<a + 1, b - 1>>
  BY DEF FieldOf
<1>4. <<a, b>>[1] = a /\ <<a, b>>[2] = b /\ <<a + 1, b - 1>>[1] = a + 1
      /\ <<a + 1, b - 1>>[2] = b - 1
  OBVIOUS
<1> HIDE DEF a, b, s, t
<1>5. FieldOf(i, f)[1] >= s /\ FieldOf(i, f)[2] <= t
  BY <1>1, <1>2, <1>3, <1>4
<1> QED BY <1>5 DEF Within, s, t

LEMMA ReadingStep ==
  ASSUME ParserTypes, GoodInFormat, RecoverInv, Next,
         NEW i \in DOMAIN lines, Good(i), Reading(i)
  PROVE  Reading(i)' \/ Done(i)'
<1> DEFINE k == Len(spans)
           g == k + 1
<1>1. /\ pc = "fields" /\ NoRow(i) /\ at = Behind(i, k)
      /\ \A f \in 1..k : spans[f] = FieldOf(i, f)
  BY DEF Reading
<1>2. k \in 0..12
  <2>1. spans \in Seq(Span) /\ k <= 12
    BY FormatFacts DEF ParserTypes, TypeOK, Span
  <2>2. k \in Nat
    BY <2>1, LenProperties
  <2> HIDE DEF k
  <2> QED BY <2>1, <2>2
<1>3. /\ UNCHANGED <<lines, input>>
      /\ Start(i)' = Start(i) /\ Stop(i)' = Stop(i)
      /\ \A f : Behind(i, f)' = Behind(i, f) /\ FieldOf(i, f)' = FieldOf(i, f)
  BY Forward, PlacesKept
<1>4. CASE GetWord \/ GetNumber \/ \E kind \in {"bracketed", "quoted"} : GetDelim(kind)
  <2>1. k < 12
    BY <1>4, FormatFacts DEF GetWord, GetNumber, GetDelim, Wants
  <2>2. g \in 1..12 /\ g - 1 = k
    <3> HIDE DEF k
    <3> QED BY <1>2, <2>1
  <2>3. /\ UNCHANGED <<lines, input, rows, pc>>
        /\ spans' = Append(spans, FieldOf(i, g))
        /\ at' = Behind(i, g)
    <3> HIDE DEF g
    <3> QED BY <1>1, <1>4, <2>2, ReadsNext
  <2>4. /\ Len(spans') = g
        /\ \A f \in 1..k : spans'[f] = spans[f]
        /\ spans'[g] = FieldOf(i, g)
    BY <2>3, AppendFacts
  <2>5. ASSUME NEW f \in 1..g PROVE spans'[f] = FieldOf(i, f)
    <3>1. f \in 1..k \/ f = g
      <4> HIDE DEF k
      <4> QED BY <1>2
    <3> HIDE DEF g, k
    <3> QED BY <1>1, <2>4, <3>1
  <2>6. NoRow(i)'
    BY <1>1, <2>3, RowOf
  <2>7. Behind(i, Len(spans))' = Behind(i, Len(spans'))
    BY <1>3 DEF Behind, Right, Start
  <2> HIDE DEF g, k
  <2>8. at' = Behind(i, Len(spans'))
    BY <2>3, <2>4
  <2>9. \A f \in 1..Len(spans') : spans'[f] = FieldOf(i, f)'
    BY <1>3, <2>4, <2>5
  <2> QED BY <1>1, <2>3, <2>6, <2>7, <2>8, <2>9 DEF Reading
<1>5. ~ LookupFails
  <2> SUFFICES ASSUME LookupFails PROVE FALSE
    OBVIOUS
  <2>1. k = 3 /\ ~ IsAddress(spans[1])
    BY DEF LookupFails
  <2>2. spans[1] = FieldOf(i, 1)
    <3>1. 1 \in 1..k
      <4> HIDE DEF k
      <4> QED BY <2>1
    <3> QED BY <1>1, <3>1
  <2>3. /\ Left(i, 1) = Start(i) /\ Right(i, 1) = Start(i) /\ Start(i) \in Nat
        /\ input[Start(i)] \in {"number", "address"}
    BY FirstPlaced
  <2>4. FieldOf(i, 1) = <<Start(i), Start(i)>>
    BY <2>3 DEF FieldOf, Words
  <2> DEFINE s == Start(i)
  <2>5. <<s, s>>[1] = s /\ <<s, s>>[2] = s /\ ~ s < s
    BY <2>3
  <2> HIDE DEF s
  <2>6. IsAddress(<<s, s>>)
    BY <2>3, <2>5 DEF IsAddress, s
  <2> QED BY <2>1, <2>2, <2>4, <2>6 DEF s
<1>6. CASE AddValue
  <2>1. k = 12 /\ Len(Format) = 12
    BY <1>6, FormatFacts DEF AddValue
  <2>2. \A f \in 1..Len(Format) : Within(spans[f], i)
    <3> HIDE DEF k
    <3> QED BY <1>1, <2>1, FieldsWithin
  <2>3. StoredOnce(i)'
    <3>1. rows \in Seq(Seq(Span))
      BY DEF RecoverInv
    <3> QED BY <1>1, <1>6, <2>2, <3>1, RowAdded
  <2>4. spans' = <<>> /\ pc' = "skip" /\ at' = at /\ ~ Len(spans') > 0
    <3>1. spans' = <<>> /\ pc' = "skip" /\ at' = at /\ Len(<<>>) = 0
      BY <1>6 DEF AddValue
    <3> QED BY <3>1
  <2>5. at >= Start(i)
    <3>1. Behind(i, k) \in Nat /\ Start(i) <= Behind(i, k) /\ Start(i) \in Nat
      <4> HIDE DEF k
      <4> QED BY <1>2, BehindPlaced, TokenAt
    <3> DEFINE c == Behind(i, k)
    <3>2. c \in Nat /\ Start(i) <= c /\ Start(i) \in Nat /\ at = c
      BY <1>1, <3>1
    <3> HIDE DEF c
    <3> QED BY <3>2
  <2> QED BY <1>3, <2>3, <2>4, <2>5 DEF Done
<1>7. ~ SkipToEol
  BY <1>1 DEF SkipToEol
<1> QED BY <1>4, <1>5, <1>6, <1>7 DEF Next

LEMMA DoneStep ==
  ASSUME ParserTypes, GoodInFormat, RecoverInv, Next,
         NEW i \in DOMAIN lines, Good(i), Done(i)
  PROVE  Done(i)'
<1> DEFINE s == Start(i)
           t == Stop(i)
<1>1. UNCHANGED <<lines, input>> /\ at' >= at /\ at \in Nat /\ at' \in Nat
  BY Forward
<1>2. Start(i)' = s /\ Stop(i)' = t
  BY <1>1, PlacesKept
<1>3. s \in Nat /\ t \in Nat /\ s <= t
  BY TokenAt, FirstPlaced
<1>4. /\ StoredOnce(i) /\ at >= s
      /\ pc = "fields" => at > t + 1
      /\ Len(spans) > 0 => spans[1][2] > t
  BY DEF Done
<1>5. at' >= s
  BY <1>1, <1>3, <1>4
<1>6. Done(i)' <=> /\ StoredOnce(i)' /\ at' >= s
                   /\ pc' = "fields" => at' > t + 1
                   /\ Len(spans') > 0 => spans'[1][2] > t
  BY <1>2 DEF Done
<1>7. CASE GetWord \/ GetNumber \/ \E kind \in {"bracketed", "quoted"} : GetDelim(kind)
  <2>1. /\ UNCHANGED rows /\ pc = "fields"
        /\ \/ spans' = <<>>
           \/ \E x : /\ spans' = Append(spans, x) /\ x[2] >= at /\ x[2] \in Nat
    BY <1>7, ReadForward
  <2>2. at > t + 1 /\ at' > t + 1
    BY <1>1, <1>3, <1>4, <2>1
  <2>3. ASSUME Len(spans') > 0 PROVE spans'[1][2] > t
    <3>1. spans' # <<>>
      <4>1. Len(<<>>) = 0
        OBVIOUS
      <4> QED BY <2>3, <4>1
    <3>2. PICK x : spans' = Append(spans, x) /\ x[2] >= at /\ x[2] \in Nat
      BY <2>1, <3>1
    <3> DEFINE k == Len(spans)
    <3>3. /\ k \in Nat /\ \A f \in 1..k : spans'[f] = spans[f]
          /\ spans'[k + 1] = x
      BY <3>2, AppendFacts
    <3>4. CASE k = 0
      <4>1. spans'[1] = x
        <5> HIDE DEF k
        <5> QED BY <3>3, <3>4
      <4>2. x[2] > t
        BY <1>1, <1>3, <2>2, <3>2
      <4> QED BY <4>1, <4>2
    <3>5. CASE k # 0
      <4>1. 1 \in 1..k /\ k > 0
        <5> HIDE DEF k
        <5> QED BY <3>3, <3>5
      <4>2. spans'[1] = spans[1]
        BY <3>3, <4>1
      <4> QED BY <1>4, <4>1, <4>2
    <3> QED BY <3>4, <3>5
  <2>4. StoredOnce(i)'
    BY <1>1, <1>4, <2>1, RowOf
  <2> QED BY <1>5, <1>6, <2>2, <2>3, <2>4
<1>8. CASE LookupFails
  <2>1. spans' = <<>> /\ pc' = "skip" /\ UNCHANGED rows /\ Len(<<>>) = 0
    BY <1>8 DEF LookupFails, Throw
  <2>2. StoredOnce(i)' /\ ~ Len(spans') > 0
    BY <1>1, <1>4, <2>1, RowOf
  <2> QED BY <1>5, <1>6, <2>1, <2>2
<1>9. CASE AddValue
  <2>1. spans' = <<>> /\ pc' = "skip" /\ Len(<<>>) = 0 /\ Len(spans) = 12
    BY <1>9, FormatFacts DEF AddValue
  <2>2. spans[1][2] > t /\ spans[1][2] \in Nat
    BY <1>4, <2>1, FirstSpan
  <2>3. ~ Within(spans[1], i)
    BY <1>3, <2>2 DEF Within
  <2>4. 1 \in 1..Len(Format) /\ rows \in Seq(Seq(Span))
    BY FormatFacts DEF RecoverInv
  <2>5. StoredOnce(i)'
    BY <1>4, <1>9, <2>3, <2>4, RowAdded
  <2>6. ~ Len(spans') > 0
    BY <2>1
  <2> QED BY <1>5, <1>6, <2>1, <2>5, <2>6
<1>10. CASE SkipToEol
  <2> DEFINE e == Eol(at)
  <2>1. e \in Nat /\ e > t
    BY <1>4, EolBeyond
  <2>2. pc = "skip" /\ UNCHANGED rows /\ spans' \in {spans, <<>>}
        /\ (pc' = "eof" \/ at' = e + 1)
    BY <1>10 DEF SkipToEol, Eof
  <2>3. pc = "skip" => spans = <<>>
    BY DEF RecoverInv
  <2>4. ~ Len(spans') > 0
    <3>1. Len(<<>>) = 0 /\ spans' = <<>>
      BY <2>2, <2>3
    <3> QED BY <3>1
  <2> HIDE DEF e
  <2>5. pc' = "fields" => at' > t + 1
    BY <1>3, <2>1, <2>2
  <2>6. StoredOnce(i)'
    BY <1>1, <1>4, <2>2, RowOf
  <2> QED BY <1>5, <1>6, <2>4, <2>5, <2>6
<1> QED BY <1>7, <1>8, <1>9, <1>10 DEF Next

-----------------------------------------------------------------------------
(* Recovery *)

LEMMA RecoverInit == GoodInFormat /\ Init => RecoverInv
<1> SUFFICES ASSUME GoodInFormat, Init PROVE RecoverInv
  OBVIOUS
<1>1. ParserTypes
  BY TypesInit
<1>2. /\ rows = <<>> /\ spans = <<>> /\ at = 1 /\ pc = "fields"
      /\ Len(<<>>) = 0 /\ DOMAIN <<>> = {} /\ <<>> \in Seq(Seq(Span))
  BY DEF Init
<1>3. \A i : NoRow(i)
  BY <1>2 DEF NoRow
<1>4. ~ Len(spans) > 0 /\ Len(spans) = 0 /\ \A f \in 1..Len(spans) : FALSE
  BY <1>2
<1>5. ASSUME NEW i \in DOMAIN lines, Good(i)
      PROVE  OnGoodLine(i) /\ (Ahead(i) \/ Reading(i))
  <2>1. IF i = 1 THEN Start(i) = 1
        ELSE i - 1 \in DOMAIN lines /\ Start(i) = Stop(i - 1) + 2
    BY <1>1 DEF ParserTypes, Layout
  <2>2. CASE i = 1
    <3>1. at = Behind(i, 0)
      BY <1>2, <2>1, <2>2 DEF Behind
    <3>2. Reads(i)
      BY <1>2, <1>4, <3>1 DEF Reads
    <3>3. Reading(i)
      BY <1>2, <1>3, <1>4, <3>1 DEF Reading
    <3> QED BY <3>2, <3>3 DEF OnGoodLine
  <2>3. CASE i # 1
    <3> DEFINE j == i - 1
    <3>1. j \in DOMAIN lines /\ Start(i) = Stop(j) + 2
      BY <2>1, <2>3
    <3> HIDE DEF j
    <3>2. Stop(j) \in Nat
      BY <1>1, <3>1, TokenAt
    <3>3. at < Start(i)
      BY <1>2, <3>1, <3>2
    <3> QED BY <1>2, <1>3, <3>3 DEF OnGoodLine, Ahead
  <2> QED BY <2>2, <2>3
<1> QED BY <1>2, <1>4, <1>5 DEF RecoverInv

\* The parts of the invariant that are not about a line
LEMMA RecoverBesides ==
  ASSUME ParserTypes, RecoverInv, Next
  PROVE  /\ rows' \in Seq(Seq(Span'))
         /\ pc' = "skip" => spans' = <<>>
         /\ Len(spans') > 0 => spans'[1][1] < at'
<1>1. /\ rows \in Seq(Seq(Span))
      /\ pc = "skip" => spans = <<>>
      /\ Len(spans) > 0 => spans[1][1] < at
  BY DEF RecoverInv
<1>2. UNCHANGED <<lines, input>> /\ at' >= at /\ at \in Nat /\ at' \in Nat
  BY Forward
<1>3. Span' = Span
  BY <1>2 DEF Span
<1>4. rows' \in Seq(Seq(Span'))
  <2>1. CASE UNCHANGED rows
    BY <1>1, <1>3, <2>1
  <2>2. CASE AddValue
    <3>1. spans \in Seq(Span) /\ rows' = Append(rows, spans)
      BY <2>2 DEF ParserTypes, TypeOK, Span, AddValue
    <3> HIDE DEF Span
    <3>2. Append(rows, spans) \in Seq(Seq(Span))
      BY <1>1, <3>1, AppendProperties
    <3> QED BY <1>3, <3>1, <3>2
  <2> QED BY <2>1, <2>2, RowsChange
<1>5. Len(<<>>) = 0
  OBVIOUS
<1> HIDE DEF Span
<1>6. CASE spans' = <<>>
  <2>1. ~ Len(spans') > 0
    BY <1>5, <1>6
  <2> QED BY <1>4, <1>6, <2>1
<1>7. CASE GetWord \/ GetNumber \/ \E kind \in {"bracketed", "quoted"} : GetDelim(kind)
  <2>1. CASE spans' # <<>>
    <3>1. PICK x : spans' = Append(spans, x) /\ x[1] < at' /\ x[1] \in Nat /\ pc' = "fields"
      BY <1>7, <2>1, ReadForward
    <3> DEFINE k == Len(spans)
    <3>2. /\ k \in Nat /\ \A f \in 1..k : spans'[f] = spans[f]
          /\ spans'[k + 1] = x
      BY <3>1, AppendFacts
    <3>3. CASE k = 0
      <4>1. spans'[1] = x
        <5> HIDE DEF k
        <5> QED BY <3>2, <3>3
      <4> QED BY <1>4, <3>1, <4>1
    <3>4. CASE k # 0
      <4>1. 1 \in 1..k /\ k > 0
        <5> HIDE DEF k
        <5> QED BY <3>2, <3>4
      <4>2. spans'[1] = spans[1] /\ spans[1][1] < at /\ spans[1][1] \in Nat
        BY <1>1, <3>2, <4>1, FirstSpan
      <4>3. spans'[1][1] < at'
        BY <1>2, <4>2
      <4> QED BY <1>4, <3>1, <4>3
    <3> QED BY <3>3, <3>4
  <2> QED BY <1>6, <2>1
<1>8. CASE LookupFails \/ AddValue
  BY <1>6, <1>8 DEF LookupFails, Throw, AddValue
<1>9. CASE SkipToEol
  BY <1>1, <1>6, <1>9 DEF SkipToEol, Eof
<1> QED BY <1>7, <1>8, <1>9 DEF Next

LEMMA RecoverStep ==
  ASSUME GoodInFormat
  PROVE  ParserTypes /\ RecoverInv /\ [Next]_vars => RecoverInv'
<1> SUFFICES ASSUME ParserTypes, RecoverInv, [Next]_vars PROVE RecoverInv'
  OBVIOUS
<1>1. CASE Next
  <2>1. UNCHANGED <<lines, input>> /\ (pc = "skip" => spans = <<>>)
    BY <1>1, Forward DEF RecoverInv
  <2>2. ASSUME NEW i \in DOMAIN lines, Good(i)
        PROVE  /\ OnGoodLine(i)'
               /\ i = 1 \/ Good(i - 1) => Ahead(i)' \/ Reading(i)' \/ Done(i)'
    <3>1. OnGoodLine(i) /\ (i = 1 \/ Good(i - 1) => Ahead(i) \/ Reading(i) \/ Done(i))
      BY <2>2 DEF RecoverInv
    <3>2. OnGoodLine(i)'
      BY <1>1, <2>1, <2>2, <3>1, OnGoodLineStep
    <3>3. i = 1 \/ Good(i - 1) => Ahead(i)' \/ Reading(i)' \/ Done(i)'
      BY <1>1, <2>2, <3>1, AheadStep, ReadingStep, DoneStep
    <3> QED BY <3>2, <3>3
  <2>3. \A i : Good(i)' = Good(i)
    BY <2>1 DEF Good
  <2> QED BY <1>1, <2>1, <2>2, <2>3, RecoverBesides DEF RecoverInv
<1>2. CASE UNCHANGED vars
  <2>1. UNCHANGED <<lines, input, at, spans, rows, pc>>
    BY <1>2 DEF vars
  <2>2. \A i : /\ Start(i)' = Start(i) /\ Stop(i)' = Stop(i) /\ Good(i)' = Good(i)
               /\ NoRow(i)' = NoRow(i) /\ StoredOnce(i)' = StoredOnce(i)
               /\ \A f : Behind(i, f)' = Behind(i, f) /\ FieldOf(i, f)' = FieldOf(i, f)
    BY <2>1, PlacesKept, RowOf DEF Good
  <2>3. \A i : Behind(i, Len(spans))' = Behind(i, Len(spans))
    BY <2>1 DEF Behind, Right, Start
  <2>4. \A i : OnGoodLine(i)' = OnGoodLine(i)
    BY <2>1, <2>2 DEF OnGoodLine, Reads
  <2>5. \A i : Ahead(i)' = Ahead(i) /\ Reading(i)' = Reading(i) /\ Done(i)' = Done(i)
    BY <2>1, <2>2, <2>3 DEF Ahead, Reading, Done
  <2> QED BY <2>1, <2>2, <2>4, <2>5 DEF RecoverInv, Span
<1> QED BY <1>1, <1>2

(* The parser recovers from anything within a line: whatever stands in the   *)
(* lines before, a good line that is the first, or that follows a good line, *)
(* is stored once by the end.  A malformed line costs itself and one good    *)
(* line at most (access2sql.cc:233-237).                                     *)
THEOREM RecoversFromAnyLine ==
  ASSUME \A l \in GoodLines : \E begins, ends : InFormat(l, begins, ends)
  PROVE  Spec => []Recovers
<1>1. GoodInFormat
  BY DEF GoodInFormat
<1>2. Init => RecoverInv
  BY <1>1, RecoverInit
<1>3. ParserTypes /\ RecoverInv /\ [Next]_vars => RecoverInv'
  BY <1>1, RecoverStep
<1>4. RecoverInv => Recovers
  BY DEF RecoverInv, Recovers, Ahead, Reading, Done
<1> QED BY <1>2, <1>3, <1>4, AlwaysTyped, PTL DEF Spec

=============================================================================
