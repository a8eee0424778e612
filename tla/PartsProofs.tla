------------------------------ MODULE PartsProofs ------------------------------
(***************************************************************************)
(* The small parts: a country answered is that of a range that holds the   *)
(* address, for every file and address; truncation and netmasks are exact  *)
(* at every length, in both families; a log time does not depend on the    *)
(* zone it is written in, for all instants and zones; the reports of a     *)
(* visitor's page count intervals of activity, however long the page stays *)
(* open; and resproxy reports no address that has a neighbouring hit, for  *)
(* every database, window and width of the borders.                        *)
(***************************************************************************)
EXTENDS IntervalTreeProofs, CountryDB, LogTime, AudienceMinutes, ResProxy

-----------------------------------------------------------------------------
(* Numbers of addresses *)

LEMMA PowerSum ==
  ASSUME NEW k \in Nat, NEW d \in Nat
  PROVE  2^(k + d) = 2^k * 2^d
<1> DEFINE S == {j \in 0..d : 2^(k + j) = 2^k * 2^j}
<1>1. 0 \in S
  <2>1. 2^(k + 0) = 2^k * 2^0
    BY PowerBounds, PowerStart
  <2> QED BY <2>1
<1>2. ASSUME NEW j \in 0..(d - 1), j \in S PROVE j + 1 \in S
  <2> DEFINE p == 2^k
             q == 2^j
             u == k + j
             r == 2^u
  <2>1. u \in Nat /\ u + 1 = k + (j + 1) /\ j \in Nat /\ j + 1 \in 0..d
    OBVIOUS
  <2>2. p \in Nat /\ q \in Nat /\ r = p * q
    BY <1>2, <2>1, PowerBounds
  <2>3. 2^(j + 1) = 2 * q /\ 2^(u + 1) = 2 * r
    BY <2>1, Doubles
  <2> HIDE DEF p, q, r, u
  <2>4. 2 * r = p * (2 * q)
    BY <2>2
  <2>5. 2^(k + (j + 1)) = p * 2^(j + 1)
    BY <2>1, <2>3, <2>4
  <2> QED BY <2>1, <2>5 DEF p
<1>3. d \in S
  <2> HIDE DEF S
  <2>1. \A j \in 0..d : j \in S
    BY <1>1, <1>2, SetInduction
  <2> QED BY <2>1
<1> QED BY <1>3

LEMMA PowerMonotone ==
  ASSUME NEW k \in Nat, NEW l \in Nat, k <= l
  PROVE  2^k <= 2^l
<1> DEFINE p == 2^k
           q == 2^l
<1>1. p \in Nat /\ q \in Nat
  BY PowerBounds
<1>2. ~ q < p
  BY PowerOrder
<1> HIDE DEF p, q
<1>3. p <= q
  BY <1>1, <1>2
<1> QED BY <1>3 DEF p, q

\* The numbers that the first bytes write
Upto(s, f) ==
  [n \in DOMAIN f |-> IF n = 0 THEN 0 ELSE f[n - 1] * 2^ByteBits + s[n]]

LEMMA UptoExists ==
  ASSUME NEW s, NEW N \in Nat
  PROVE  \E f : DOMAIN f = 0..N /\ f = Upto(s, f)
<1> DEFINE S == {k \in 0..N : \E f : DOMAIN f = 0..k /\ f = Upto(s, f)}
<1>1. 0 \in S
  <2> DEFINE f == [n \in 0..0 |-> 0]
  <2>1. DOMAIN f = 0..0 /\ f = Upto(s, f)
    BY DEF Upto
  <2> HIDE DEF f
  <2> QED BY <2>1
<1>2. ASSUME NEW k \in 0..(N - 1), k \in S PROVE k + 1 \in S
  <2>1. PICK f : DOMAIN f = 0..k /\ f = Upto(s, f)
    BY <1>2
  <2> DEFINE j == k + 1
             v == f[k] * 2^ByteBits + s[j]
             g == [n \in 0..j |-> IF n = j THEN v ELSE f[n]]
  <2>2. k \in Nat /\ j \in 0..N /\ j - 1 = k /\ j # 0
    OBVIOUS
  <2>3. ASSUME NEW n \in 0..j
        PROVE  g[n] = IF n = 0 THEN 0 ELSE g[n - 1] * 2^ByteBits + s[n]
    <3>1. CASE n = j
      <4>1. k \in 0..j /\ k # j
        BY <2>2
      <4>2. g[j] = v /\ g[k] = f[k]
        BY <2>2, <4>1
      <4>3. n # 0 /\ n - 1 = k
        BY <2>2, <3>1
      <4>4. g[n] = g[k] * 2^ByteBits + s[n]
        <5> HIDE DEF g, j
        <5> QED BY <3>1, <4>2
      <4> HIDE DEF g, j
      <4> QED BY <4>3, <4>4
    <3>2. CASE n # j
      <4>1. n \in 0..k /\ (n # 0 => n - 1 \in 0..k)
        BY <2>2, <3>2
      <4>2. f[n] = IF n = 0 THEN 0 ELSE f[n - 1] * 2^ByteBits + s[n]
        BY <2>1, <4>1 DEF Upto
      <4>3. \A m \in 0..k : g[m] = f[m]
        <5>1. \A m \in 0..k : m \in 0..j /\ m # j
          BY <2>2
        <5> QED BY <5>1
      <4> HIDE DEF g
      <4>4. g[n] = f[n] /\ (n # 0 => g[n - 1] = f[n - 1])
        BY <4>1, <4>3
      <4> QED BY <4>2, <4>4
    <3> QED BY <3>1, <3>2
  <2>4. DOMAIN g = 0..j
    OBVIOUS
  <2>5. g = [n \in 0..j |-> g[n]]
    OBVIOUS
  <2> HIDE DEF g, j
  <2>6. g = Upto(s, g)
    BY <2>3, <2>4, <2>5 DEF Upto
  <2> QED BY <2>2, <2>4, <2>6 DEF j
<1>3. N \in S
  <2> HIDE DEF S
  <2>1. \A k \in 0..N : k \in S
    BY <1>1, <1>2, SetInduction
  <2> QED BY <2>1
<1> QED BY <1>3

\* n bytes write a number of as many times ByteBits bits.
LEMMA UptoBound ==
  ASSUME NEW N \in Nat, NEW s \in [1..N -> Bytes], NEW f,
         DOMAIN f = 0..N, f = Upto(s, f)
  PROVE  \A n \in 0..N : f[n] \in Nat /\ f[n] < 2^(ByteBits * n)
<1> DEFINE S == {n \in 0..N : f[n] \in Nat /\ f[n] < 2^(ByteBits * n)}
<1>0. ByteBits \in Nat
  BY SizesAssumption
<1>1. 0 \in S
  <2>1. ByteBits * 0 = 0 /\ f[0] = 0
    BY <1>0 DEF Upto
  <2>2. 2^(ByteBits * 0) = 1
    BY <2>1, PowerStart
  <2> QED BY <2>1, <2>2
<1>2. ASSUME NEW n \in 0..(N - 1), n \in S PROVE n + 1 \in S
  <2> DEFINE j == n + 1
             b == 2^ByteBits
             u == ByteBits * n
             p == 2^u
             x == f[n]
             y == s[j]
  <2>1. j \in 1..N /\ j \in 0..N /\ j # 0 /\ j - 1 = n /\ n \in Nat
    OBVIOUS
  <2>2. f[j] = x * b + y
    <3>1. f[j] = IF j = 0 THEN 0 ELSE f[j - 1] * 2^ByteBits + s[j]
      BY <2>1 DEF Upto
    <3> HIDE DEF j
    <3> QED BY <2>1, <3>1
  <2>3. u \in Nat /\ ByteBits * j = u + ByteBits
    BY <1>0, <2>1
  <2>4. b \in Nat \ {0} /\ p \in Nat \ {0} /\ 2^(u + ByteBits) = p * b
    <3> HIDE DEF u
    <3>1. u \in Nat
      BY <2>3
    <3>2. b \in Nat \ {0} /\ p \in Nat \ {0}
      BY ONLY <1>0, <3>1, PowerBounds
    <3>3. 2^(u + ByteBits) = p * b
      BY ONLY <1>0, <3>1, PowerSum
    <3> QED BY <3>2, <3>3
  <2>5. x \in Nat /\ x < p
    BY <1>2
  <2>6. y \in Nat /\ y < b
    <3>1. y \in Bytes
      BY <2>1
    <3>2. y \in 0..(b - 1)
      BY <3>1 DEF Bytes
    <3> HIDE DEF b, y
    <3> QED BY <2>4, <3>2
  <2> HIDE DEF b, p, x, y, u
  <2>7. x * b + y \in Nat /\ x * b + y < p * b
    <3>1. x + 1 <= p /\ (x + 1) * b = x * b + b /\ x * b \in Nat /\ p * b \in Nat
      BY <2>4, <2>5
    <3>2. (x + 1) * b <= p * b
      BY <2>4, <2>5, <3>1
    <3> QED BY <2>4, <2>6, <3>1, <3>2
  <2>8. f[j] \in Nat /\ f[j] < 2^(ByteBits * j)
    <3> HIDE DEF j
    <3> QED BY <2>2, <2>3, <2>4, <2>7
  <2> QED BY <2>1, <2>8
<1>3. \A n \in 0..N : n \in S
  <2> HIDE DEF S
  <2> QED BY <1>1, <1>2, SetInduction
<1> QED BY <1>3

\* Number is the last of the numbers that its first bytes write.
LEMMA NumberUpto ==
  ASSUME NEW N \in Nat, NEW s \in [1..N -> Bytes]
  PROVE  \E f : DOMAIN f = 0..N /\ f = Upto(s, f) /\ Number(s) = f[N]
<1> DEFINE f == CHOOSE f : f = [n \in 0..Len(s) |->
                  IF n = 0 THEN 0 ELSE f[n - 1] * 2^ByteBits + s[n]]
<1>1. s \in Seq(Bytes) /\ Len(s) = N
  <2>1. s \in Seq(Bytes)
    BY SeqDef
  <2> QED BY <2>1, LenProperties
<1>2. PICK g : DOMAIN g = 0..N /\ g = Upto(s, g)
  BY UptoExists
<1>3. g = [n \in 0..Len(s) |-> IF n = 0 THEN 0 ELSE g[n - 1] * 2^ByteBits + s[n]]
  BY <1>1, <1>2 DEF Upto
<1>4. f = [n \in 0..Len(s) |-> IF n = 0 THEN 0 ELSE f[n - 1] * 2^ByteBits + s[n]]
  BY <1>3, Zenon
<1>5. Number(s) = f[Len(s)]
  BY DEF Number
<1> HIDE DEF f
<1>6. DOMAIN f = 0..N /\ f = Upto(s, f)
  <2>1. DOMAIN f = 0..N
    BY <1>1, <1>4
  <2> QED BY <1>1, <1>4, <2>1 DEF Upto
<1> QED BY <1>1, <1>5, <1>6

LEMMA NumberBound ==
  ASSUME NEW N \in Nat, NEW s \in [1..N -> Bytes]
  PROVE  Number(s) \in Nat /\ Number(s) < 2^(ByteBits * N)
<1>1. PICK f : DOMAIN f = 0..N /\ f = Upto(s, f) /\ Number(s) = f[N]
  BY NumberUpto
<1>2. N \in 0..N
  OBVIOUS
<1> QED BY <1>1, <1>2, UptoBound

-----------------------------------------------------------------------------
(* Bits of addresses *)

LEMMA Quotient ==
  ASSUME NEW d \in Nat \ {0}, NEW q \in Nat, NEW r \in Nat, r < d
  PROVE  (q * d + r) \div d = q /\ (q * d + r) % d = r
<1> DEFINE x == q * d + r
           k == x \div d
           m == x % d
<1>1. q * d \in Nat /\ x \in Nat
  OBVIOUS
<1>2. k \in Nat /\ m \in Nat /\ m < d /\ x = k * d + m
  <2> HIDE DEF x
  <2> QED BY <1>1
<1>3. x = q * d + r
  OBVIOUS
<1> HIDE DEF x, k, m
<1>4. (q - k) * d = m - r
  <2>1. (q - k) * d = q * d - k * d
    BY <1>2
  <2>2. k * d \in Nat
    BY <1>2
  <2> QED BY <1>1, <1>2, <1>3, <2>1, <2>2
<1>5. q = k
  <2>1. q > k => (q - k) * d >= d
    BY <1>2
  <2>2. q < k => (k - q) * d >= d
    BY <1>2
  <2>3. (k - q) * d = - ((q - k) * d)
    BY <1>2
  <2> QED BY <1>2, <1>4, <2>1, <2>2, <2>3
<1>6. m = r
  BY <1>2, <1>3, <1>5, <1>1
<1> QED BY <1>5, <1>6 DEF x, k, m

\* What k bytes behind the first n add to the number that those write
Ending(s, f, n, k, t) ==
  /\ f[n + k] = f[n] * 2^(ByteBits * k) + t
  /\ t < 2^(ByteBits * k)
  /\ (\A m \in (n + 1)..(n + k) : s[m] = 0) => t = 0

LEMMA UptoTail ==
  ASSUME NEW N \in Nat, NEW s \in [1..N -> Bytes], NEW f,
         DOMAIN f = 0..N, f = Upto(s, f), NEW n \in 0..N
  PROVE  \A k \in 0..(N - n) : \E t \in Nat : Ending(s, f, n, k, t)
<1> USE DEF Ending
<1> DEFINE Holds(k, t) == Ending(s, f, n, k, t)
           S == {k \in 0..(N - n) : \E t \in Nat : Holds(k, t)}
<1>0. ByteBits \in Nat /\ f[n] \in Nat
  BY SizesAssumption, UptoBound
<1>1. 0 \in S
  <2>1. ByteBits * 0 = 0 /\ n + 0 = n /\ 0 \in 0..(N - n) /\ 2^(ByteBits * 0) = 1
    <3>1. ByteBits * 0 = 0 /\ n + 0 = n /\ 0 \in 0..(N - n)
      BY <1>0
    <3> QED BY <3>1, PowerStart
  <2>2. Holds(0, 0)
    BY <1>0, <2>1
  <2> HIDE DEF Holds
  <2> QED BY <2>1, <2>2
<1>2. ASSUME NEW k \in 0..((N - n) - 1), k \in S PROVE k + 1 \in S
  <2>1. PICK t \in Nat : Holds(k, t)
    BY <1>2
  <2> DEFINE j == n + k + 1
             b == 2^ByteBits
             u == ByteBits * k
             p == 2^u
             x == f[n]
             y == s[j]
             v == t * b + y
  <2>2. /\ j \in 1..N /\ j \in 0..N /\ j # 0 /\ j - 1 = n + k /\ n + (k + 1) = j
        /\ k \in Nat /\ k + 1 \in 0..(N - n) /\ j \in (n + 1)..(n + (k + 1))
        /\ (n + 1)..(n + k) \subseteq (n + 1)..(n + (k + 1))
    OBVIOUS
  <2>3. f[j] = f[n + k] * b + y
    <3>1. f[j] = IF j = 0 THEN 0 ELSE f[j - 1] * 2^ByteBits + s[j]
      BY <2>2 DEF Upto
    <3> HIDE DEF j
    <3> QED BY <2>2, <3>1
  <2>4. u \in Nat /\ ByteBits * (k + 1) = u + ByteBits
    BY <1>0, <2>2
  <2>5. b \in Nat \ {0} /\ p \in Nat \ {0} /\ 2^(u + ByteBits) = p * b
    <3> HIDE DEF u
    <3>1. u \in Nat
      BY <2>4
    <3>2. b \in Nat \ {0} /\ p \in Nat \ {0}
      BY ONLY <1>0, <3>1, PowerBounds
    <3>3. 2^(u + ByteBits) = p * b
      BY ONLY <1>0, <3>1, PowerSum
    <3> QED BY <3>2, <3>3
  <2>6. f[n + k] = x * p + t /\ t < p
    BY <2>1
  <2>7. y \in Nat /\ y < b
    <3>1. y \in Bytes
      BY <2>2
    <3>2. y \in 0..(b - 1)
      BY <3>1 DEF Bytes
    <3> HIDE DEF b, y
    <3> QED BY <2>5, <3>2
  <2>8. x \in Nat
    BY <1>0
  <2>9. (\A m \in (n + 1)..j : s[m] = 0) => v = 0
    <3> SUFFICES ASSUME \A m \in (n + 1)..j : s[m] = 0 PROVE v = 0
      OBVIOUS
    <3>1. t = 0
      BY <2>1, <2>2
    <3>2. y = 0
      BY <2>2
    <3> HIDE DEF b, y
    <3> QED BY <2>5, <3>1, <3>2
  <2>10. v \in Nat /\ v < p * b /\ f[j] = x * (p * b) + v
    <3> HIDE DEF b, p, x, y, u, j
    <3>1. t + 1 <= p /\ (t + 1) * b = t * b + b /\ t * b \in Nat /\ p * b \in Nat
      BY <2>5, <2>6
    <3>2. (t + 1) * b <= p * b
      BY <2>5, <2>6, <3>1
    <3>3. (x * p + t) * b = x * (p * b) + t * b
      BY <2>5, <2>8
    <3>4. f[j] = x * (p * b) + t * b + y
      BY <2>3, <2>6, <3>3
    <3>5. x * (p * b) \in Nat
      BY <2>8, <3>1
    <3> QED BY <2>5, <2>7, <3>1, <3>2, <3>4, <3>5 DEF v
  <2>11. Holds(k + 1, v)
    <3> HIDE DEF b, p, x, y, u, j, v
    <3>1. 2^(ByteBits * (k + 1)) = p * b
      BY <2>4, <2>5
    <3>2. (\A m \in (n + 1)..(n + (k + 1)) : s[m] = 0) => v = 0
      BY <2>2, <2>9
    <3> QED BY <2>2, <2>10, <3>1, <3>2 DEF x
  <2> HIDE DEF Holds, v
  <2> QED BY <2>2, <2>10, <2>11
<1>3. \A k \in 0..(N - n) : k \in S
  <2> HIDE DEF S
  <2>1. N - n \in Nat
    OBVIOUS
  <2> QED BY <1>1, <1>2, <2>1, SetInduction
<1> QED BY <1>3

\* The bits of the next byte behind d bits that are wanted of it
Rest(s, n, d) == IF d = 0 THEN 0 ELSE s[n + 1] \div 2^(ByteBits - d)

LEMMA ByteSplit ==
  ASSUME NEW y \in Bytes, NEW d \in 1..(ByteBits - 1)
  PROVE  LET c == 2^(ByteBits - d) IN
         /\ c \in Nat \ {0} /\ 2^d \in Nat \ {0} /\ 2^ByteBits = 2^d * c
         /\ y \div c \in Nat /\ y \div c < 2^d
         /\ y % c \in Nat /\ y % c < c /\ y \in Nat /\ y = (y \div c) * c + (y % c)
<1> DEFINE c == 2^(ByteBits - d)
           p == 2^d
           b == 2^ByteBits
           q == y \div c
<1>1. ByteBits \in Nat /\ d \in Nat /\ ByteBits - d \in Nat /\ d + (ByteBits - d) = ByteBits
  BY SizesAssumption
<1>2. c \in Nat \ {0} /\ p \in Nat \ {0}
  BY <1>1, PowerBounds
<1>3. b = p * c
  BY <1>1, PowerSum
<1>4. y \in Nat /\ y < b
  <2>1. b \in Nat /\ y \in 0..(b - 1)
    BY <1>1, PowerBounds DEF Bytes
  <2> HIDE DEF b
  <2> QED BY <2>1
<1> HIDE DEF c, p, b
<1>5. q \in Nat /\ y % c \in Nat /\ y % c < c /\ y = q * c + (y % c)
  BY <1>2, <1>4
<1>6. q < p
  <2> HIDE DEF q
  <2>1. q >= p => q * c >= p * c
    <3>1. q >= p => (q - p) * c >= 0 /\ (q - p) * c = q * c - p * c
      BY <1>2, <1>5
    <3>2. q * c \in Nat /\ p * c \in Nat
      BY <1>2, <1>5
    <3> QED BY <3>1, <3>2
  <2>2. q * c \in Nat /\ p * c \in Nat
    BY <1>2, <1>5
  <2>3. q * c < p * c
    BY <1>3, <1>4, <1>5, <2>2
  <2> QED BY <1>2, <1>5, <2>1, <2>2, <2>3
<1> QED BY <1>2, <1>3, <1>4, <1>5, <1>6 DEF c, p, b

\* A number without the bits behind a prefix of n bytes and d bits, and what
\* those bits write if they are all 0
PrefixRight(N, s, f, n, d) ==
  LET w == 2^(ByteBits * N - (ByteBits * n + d)) IN
  /\ w \in Nat \ {0}
  /\ f[N] \div w = f[n] * 2^d + Rest(s, n, d)
  /\ (/\ d # 0 => s[n + 1] % 2^(ByteBits - d) = 0
      /\ \A m \in 1..N : m > (IF d = 0 THEN n ELSE n + 1) => s[m] = 0)
     => f[N] % w = 0

LEMMA NumberPrefix ==
  ASSUME NEW N \in Nat, NEW s \in [1..N -> Bytes], NEW f,
         DOMAIN f = 0..N, f = Upto(s, f), NEW n \in 0..N, NEW d \in 0..(ByteBits - 1),
         d # 0 => n < N
  PROVE  PrefixRight(N, s, f, n, d)
<1> USE DEF PrefixRight
<1> DEFINE e == ByteBits * N - (ByteBits * n + d)
           w == 2^e
           Clear == /\ d # 0 => s[n + 1] % 2^(ByteBits - d) = 0
                    /\ \A m \in 1..N : m > (IF d = 0 THEN n ELSE n + 1) => s[m] = 0
<1>0. ByteBits \in Nat \ {0} /\ f[n] \in Nat /\ n \in Nat /\ d \in Nat
  <2>1. ByteBits \in Nat \ {0}
    BY SizesAssumption
  <2> QED BY <2>1, UptoBound
<1>1. CASE d = 0
  <2> DEFINE k == N - n
  <2>1. k \in 0..(N - n) /\ n + k = N /\ ByteBits * k = e /\ e \in Nat
    <3>1. k \in Nat /\ ByteBits * k = ByteBits * N - ByteBits * n
      BY <1>0
    <3>2. ByteBits * k \in Nat
      BY <1>0, <3>1
    <3> QED BY <1>0, <1>1, <3>1, <3>2
  <2>2. w \in Nat \ {0}
    <3> HIDE DEF e
    <3> QED BY <2>1, PowerBounds
  <2>3. PICK t \in Nat : /\ f[N] = f[n] * w + t /\ t < w
                         /\ (\A m \in (n + 1)..N : s[m] = 0) => t = 0
    <3> HIDE DEF e, k
    <3>1. PICK t \in Nat : Ending(s, f, n, k, t)
      BY <2>1, UptoTail
    <3> QED BY <2>1, <3>1 DEF Ending
  <2>4. Clear => \A m \in (n + 1)..N : s[m] = 0
    BY <1>0, <1>1
  <2>5. f[n] * 2^d + Rest(s, n, d) = f[n]
    <3>1. 2^d = 1
      BY <1>1, PowerStart
    <3> QED BY <1>0, <1>1, <3>1 DEF Rest
  <2> HIDE DEF w, Clear
  <2>6. f[N] \div w = f[n] /\ f[N] % w = t
    <3>1. (f[n] * w + t) \div w = f[n] /\ (f[n] * w + t) % w = t
      BY <1>0, <2>2, <2>3, Quotient
    <3> QED BY <2>3, <3>1
  <2>7. Clear => f[N] % w = 0
    BY <2>3, <2>4, <2>6
  <2> QED BY <2>2, <2>5, <2>6, <2>7 DEF w, Clear
<1>2. CASE d # 0
  <2> DEFINE j == n + 1
             k == N - j
             v == ByteBits * k
             p == 2^v
             c == 2^(ByteBits - d)
             b == 2^ByteBits
             g == 2^d
             y == s[j]
             x == f[n]
             q == y \div c
             r == y % c
             h == x * g + q
  <2>1. /\ j \in 0..N /\ j \in 1..N /\ j # 0 /\ j - 1 = n /\ k \in 0..(N - j) /\ j + k = N
        /\ v \in Nat /\ e = (ByteBits - d) + v /\ ByteBits - d \in Nat
        /\ d \in 1..(ByteBits - 1)
    <3>1. j \in 1..N /\ k \in Nat
      BY <1>0, <1>2
    <3>2. v = ByteBits * N - (ByteBits * n + ByteBits) /\ v \in Nat
      BY <1>0, <3>1
    <3>3. e = (ByteBits - d) + v
      <4> HIDE DEF v
      <4>1. ByteBits * N \in Int /\ ByteBits * n \in Int
        BY <1>0
      <4> QED BY <1>0, <3>2, <4>1
    <3> HIDE DEF e, v
    <3> QED BY <1>0, <1>2, <3>1, <3>2, <3>3
  <2>2. /\ c \in Nat \ {0} /\ g \in Nat \ {0} /\ b = g * c
        /\ q \in Nat /\ r \in Nat /\ r < c /\ y = q * c + r
    <3>1. y \in Bytes
      BY <2>1
    <3>2. ASSUME NEW z \in Bytes
          PROVE  /\ c \in Nat \ {0} /\ g \in Nat \ {0} /\ b = g * c
                 /\ z \div c \in Nat /\ z % c \in Nat /\ z % c < c
                 /\ z = (z \div c) * c + (z % c)
      <4>1. d \in 1..(ByteBits - 1)
        BY <2>1
      <4> QED BY ONLY <4>1, z \in Bytes, ByteSplit
    <3> HIDE DEF y, c, g, b
    <3> QED BY <3>1, <3>2
  <2>3. p \in Nat \ {0} /\ w = c * p
    <3> HIDE DEF v, e
    <3>1. w = 2^((ByteBits - d) + v)
      BY <2>1
    <3> QED BY <2>1, <3>1, PowerBounds, PowerSum
  <2>4. f[j] = x * b + y
    <3>1. f[j] = IF j = 0 THEN 0 ELSE f[j - 1] * 2^ByteBits + s[j]
      BY <2>1 DEF Upto
    <3> HIDE DEF j
    <3> QED BY <2>1, <3>1
  <2>5. PICK t \in Nat : /\ f[N] = f[j] * p + t /\ t < p
                         /\ (\A m \in (j + 1)..N : s[m] = 0) => t = 0
    <3> HIDE DEF j, k
    <3>1. PICK t \in Nat : Ending(s, f, j, k, t)
      BY <2>1, UptoTail
    <3> QED BY <2>1, <3>1 DEF Ending
  <2>6. Clear => r = 0 /\ \A m \in (j + 1)..N : s[m] = 0
    BY <1>0, <1>2
  <2>7. h = f[n] * 2^d + Rest(s, n, d)
    BY <1>2 DEF Rest
  <2>8. x \in Nat
    BY <1>0
  <2> HIDE DEF w, Clear, p, c, b, g, y, x, q, r, j, v, k
  <2>9. h \in Nat /\ f[j] = h * c + r
    <3>1. x * b = (x * g) * c /\ x * g \in Nat /\ (x * g) * c \in Nat
      BY <2>2, <2>8
    <3>2. h * c = (x * g) * c + q * c /\ q * c \in Nat
      BY <2>2, <3>1
    <3> QED BY <2>2, <2>4, <3>1, <3>2
  <2> HIDE DEF h
  <2>10. /\ w \in Nat \ {0} /\ f[N] = h * w + (r * p + t)
         /\ r * p + t \in Nat /\ r * p + t < w
    <3>1. w \in Nat \ {0}
      BY <2>2, <2>3
    <3>2. (h * c + r) * p = h * (c * p) + r * p /\ r * p \in Nat /\ h * (c * p) \in Nat
      BY <2>2, <2>3, <2>9
    <3>3. (r + 1) * p = r * p + p /\ (r + 1) * p <= c * p
      <4>1. (c - (r + 1)) * p >= 0 /\ (c - (r + 1)) * p = c * p - (r + 1) * p
        BY <2>2, <2>3
      <4>2. (r + 1) * p = r * p + p /\ (r + 1) * p \in Nat /\ c * p \in Nat
        BY <2>2, <2>3
      <4> QED BY <4>1, <4>2
    <3>4. f[N] = h * w + r * p + t
      BY <2>3, <2>5, <2>9, <3>2
    <3>5. h * w \in Nat
      BY <2>9, <3>1
    <3> QED BY <2>3, <2>5, <3>1, <3>2, <3>3, <3>4, <3>5
  <2>11. f[N] \div w = h /\ f[N] % w = r * p + t
    <3> DEFINE u == r * p + t
    <3>1. u \in Nat /\ u < w /\ f[N] = h * w + u
      BY <2>10
    <3> HIDE DEF u
    <3>2. (h * w + u) \div w = h /\ (h * w + u) % w = u
      BY <2>9, <2>10, <3>1, Quotient
    <3> QED BY <3>1, <3>2 DEF u
  <2>12. Clear => f[N] % w = 0
    <3>1. 0 * p + 0 = 0
      BY <2>3
    <3> QED BY <2>5, <2>6, <2>11, <3>1
  <2> QED BY <2>7, <2>10, <2>11, <2>12 DEF w, Clear
<1> QED BY <1>1, <1>2

Joined(q, d, r) == q * d + r

SameBytes(s, u, n) == \A m \in 1..n : s[m] = u[m]

LEMMA UniqueParts ==
  ASSUME NEW d \in Nat \ {0}, NEW q \in Nat, NEW r \in Nat, r < d,
         NEW k \in Nat, NEW l \in Nat, l < d
  PROVE  Joined(q, d, r) = Joined(k, d, l) <=> q = k /\ r = l
<1>1. (q * d + r) \div d = q /\ (q * d + r) % d = r
  BY Quotient
<1>2. (k * d + l) \div d = k /\ (k * d + l) % d = l
  BY Quotient
<1> DEFINE x == q * d + r
           y == k * d + l
<1>3. x = y => q = k /\ r = l
  <2>1. x \div d = q /\ x % d = r /\ y \div d = k /\ y % d = l
    BY <1>1, <1>2
  <2> HIDE DEF x, y
  <2> QED BY <2>1
<1>4. q = k /\ r = l => x = y
  OBVIOUS
<1> QED BY <1>3, <1>4 DEF Joined

\* Numbers are equal when their bytes are.
LEMMA UptoEqual ==
  ASSUME NEW N \in Nat, NEW s \in [1..N -> Bytes], NEW f, DOMAIN f = 0..N, f = Upto(s, f),
         NEW u \in [1..N -> Bytes], NEW g, DOMAIN g = 0..N, g = Upto(u, g)
  PROVE  \A n \in 0..N : f[n] = g[n] <=> SameBytes(s, u, n)
<1> USE DEF SameBytes
<1> DEFINE S == {n \in 0..N : f[n] = g[n] <=> \A m \in 1..n : s[m] = u[m]}
           b == 2^ByteBits
<1>0. b \in Nat \ {0} /\ Bytes = 0..(b - 1)
  <2>1. ByteBits \in Nat
    BY SizesAssumption
  <2>2. b \in Nat \ {0}
    BY <2>1, PowerBounds
  <2> QED BY <2>2 DEF Bytes
<1>1. 0 \in S
  <2>1. f[0] = 0 /\ g[0] = 0
    BY DEF Upto
  <2> QED BY <2>1
<1>2. ASSUME NEW n \in 0..(N - 1), n \in S PROVE n + 1 \in S
  <2> DEFINE j == n + 1
  <2>1. j \in 1..N /\ j \in 0..N /\ j # 0 /\ j - 1 = n /\ n \in 0..N /\ 1..j = (1..n) \cup {j}
    OBVIOUS
  <2>2. f[j] = f[n] * b + s[j] /\ g[j] = g[n] * b + u[j]
    <3>1. f[j] = IF j = 0 THEN 0 ELSE f[j - 1] * 2^ByteBits + s[j]
      BY <2>1 DEF Upto
    <3>2. g[j] = IF j = 0 THEN 0 ELSE g[j - 1] * 2^ByteBits + u[j]
      BY <2>1 DEF Upto
    <3> HIDE DEF j
    <3> QED BY <2>1, <3>1, <3>2
  <2>3. f[n] \in Nat /\ g[n] \in Nat
    BY <2>1, UptoBound
  <2>4. s[j] \in Nat /\ s[j] < b /\ u[j] \in Nat /\ u[j] < b
    <3>1. s[j] \in Bytes /\ u[j] \in Bytes
      BY <2>1
    <3> HIDE DEF b
    <3> QED BY <1>0, <3>1
  <2>5. f[j] = g[j] <=> f[n] = g[n] /\ s[j] = u[j]
    <3> HIDE DEF b, j
    <3>1. f[j] = Joined(f[n], b, s[j]) /\ g[j] = Joined(g[n], b, u[j])
      BY <2>2 DEF Joined
    <3> QED BY <1>0, <2>3, <2>4, <3>1, UniqueParts
  <2>6. f[n] = g[n] <=> \A m \in 1..n : s[m] = u[m]
    BY <1>2
  <2> HIDE DEF j
  <2>7. f[j] = g[j] <=> \A m \in 1..j : s[m] = u[m]
    BY <2>1, <2>5, <2>6
  <2> QED BY <2>1, <2>7 DEF j
<1>3. \A n \in 0..N : n \in S
  <2> HIDE DEF S
  <2> QED BY <1>1, <1>2, SetInduction
<1> QED BY <1>3

\* Numbers have the same prefix when their bytes do, and the bits behind.
LEMMA SamePrefix ==
  ASSUME NEW N \in Nat, NEW s \in [1..N -> Bytes], NEW f, DOMAIN f = 0..N, f = Upto(s, f),
         NEW u \in [1..N -> Bytes], NEW g, DOMAIN g = 0..N, g = Upto(u, g),
         NEW n \in 0..N, NEW d \in 0..(ByteBits - 1), d # 0 => n < N
  PROVE  f[n] * 2^d + Rest(s, n, d) = g[n] * 2^d + Rest(u, n, d) <=>
           SameBytes(s, u, n) /\ Rest(s, n, d) = Rest(u, n, d)
<1> DEFINE p == 2^d
           y == Rest(s, n, d)
           z == Rest(u, n, d)
<1>1. p \in Nat \ {0}
  BY PowerBounds
<1>2. y \in Nat /\ y < p /\ z \in Nat /\ z < p
  <2>1. CASE d = 0
    <3>1. y = 0 /\ z = 0
      BY <2>1 DEF Rest
    <3> HIDE DEF p, y, z
    <3> QED BY <1>1, <3>1
  <2>2. CASE d # 0
    <3>1. n + 1 \in 1..N /\ d \in 1..(ByteBits - 1)
      BY <2>2, SizesAssumption
    <3>2. s[n + 1] \in Bytes /\ u[n + 1] \in Bytes
      BY <3>1
    <3>3. ASSUME NEW x \in Bytes
          PROVE  x \div 2^(ByteBits - d) \in Nat /\ x \div 2^(ByteBits - d) < p
      BY <3>1, ByteSplit
    <3> QED BY <2>2, <3>2, <3>3 DEF Rest
  <2> QED BY <2>1, <2>2
<1>3. f[n] \in Nat /\ g[n] \in Nat
  BY UptoBound
<1>4. f[n] = g[n] <=> SameBytes(s, u, n)
  BY UptoEqual
<1>5. f[n] * p + y = g[n] * p + z <=> f[n] = g[n] /\ y = z
  <2> HIDE DEF p, y, z
  <2>1. Joined(f[n], p, y) = Joined(g[n], p, z) <=> f[n] = g[n] /\ y = z
    BY <1>1, <1>2, <1>3, UniqueParts
  <2> QED BY <2>1 DEF Joined
<1> QED BY <1>4, <1>5

\* What is left of a number without its low bits
LEMMA Cleared ==
  ASSUME NEW x \in Nat, NEW b \in Nat
  PROVE  /\ ClearLow(x, b) = (x \div 2^b) * 2^b
         /\ ClearLow(x, b) \in 0..x
         /\ ClearLow(x, b) % 2^b = 0 /\ ClearLow(x, b) \div 2^b = x \div 2^b
<1> DEFINE p == 2^b
           q == x \div p
           r == x % p
<1>1. p \in Nat \ {0}
  BY PowerBounds
<1>2. q \in Nat /\ r \in Nat /\ r < p /\ x = q * p + r
  <2> HIDE DEF p
  <2> QED BY <1>1
<1>3. ClearLow(x, b) = x - r
  BY DEF ClearLow
<1> HIDE DEF p, q, r
<1>4. q * p \in Nat /\ ClearLow(x, b) = q * p /\ q * p <= x /\ q * p = q * p + 0
  BY <1>1, <1>2, <1>3
<1>5. (q * p + 0) \div p = q /\ (q * p + 0) % p = 0
  BY <1>1, <1>2, Quotient
<1>6. /\ ClearLow(x, b) = q * p /\ ClearLow(x, b) \in 0..x
      /\ ClearLow(x, b) % p = 0 /\ ClearLow(x, b) \div p = q
  <2> DEFINE y == q * p
  <2>1. y + 0 = y /\ y \in 0..x /\ ClearLow(x, b) = y
    BY <1>2, <1>4
  <2>2. (y + 0) \div p = q /\ (y + 0) % p = 0
    BY <1>5
  <2> HIDE DEF y
  <2>3. y \div p = q /\ y % p = 0
    BY <2>1, <2>2
  <2> QED BY <2>1, <2>3 DEF y
<1> QED BY <1>6 DEF p, q

LEMMA SameCleared ==
  ASSUME NEW x \in Nat, NEW y \in Nat, NEW b \in Nat
  PROVE  ClearLow(x, b) = ClearLow(y, b) <=> x \div 2^b = y \div 2^b
BY Cleared

LEMMA ClearedByte ==
  ASSUME NEW x \in Bytes, NEW b \in Nat
  PROVE  ClearLow(x, b) \in Bytes
<1> DEFINE p == 2^ByteBits
<1>1. p \in Nat /\ Bytes = 0..(p - 1)
  BY SizesAssumption, PowerBounds DEF Bytes
<1> HIDE DEF p
<1>2. x \in Nat
  BY <1>1
<1>3. ClearLow(x, b) \in 0..x
  BY <1>2, Cleared
<1> QED BY <1>1, <1>3

-----------------------------------------------------------------------------
(* Truncation *)

AddrLen(c) == IF c.family = INET THEN V4Len ELSE V6Len

Typed(c) ==
  /\ c \in [family : {INET, INET6}, port : Nat,
            addr : [1..V4Len -> Bytes] \cup [1..V6Len -> Bytes]]
  /\ c.addr \in [1..AddrLen(c) -> Bytes]

\* b bits of N bytes are n whole ones and d bits of one more.
Splits(N, b, n, d) ==
  /\ n \in 0..N /\ d \in 0..(ByteBits - 1) /\ (d # 0 => n < N)
  /\ b = ByteBits * n + d

LEMMA BitsSplit ==
  ASSUME NEW N \in Nat, NEW b \in 0..(ByteBits * N)
  PROVE  Splits(N, b, b \div ByteBits, b % ByteBits)
<1> DEFINE n == b \div ByteBits
           d == b % ByteBits
<1>1. ByteBits \in Nat \ {0} /\ b \in Nat /\ ByteBits * N \in Nat /\ b <= ByteBits * N
  BY SizesAssumption
<1>2. n \in Nat /\ d \in 0..(ByteBits - 1) /\ b = ByteBits * n + d
  BY <1>1
<1> HIDE DEF n, d
<1>3. n > N => ByteBits * n > ByteBits * N
  BY <1>1, <1>2
<1>4. ByteBits * n \in Nat
  BY <1>1, <1>2
<1>5. n = N => d = 0 /\ b = ByteBits * N
  BY <1>1, <1>2, <1>4
<1>6. n <= N
  BY <1>1, <1>2, <1>3, <1>4
<1>7. Splits(N, b, n, d)
  BY <1>1, <1>2, <1>5, <1>6 DEF Splits
<1> QED BY <1>7 DEF n, d

\* The number of bits that are cleared, in bytes and bits
LEMMA ClearedSplit ==
  ASSUME NEW N \in Nat, NEW n \in 0..N, NEW d \in 0..(ByteBits - 1), d # 0 => n < N
  PROVE  LET z == ByteBits * N - (ByteBits * n + d) IN
         /\ z \div ByteBits = IF d = 0 THEN N - n ELSE N - (n + 1)
         /\ z % ByteBits = IF d = 0 THEN 0 ELSE ByteBits - d
<1> DEFINE z == ByteBits * N - (ByteBits * n + d)
           k == IF d = 0 THEN N - n ELSE N - (n + 1)
           r == IF d = 0 THEN 0 ELSE ByteBits - d
<1>1. ByteBits \in Nat \ {0}
  BY SizesAssumption
<1>2. k \in Nat /\ r \in Nat /\ r < ByteBits
  BY <1>1
<1>3. z = k * ByteBits + r
  BY <1>1
<1> HIDE DEF z, k, r
<1>4. (k * ByteBits + r) \div ByteBits = k /\ (k * ByteBits + r) % ByteBits = r
  BY <1>1, <1>2, Quotient
<1> QED BY <1>3, <1>4 DEF z, k, r

LEMMA TypedBits ==
  ASSUME NEW c, Typed(c)
  PROVE  /\ AddrLen(c) \in Nat \ {0} /\ BitLen(c) = ByteBits * AddrLen(c)
         /\ BitLen(c) \in Nat \ {0}
         /\ Len(c.addr) = AddrLen(c) /\ c.port \in Nat /\ c.family \in {INET, INET6}
<1>1. c.family \in {INET, INET6} /\ c.port \in Nat
  BY DEF Typed
<1>2. AddrLen(c) \in Nat \ {0} /\ ByteBits \in Nat \ {0}
  BY SizesAssumption DEF AddrLen
<1>3. BitLen(c) = ByteBits * AddrLen(c)
  BY <1>2, SizesAssumption DEF BitLen, AddrLen
<1>4. Len(c.addr) = AddrLen(c)
  <2>1. c.addr \in Seq(Bytes) /\ c.addr \in [1..AddrLen(c) -> Bytes]
    BY <1>2, SeqDef DEF Typed
  <2> QED BY <1>2, <2>1, LenProperties
<1>5. BitLen(c) \in Nat \ {0}
  BY <1>2, <1>3
<1> QED BY <1>1, <1>2, <1>3, <1>4, <1>5

\* Every byte of a truncated address, and that nothing else changes
TruncatedCells(c, b, n, d) ==
  /\ Typed(Truncated(c, b))
  /\ Truncated(c, b).family = c.family /\ Truncated(c, b).port = c.port
  /\ \A m \in 1..AddrLen(c) :
       Truncated(c, b).addr[m] =
         IF m <= n THEN c.addr[m]
         ELSE IF m = n + 1 /\ d # 0 THEN ClearLow(c.addr[m], ByteBits - d)
         ELSE 0

LEMMA ClearNone == ASSUME NEW x \in Nat PROVE ClearLow(x, 0) = x
<1>1. 2^0 = 1
  BY PowerStart
<1>2. x % 1 = 0
  OBVIOUS
<1> QED BY <1>1, <1>2 DEF ClearLow

LEMMA TruncatedRight ==
  ASSUME NEW c, Typed(c), NEW b \in 0..(BitLen(c) - 1)
  PROVE  TruncatedCells(c, b, b \div ByteBits, b % ByteBits)
<1> DEFINE N == AddrLen(c)
           n == b \div ByteBits
           d == b % ByteBits
           z == BitLen(c) - b
           whole == z \div ByteBits
           place == N - whole
           old == IF place = 0 THEN c.port ELSE c.addr[place]
           rest == ClearRest(old, z % ByteBits)
           T == [family |-> c.family,
                 port   |-> IF place = 0 /\ c.family = INET THEN rest ELSE c.port,
                 addr   |-> [m \in 1..N |-> IF m > place THEN 0
                                            ELSE IF m = place THEN rest ELSE c.addr[m]]]
<1>1. /\ N \in Nat \ {0} /\ BitLen(c) = ByteBits * N /\ BitLen(c) \in Nat \ {0}
      /\ Len(c.addr) = N /\ c.port \in Nat
      /\ c.family \in {INET, INET6} /\ c.addr \in [1..N -> Bytes]
  BY TypedBits DEF Typed
<1>2. Truncated(c, b) = T
  <2>1. ~ b >= BitLen(c)
    BY <1>1
  <2> QED BY <1>1, <2>1 DEF Truncated
<1>3. n \in 0..N /\ d \in 0..(ByteBits - 1) /\ (d # 0 => n < N) /\ b = ByteBits * n + d
  <2>1. b \in 0..(ByteBits * N)
    BY <1>1
  <2>2. Splits(N, b, b \div ByteBits, b % ByteBits)
    <3> HIDE DEF N
    <3> QED BY <1>1, <2>1, BitsSplit
  <2> QED BY <2>2 DEF Splits
<1>4. /\ whole = IF d = 0 THEN N - n ELSE N - (n + 1)
      /\ z % ByteBits = IF d = 0 THEN 0 ELSE ByteBits - d
  <2>1. z = ByteBits * N - (ByteBits * n + d)
    BY <1>1, <1>3
  <2> HIDE DEF N, n, d, z
  <2> QED BY <1>1, <1>3, <2>1, ClearedSplit
<1> HIDE DEF N, n, d, z, whole
<1>5. place = IF d = 0 THEN n ELSE n + 1
  BY <1>1, <1>3, <1>4
<1> HIDE DEF place
<1>6. /\ d = 0 => rest = old
      /\ d # 0 => place \in 1..N /\ rest = ClearLow(c.addr[n + 1], ByteBits - d)
  <2>1. place \in 0..N
    BY <1>1, <1>3, <1>5
  <2>2. Bytes \subseteq Nat
    BY DEF Bytes
  <2>3. old \in Nat
    <3>1. CASE place = 0
      BY <1>1, <3>1
    <3>2. CASE place \in 1..N
      <4>1. c.addr[place] \in Bytes /\ place # 0
        BY <1>1, <3>2
      <4> QED BY <2>2, <4>1
    <3> QED BY <1>1, <2>1, <3>1, <3>2
  <2> HIDE DEF old
  <2>4. d = 0 => rest = old
    BY <1>4, <2>3, ClearNone DEF ClearRest
  <2>5. d # 0 => place = n + 1 /\ place # 0 /\ place \in 1..N
    BY <1>1, <1>3, <1>5
  <2>6. d # 0 => rest = ClearLow(c.addr[n + 1], ByteBits - d)
    BY <1>4, <2>5 DEF ClearRest, old
  <2> QED BY <2>4, <2>5, <2>6
<1> HIDE DEF rest
<1>7. \A m \in 1..N : T.addr[m] = IF m <= n THEN c.addr[m]
                                  ELSE IF m = n + 1 /\ d # 0
                                       THEN ClearLow(c.addr[m], ByteBits - d) ELSE 0
  <2> SUFFICES ASSUME NEW m \in 1..N
               PROVE  T.addr[m] = IF m <= n THEN c.addr[m]
                                  ELSE IF m = n + 1 /\ d # 0
                                       THEN ClearLow(c.addr[m], ByteBits - d) ELSE 0
    OBVIOUS
  <2>1. T.addr[m] = IF m > place THEN 0 ELSE IF m = place THEN rest ELSE c.addr[m]
    OBVIOUS
  <2>2. place = m => old = c.addr[m]
    BY <1>1
  <2> HIDE DEF old, T
  <2>3. CASE d = 0
    BY <1>1, <1>3, <1>5, <1>6, <2>1, <2>2, <2>3
  <2>4. CASE d # 0
    BY <1>1, <1>3, <1>5, <1>6, <2>1, <2>4
  <2> QED BY <2>3, <2>4
<1>8. T.family = c.family /\ T.port = c.port
  <2>1. place = 0 => d = 0
    BY <1>3, <1>5
  <2> QED BY <1>6, <2>1
<1>9. \A m \in 1..N : T.addr[m] \in Bytes
  <2>1. 0 \in Bytes
    <3>1. 2^ByteBits \in Nat \ {0}
      BY SizesAssumption, PowerBounds
    <3> QED BY <3>1 DEF Bytes
  <2>2. d # 0 => ByteBits - d \in Nat
    BY <1>3, SizesAssumption
  <2> SUFFICES ASSUME NEW m \in 1..N PROVE T.addr[m] \in Bytes
    OBVIOUS
  <2>3. c.addr[m] \in Bytes
    BY <1>1
  <2>4. d # 0 => ClearLow(c.addr[m], ByteBits - d) \in Bytes
    BY <2>2, <2>3, ClearedByte
  <2> HIDE DEF T
  <2> QED BY <1>7, <2>1, <2>3, <2>4
<1>10. Typed(T)
  <2>1. T.addr \in [1..N -> Bytes] /\ AddrLen(T) = N
    <3>1. T.addr = [m \in 1..N |-> T.addr[m]]
      OBVIOUS
    <3>2. AddrLen(T) = AddrLen(c)
      BY <1>8 DEF AddrLen
    <3> HIDE DEF T
    <3> QED BY <1>9, <3>1, <3>2 DEF N
  <2>2. [1..N -> Bytes] \subseteq [1..V4Len -> Bytes] \cup [1..V6Len -> Bytes]
    BY DEF N, AddrLen
  <2>3. T = [family |-> T.family, port |-> T.port, addr |-> T.addr]
    OBVIOUS
  <2> HIDE DEF T
  <2> QED BY <1>1, <1>8, <2>1, <2>2, <2>3 DEF Typed
<1> HIDE DEF T
<1> QED BY <1>2, <1>7, <1>8, <1>10 DEF TruncatedCells, N, n, d

\* The first bits of an address, as a number
LEMMA AddressPrefix ==
  ASSUME NEW c, Typed(c), NEW b \in 0..BitLen(c)
  PROVE  LET w == 2^(BitLen(c) - b)
             n == b \div ByteBits
             d == b % ByteBits
         IN /\ w \in Nat \ {0} /\ Number(c.addr) \in Nat
            /\ (/\ d # 0 => c.addr[n + 1] % 2^(ByteBits - d) = 0
                /\ \A m \in 1..AddrLen(c) : m > (IF d = 0 THEN n ELSE n + 1) => c.addr[m] = 0)
               => Number(c.addr) % w = 0
            /\ \A e : Typed(e) /\ e.family = c.family =>
                 (Number(c.addr) \div w = Number(e.addr) \div w <=>
                    SameBytes(c.addr, e.addr, n) /\ Rest(c.addr, n, d) = Rest(e.addr, n, d))
<1> DEFINE N == AddrLen(c)
           n == b \div ByteBits
           d == b % ByteBits
           w == 2^(BitLen(c) - b)
           s == c.addr
<1>1. N \in Nat \ {0} /\ BitLen(c) = ByteBits * N /\ s \in [1..N -> Bytes]
  BY TypedBits DEF Typed
<1>2. n \in 0..N /\ d \in 0..(ByteBits - 1) /\ (d # 0 => n < N) /\ b = ByteBits * n + d
  <2>1. b \in 0..(ByteBits * N)
    BY <1>1
  <2>2. Splits(N, b, b \div ByteBits, b % ByteBits)
    <3> HIDE DEF N
    <3> QED BY <1>1, <2>1, BitsSplit
  <2> QED BY <2>2 DEF Splits
<1>3. w = 2^(ByteBits * N - (ByteBits * n + d))
  BY <1>1, <1>2
<1> HIDE DEF N, n, d, w, s
<1>4. PICK f : DOMAIN f = 0..N /\ f = Upto(s, f) /\ Number(s) = f[N]
  BY <1>1, NumberUpto
<1>5. /\ w \in Nat \ {0}
      /\ f[N] \div w = f[n] * 2^d + Rest(s, n, d)
      /\ (/\ d # 0 => s[n + 1] % 2^(ByteBits - d) = 0
          /\ \A m \in 1..N : m > (IF d = 0 THEN n ELSE n + 1) => s[m] = 0)
         => f[N] % w = 0
  <2>1. PrefixRight(N, s, f, n, d)
    BY <1>1, <1>2, <1>4, NumberPrefix
  <2> QED BY <1>3, <2>1 DEF PrefixRight
<1>6. ASSUME NEW e, Typed(e), e.family = c.family
      PROVE  Number(s) \div w = Number(e.addr) \div w <=>
               SameBytes(s, e.addr, n) /\ Rest(s, n, d) = Rest(e.addr, n, d)
  <2> DEFINE u == e.addr
  <2>1. u \in [1..N -> Bytes]
    BY <1>6 DEF Typed, AddrLen, N
  <2> HIDE DEF u
  <2>2. PICK g : DOMAIN g = 0..N /\ g = Upto(u, g) /\ Number(u) = g[N]
    BY <1>1, <2>1, NumberUpto
  <2>3. g[N] \div w = g[n] * 2^d + Rest(u, n, d)
    <3>1. PrefixRight(N, u, g, n, d)
      BY <1>1, <1>2, <2>1, <2>2, NumberPrefix
    <3> QED BY <1>3, <3>1 DEF PrefixRight
  <2>4. f[n] * 2^d + Rest(s, n, d) = g[n] * 2^d + Rest(u, n, d) <=>
          SameBytes(s, u, n) /\ Rest(s, n, d) = Rest(u, n, d)
    BY <1>1, <1>2, <1>4, <2>1, <2>2, SamePrefix
  <2> QED BY <1>4, <1>5, <2>2, <2>3, <2>4 DEF u
<1>7. Number(s) \in Nat
  BY <1>1, NumberBound
<1> QED BY <1>4, <1>5, <1>6, <1>7 DEF N, n, d, w, s

LEMMA TruncatedNumber ==
  ASSUME NEW c, Typed(c), NEW b \in 0..(BitLen(c) - 1)
  PROVE  LET w == 2^(BitLen(c) - b) IN
         /\ Number(Truncated(c, b).addr) \div w = Number(c.addr) \div w
         /\ Number(Truncated(c, b).addr) % w = 0
<1> DEFINE n == b \div ByteBits
           d == b % ByteBits
           w == 2^(BitLen(c) - b)
           T == Truncated(c, b)
           N == AddrLen(c)
<1>1. TruncatedCells(c, b, n, d)
  BY TruncatedRight
<1>2. N \in Nat \ {0} /\ BitLen(c) = ByteBits * N /\ b \in 0..BitLen(c)
  BY TypedBits
<1>3. n \in 0..N /\ d \in 0..(ByteBits - 1) /\ (d # 0 => n < N)
  <2>1. Splits(N, b, b \div ByteBits, b % ByteBits)
    <3> HIDE DEF N
    <3> QED BY <1>2, BitsSplit
  <2> QED BY <2>1 DEF Splits
<1>4. /\ Typed(T) /\ T.family = c.family /\ AddrLen(T) = N /\ BitLen(T) = BitLen(c)
      /\ \A m \in 1..N : T.addr[m] = IF m <= n THEN c.addr[m]
                                     ELSE IF m = n + 1 /\ d # 0
                                          THEN ClearLow(c.addr[m], ByteBits - d) ELSE 0
  BY <1>1 DEF TruncatedCells, AddrLen, BitLen
<1>5. SameBytes(c.addr, T.addr, n)
  <2> HIDE DEF T, N, n, d
  <2> QED BY <1>2, <1>3, <1>4 DEF SameBytes
<1>6. d # 0 => /\ T.addr[n + 1] % 2^(ByteBits - d) = 0
               /\ T.addr[n + 1] \div 2^(ByteBits - d) = c.addr[n + 1] \div 2^(ByteBits - d)
  <2> SUFFICES ASSUME d # 0
               PROVE  /\ T.addr[n + 1] % 2^(ByteBits - d) = 0
                      /\ T.addr[n + 1] \div 2^(ByteBits - d)
                           = c.addr[n + 1] \div 2^(ByteBits - d)
    OBVIOUS
  <2>1. n + 1 \in 1..N /\ ~ n + 1 <= n /\ ByteBits - d \in Nat
    BY <1>2, <1>3, SizesAssumption
  <2>2. c.addr[n + 1] \in Nat
    <3>1. c.addr[n + 1] \in Bytes
      BY <2>1 DEF Typed
    <3> QED BY <3>1 DEF Bytes
  <2> HIDE DEF T, N, n, d
  <2>3. T.addr[n + 1] = ClearLow(c.addr[n + 1], ByteBits - d)
    BY <1>4, <2>1
  <2> QED BY <2>1, <2>2, <2>3, Cleared
<1>7. Rest(c.addr, n, d) = Rest(T.addr, n, d)
  BY <1>6 DEF Rest
<1>8. \A m \in 1..N : m > (IF d = 0 THEN n ELSE n + 1) => T.addr[m] = 0
  <2> HIDE DEF T, N, n, d
  <2> QED BY <1>2, <1>3, <1>4
<1>9. Number(c.addr) \div w = Number(T.addr) \div w
  <2> HIDE DEF T
  <2> QED BY <1>2, <1>4, <1>5, <1>7, AddressPrefix
<1>10. Number(T.addr) % w = 0
  <2> HIDE DEF T
  <2> QED BY <1>2, <1>4, <1>6, <1>8, AddressPrefix
<1> QED BY <1>9, <1>10

-----------------------------------------------------------------------------
(* Addresses and netmasks in a program's hands *)

MaskTyped(m) ==
  \/ m = NoMask
  \/ /\ Typed(m.network) /\ m.bits \in 0..(ByteBits * V6Len)
     /\ m.network.family = INET => m.low = MaskLow(m.bits)

AddressInv == Typed(ca) /\ MaskTyped(nm)

\* A host with a port is an address.
LEMMA ComboTyped == ASSUME NEW h \in Hosts, NEW p \in Nat PROVE Typed(Combo(h, p))
<1>1. V4Len \in Nat /\ V6Len \in Nat
  BY SizesAssumption
<1> QED BY <1>1, HostsAssumption DEF Typed, Combo, AddrLen, INET, INET6

LEMMA MappedTyped ==
  ASSUME NEW c, Typed(c), IsMappedIPv4(c)
  PROVE  Typed(MappedToIPv4(c))
<1> DEFINE u == SubSeq(c.addr, V6Len - V4Len + 1, V6Len)
<1>1. V4Len \in Nat \ {0} /\ V6Len \in Nat \ {0} /\ V4Len <= V6Len
  BY SizesAssumption
<1>2. c.addr \in [1..V6Len -> Bytes] /\ c.port \in Nat
  BY DEF Typed, IsMappedIPv4, AddrLen, INET, INET6
<1>3. \A i \in (V6Len - V4Len + 1)..V6Len : c.addr[i] \in Bytes
  BY <1>1, <1>2
<1>4. u \in Seq(Bytes) /\ Len(u) = V4Len
  <2>1. V6Len - V4Len + 1 \in Int /\ V6Len \in Int /\ V6Len - V4Len + 1 <= V6Len
    BY <1>1
  <2>2. /\ u \in Seq(Bytes)
        /\ Len(u) = IF V6Len - V4Len + 1 <= V6Len THEN V6Len - (V6Len - V4Len + 1) + 1 ELSE 0
    BY <1>3, <2>1, SubSeqProperties
  <2> HIDE DEF u
  <2> QED BY <1>1, <2>1, <2>2
<1>5. u \in [1..V4Len -> Bytes]
  <2> HIDE DEF u
  <2> QED BY <1>4, LenProperties
<1> HIDE DEF u
<1>6. MappedToIPv4(c) = [family |-> INET, port |-> c.port, addr |-> u]
  BY DEF MappedToIPv4, u
<1> QED BY <1>2, <1>5, <1>6 DEF Typed, AddrLen, INET, INET6

LEMMA AddressInitInv == AddressInit => AddressInv
<1> SUFFICES ASSUME AddressInit PROVE AddressInv
  OBVIOUS
<1> DEFINE u == [n \in 1..V4Len |-> 0]
<1>1. u \in [1..V4Len -> Bytes]
  <2>1. 2^ByteBits \in Nat \ {0}
    BY SizesAssumption, PowerBounds
  <2>2. 0 \in Bytes
    BY <2>1 DEF Bytes
  <2> QED BY <2>2
<1>2. ca = [family |-> INET, port |-> 0, addr |-> u]
  BY DEF AddressInit, Combo
<1> HIDE DEF u
<1>3. Typed(ca)
  BY <1>1, <1>2 DEF Typed, AddrLen, INET, INET6
<1> QED BY <1>3 DEF AddressInit, AddressInv, MaskTyped

LEMMA ParsedTyped ==
  ASSUME NEW t \in Texts, NEW p \in PortNumbers, Converts(t)
  PROVE  Typed(Parsed(t, p))
<1>1. t.host \in Hosts
  BY DEF Texts, Converts, AcceptsV4, AcceptsV6, IsV4, Junk, INET, INET6
<1>2. t.port \in Int /\ p \in Nat /\ IntMod \in Nat \ {0}
  BY PortsAssumption, SizesAssumption DEF Texts, PortNumbers
<1>3. ToInt(t.port) \in Int
  <2> DEFINE half == IntMod \div 2
  <2>1. half \in Int
    BY <1>2
  <2> HIDE DEF half
  <2>2. (t.port + half) % IntMod \in Int
    BY <1>2, <2>1
  <2> QED BY <2>1, <2>2 DEF ToInt, half
<1>4. PortGiven(t, p) \in Nat
  BY <1>2, <1>3 DEF PortGiven, TextPort
<1> QED BY <1>1, <1>4, ComboTyped DEF Parsed

LEMMA TruncatedTyped ==
  ASSUME NEW c, Typed(c), NEW b \in Nat
  PROVE  Typed(Truncated(c, b))
<1>1. BitLen(c) \in Nat \ {0}
  BY TypedBits
<1>2. CASE b >= BitLen(c)
  BY <1>1, <1>2 DEF Truncated
<1>3. CASE b < BitLen(c)
  BY <1>1, <1>3, TruncatedRight DEF TruncatedCells
<1> QED BY <1>1, <1>2, <1>3

LEMMA MasksTyped ==
  ASSUME NEW c, Typed(c), NEW b \in 0..(BitsMod - 1)
  PROVE  /\ MaskTyped(MaskOf(c, b)) /\ MaskTyped(MaskFromAddress(c))
         /\ b <= V6Len * ByteBits => MaskTyped(MaskFromText(c, b))
<1> DEFINE v == V4Len * ByteBits
           w == V6Len * ByteBits
<1>1. /\ BitsMod \in Nat \ {0} /\ v \in Nat \ {0} /\ w \in Nat \ {0}
      /\ w < BitsMod /\ v <= w /\ ByteBits * V6Len = w
  <2>1. V4Len \in Nat \ {0} /\ V6Len \in Nat \ {0} /\ ByteBits \in Nat \ {0} /\ V4Len <= V6Len
    BY SizesAssumption
  <2>2. (V6Len - V4Len) * ByteBits >= 0 /\ (V6Len - V4Len) * ByteBits = w - v
    BY <2>1
  <2>3. v \in Nat \ {0} /\ w \in Nat \ {0} /\ ByteBits * V6Len = w
    BY <2>1
  <2> HIDE DEF v, w
  <2>4. v <= w
    BY <2>2, <2>3
  <2> QED BY <2>3, <2>4, SizesAssumption DEF w
<1>2. BitLen(c) \in 0..w /\ (c.family = INET => BitLen(c) = v)
  <2> HIDE DEF v, w
  <2>1. BitLen(c) = v \/ BitLen(c) = w
    BY DEF BitLen, v, w
  <2> QED BY <1>1, <2>1 DEF BitLen, v
<1>3. Typed([c EXCEPT !.port = 0]) /\ [c EXCEPT !.port = 0].family = c.family
  <2> DEFINE e == [c EXCEPT !.port = 0]
  <2>1. e = [family |-> c.family, port |-> 0, addr |-> c.addr]
    BY DEF Typed
  <2> HIDE DEF e
  <2>2. Typed(e) /\ e.family = c.family
    BY <2>1 DEF Typed, AddrLen
  <2> QED BY <2>2 DEF e
<1>4. MaskTyped(MaskOf(c, b))
  <2> DEFINE used == IF b > w THEN BitLen(c) ELSE b
             m == MaskOf(c, b)
  <2>1. m.network = [c EXCEPT !.port = 0] /\ m.bits = used /\ m.low = MaskLow(used)
    BY DEF MaskOf
  <2> HIDE DEF m, w
  <2>2. used \in 0..w
    BY <1>1, <1>2
  <2> HIDE DEF used
  <2>3. MaskTyped(m)
    BY <1>1, <1>3, <2>1, <2>2 DEF MaskTyped
  <2> QED BY <2>3 DEF m
<1>5. MaskTyped(MaskFromAddress(c))
  <2> DEFINE m == MaskFromAddress(c)
  <2>1. m.network = c /\ m.bits = BitLen(c) /\ (c.family = INET => m.low = 0)
    BY DEF MaskFromAddress
  <2> HIDE DEF m, w
  <2>2. c.family = INET => MaskLow(BitLen(c)) = 0
    BY <1>1, <1>2 DEF MaskLow, v
  <2>3. MaskTyped(m)
    BY <1>1, <1>2, <2>1, <2>2 DEF MaskTyped
  <2> QED BY <2>3 DEF m
<1>6. ASSUME b <= w PROVE MaskTyped(MaskFromText(c, b))
  <2> DEFINE m == MaskFromText(c, b)
  <2>1. b % BitsMod = b
    <3>1. 0 * BitsMod + b = b /\ b \in Nat /\ b < BitsMod
      BY <1>1
    <3>2. (0 * BitsMod + b) % BitsMod = b
      BY <1>1, <3>1, Quotient
    <3> QED BY <3>1, <3>2
  <2>2. m.network = c /\ m.bits = b /\ m.low = MaskLow(b)
    BY <2>1 DEF MaskFromText
  <2> HIDE DEF m, w
  <2>3. b \in 0..w
    BY <1>1, <1>6
  <2>4. MaskTyped(m)
    BY <1>1, <2>2, <2>3 DEF MaskTyped
  <2> QED BY <2>4 DEF m
<1> QED BY <1>4, <1>5, <1>6

LEMMA AddressStepInv == AddressInv /\ [AddressNext]_addressVars => AddressInv'
<1> SUFFICES ASSUME AddressInv, [AddressNext]_addressVars PROVE AddressInv'
  OBVIOUS
<1>1. ASSUME NEW t \in Texts, NEW p \in PortNumbers, Construct(t, p) PROVE AddressInv'
  <2>1. ca' = Parsed(t, p) /\ nm' = nm /\ Typed(Parsed(t, p))
    BY <1>1, ParsedTyped DEF Construct
  <2> QED BY <2>1 DEF AddressInv
<1>2. ASSUME NEW p \in PortNumbers, SetPort(p) PROVE AddressInv'
  <2>1. p \in Nat
    BY SizesAssumption DEF PortNumbers
  <2>2. ca' = [family |-> ca.family, port |-> p, addr |-> ca.addr] /\ nm' = nm
    BY <1>2 DEF SetPort, AddressInv, Typed
  <2>3. Typed(ca')
    BY <2>1, <2>2 DEF AddressInv, Typed, AddrLen
  <2> QED BY <2>2, <2>3 DEF AddressInv
<1>3. ASSUME NEW b \in 0..BitsMod, Truncate(b) PROVE AddressInv'
  <2>1. ca' = Truncated(ca, b) /\ nm' = nm /\ b \in Nat
    BY <1>3 DEF Truncate
  <2>2. Typed(Truncated(ca, b))
    BY <2>1, TruncatedTyped DEF AddressInv
  <2> QED BY <2>1, <2>2 DEF AddressInv
<1>4. ASSUME MapToIPv4 PROVE AddressInv'
  <2>1. ca' = MappedToIPv4(ca) /\ nm' = nm /\ Typed(MappedToIPv4(ca))
    BY <1>4, MappedTyped DEF MapToIPv4, AddressInv
  <2> QED BY <2>1 DEF AddressInv
<1>5. ASSUME NEW b \in 0..(BitsMod - 1), Mask(b) PROVE AddressInv'
  <2>1. /\ MaskTyped(MaskOf(ca, b)) /\ MaskTyped(MaskFromAddress(ca))
        /\ b <= V6Len * ByteBits => MaskTyped(MaskFromText(ca, b))
    BY MasksTyped DEF AddressInv
  <2>2. ca' = ca /\ MaskTyped(nm')
    BY <1>5, <2>1 DEF Mask
  <2> QED BY <2>2 DEF AddressInv
<1>6. CASE UNCHANGED addressVars
  BY <1>6 DEF addressVars, AddressInv
<1> QED BY <1>1, <1>2, <1>3, <1>4, <1>5, <1>6 DEF AddressNext

LEMMA AlwaysAddresses == AddressSpec => []AddressInv
BY AddressInitInv, AddressStepInv, PTL DEF AddressSpec

(* Of every address that can be constructed, truncate clears the bits behind  *)
(* the prefix and no other, at every length and of both families, also where  *)
(* it writes the byte in front of the address; at the end of the address and  *)
(* beyond it changes nothing (comboaddress.cc:3-30).                          *)
THEOREM TruncatesExactly == AddressSpec => []TruncateExact
<1>1. ASSUME AddressInv, NEW b \in 0..BitsMod
      PROVE  LET t == Truncated(ca, b)
             IN /\ Prefix(t, b) = Prefix(ca, b)
                /\ Number(t.addr) % 2^Cut(ca, b) = 0
                /\ t.family = ca.family /\ t.port = ca.port
  <2> DEFINE T == Truncated(ca, b)
             l == BitLen(ca)
             w == 2^(l - b)
  <2>1. Typed(ca) /\ l \in Nat \ {0} /\ b \in Nat
    BY <1>1, TypedBits, SizesAssumption DEF AddressInv
  <2>2. CASE b < l
    <3>1. b \in 0..(l - 1)
      BY <2>1, <2>2
    <3>2. T.family = ca.family /\ T.port = ca.port
      BY <2>1, <3>1, TruncatedRight DEF TruncatedCells
    <3>3. Number(T.addr) \div w = Number(ca.addr) \div w /\ Number(T.addr) % w = 0
      BY <2>1, <3>1, TruncatedNumber
    <3>4. BitLen(T) = l
      BY <3>2 DEF BitLen
    <3> HIDE DEF T
    <3>5. Cut(T, b) = l - b /\ Cut(ca, b) = l - b
      BY <2>1, <2>2, <3>4 DEF Cut
    <3> HIDE DEF l
    <3>6. Prefix(T, b) = Number(T.addr) \div w /\ Prefix(ca, b) = Number(ca.addr) \div w
      BY <3>5 DEF Prefix
    <3> QED BY <3>2, <3>3, <3>5, <3>6 DEF T
  <2>3. CASE b >= l
    <3>1. T = ca
      BY <2>3 DEF Truncated
    <3>2. Cut(ca, b) = 0
      BY <2>1, <2>3 DEF Cut
    <3>3. Number(ca.addr) \in Nat
      <4>1. ca.addr \in [1..AddrLen(ca) -> Bytes] /\ AddrLen(ca) \in Nat
        BY <2>1, TypedBits DEF Typed
      <4> QED BY <4>1, NumberBound
    <3>4. Number(ca.addr) % 2^0 = 0
      BY <3>3, PowerStart
    <3> QED BY <3>1, <3>2, <3>4
  <2> QED BY <2>1, <2>2, <2>3
<1>2. AddressInv => TruncateExact
  BY <1>1 DEF TruncateExact
<1> QED BY <1>2, AlwaysAddresses, PTL

\* A number has the bytes that it is written with.
LEMMA NumberBytes ==
  ASSUME NEW N \in Nat, NEW s \in [1..N -> Bytes], NEW n \in 1..N
  PROVE  (Number(s) \div 2^(ByteBits * (N - n))) % 2^ByteBits = s[n]
<1> DEFINE b == 2^ByteBits
           w == 2^(ByteBits * (N - n))
           k == n - 1
<1>1. PICK f : DOMAIN f = 0..N /\ f = Upto(s, f) /\ Number(s) = f[N]
  BY NumberUpto
<1>2. /\ ByteBits \in Nat \ {0} /\ n \in 0..N /\ k \in 0..N /\ n # 0 /\ 0 \in 0..(ByteBits - 1)
      /\ ByteBits * N - (ByteBits * n + 0) = ByteBits * (N - n)
  BY SizesAssumption
<1>3. f[N] \div w = f[n]
  <2>1. PrefixRight(N, s, f, n, 0)
    BY <1>1, <1>2, NumberPrefix
  <2>2. f[N] \div w = f[n] * 2^0 + Rest(s, n, 0)
    BY <1>2, <2>1 DEF PrefixRight
  <2>3. f[n] \in Nat
    BY <1>1, <1>2, UptoBound
  <2>4. f[n] * 2^0 + Rest(s, n, 0) = f[n]
    <3>1. 2^0 = 1
      BY PowerStart
    <3> QED BY <2>3, <3>1 DEF Rest
  <2> QED BY <2>2, <2>4
<1>4. f[n] = f[k] * b + s[n]
  <2>1. f[n] = IF n = 0 THEN 0 ELSE f[n - 1] * 2^ByteBits + s[n]
    BY <1>1, <1>2 DEF Upto
  <2> QED BY <1>2, <2>1
<1>5. b \in Nat \ {0} /\ f[k] \in Nat
  BY <1>1, <1>2, PowerBounds, UptoBound
<1>6. s[n] \in Nat /\ s[n] < b
  <2>1. s[n] \in Bytes
    OBVIOUS
  <2>2. s[n] \in 0..(b - 1)
    BY <2>1 DEF Bytes
  <2> HIDE DEF b
  <2> QED BY <1>5, <2>2
<1> HIDE DEF b, w, k
<1>7. (f[k] * b + s[n]) % b = s[n]
  BY <1>5, <1>6, Quotient
<1> QED BY <1>1, <1>3, <1>4, <1>7 DEF b, w

\* The mask of an IPv4 network clears what is not in its prefix.
LEMMA MaskClears ==
  ASSUME NEW c, Typed(c), c.family = INET, NEW b \in 0..(ByteBits * V6Len)
  PROVE  /\ MaskLow(b) \in Nat
         /\ Prefix(c, b) = Number(c.addr) \div 2^MaskLow(b)
         /\ b >= BitLen(c) => MaskLow(b) = 0
         /\ b < BitLen(c) => MaskLow(b) = BitLen(c) - b
<1>1. BitLen(c) \in Nat /\ BitLen(c) = V4Len * ByteBits /\ b \in Nat
  <2>1. ByteBits * V6Len \in Nat
    BY SizesAssumption
  <2> QED BY <2>1, TypedBits DEF BitLen
<1>2. MaskLow(b) = IF b < BitLen(c) THEN BitLen(c) - b ELSE 0
  BY <1>1 DEF MaskLow
<1>3. MaskLow(b) = IF b > BitLen(c) THEN 0 ELSE BitLen(c) - b
  BY <1>1, <1>2
<1>4. Prefix(c, b) = Number(c.addr) \div 2^MaskLow(b)
  BY <1>3 DEF Prefix, Cut
<1>5. MaskLow(b) \in Nat
  BY <1>1, <1>2
<1> QED BY <1>1, <1>2, <1>4, <1>5

LEMMA MatchesPrefix ==
  ASSUME NEW m, MaskTyped(m), NEW c, Typed(c)
  PROVE  Matches(m, c) <=> /\ m.network.family = c.family
                           /\ Prefix(m.network, m.bits) = Prefix(c, m.bits)
<1>1. c.family \in {INET, INET6}
  BY TypedBits
<1>2. CASE m.network.family # c.family
  BY <1>2 DEF Matches
<1>3. CASE m.network.family = c.family
  <2> DEFINE e == m.network
             b == m.bits
  <2>1. /\ Typed(e) /\ e.family = c.family /\ b \in 0..(ByteBits * V6Len)
        /\ e.family = INET => m.low = MaskLow(b)
    BY <1>1, <1>3 DEF MaskTyped, NoMask, Combo, Junk, INET, INET6
  <2>2. CASE c.family = INET
    <3> DEFINE x == Number(e.addr)
               y == Number(c.addr)
    <3>1. Matches(m, c) <=> ClearLow(x, m.low) = ClearLow(y, m.low)
      BY <1>3, <2>2 DEF Matches, INET, INET6
    <3>2. x \in Nat /\ y \in Nat
      <4>1. e.addr \in [1..V4Len -> Bytes] /\ c.addr \in [1..V4Len -> Bytes] /\ V4Len \in Nat
        BY <2>1, <2>2, SizesAssumption DEF Typed, AddrLen
      <4> HIDE DEF e
      <4> QED BY <4>1, NumberBound
    <3> HIDE DEF e, b, x, y
    <3>3. /\ m.low = MaskLow(b) /\ MaskLow(b) \in Nat
          /\ Prefix(e, b) = x \div 2^MaskLow(b) /\ Prefix(c, b) = y \div 2^MaskLow(b)
      BY <2>1, <2>2, MaskClears DEF x, y
    <3>4. ClearLow(x, m.low) = ClearLow(y, m.low) <=> x \div 2^m.low = y \div 2^m.low
      BY <3>2, <3>3, SameCleared
    <3> QED BY <2>1, <3>1, <3>3, <3>4 DEF e, b
  <2>3. CASE c.family = INET6
    <3> DEFINE n == b \div ByteBits
               d == b % ByteBits
               s == e.addr
               u == c.addr
               w == 2^(BitLen(c) - b)
    <3>1. /\ V6Len \in Nat /\ BitLen(c) = ByteBits * V6Len /\ BitLen(e) = BitLen(c)
          /\ s \in [1..V6Len -> Bytes] /\ u \in [1..V6Len -> Bytes]
          /\ ByteBits * V6Len \in Nat
      <4>1. INET # INET6
        BY DEF INET, INET6
      <4>2. AddrLen(c) = V6Len /\ AddrLen(e) = V6Len /\ BitLen(e) = BitLen(c)
        BY <2>1, <2>3, <4>1 DEF AddrLen, BitLen
      <4> HIDE DEF e
      <4> QED BY <2>1, <4>2, TypedBits, SizesAssumption DEF Typed
    <3>2. Matches(m, c) <=> SameBytes(s, u, n) /\ SameRest(s, u, n + 1, d)
      BY <1>3, <2>3 DEF Matches, SameBytes, INET, INET6
    <3>3. n \in 0..V6Len /\ d \in 0..(ByteBits - 1) /\ (d # 0 => n < V6Len)
      <4>1. Splits(V6Len, b, b \div ByteBits, b % ByteBits)
        <5> HIDE DEF b
        <5> QED BY <2>1, <3>1, BitsSplit
      <4> QED BY <4>1 DEF Splits
    <3>4. SameRest(s, u, n + 1, d) <=> Rest(s, n, d) = Rest(u, n, d)
      <4>1. d = 0 => Rest(s, n, d) = 0 /\ Rest(u, n, d) = 0
        BY DEF Rest
      <4>2. CASE d # 0
        <5>1. n + 1 \in 1..V6Len /\ ByteBits - d \in Nat
          BY <3>1, <3>3, <4>2, SizesAssumption
        <5>2. s[n + 1] \in Nat /\ u[n + 1] \in Nat
          <6>1. s[n + 1] \in Bytes /\ u[n + 1] \in Bytes
            BY <3>1, <5>1
          <6> QED BY <6>1 DEF Bytes
        <5> HIDE DEF n, d, s, u
        <5> QED BY <4>2, <5>1, <5>2, SameCleared DEF SameRest, Rest
      <4> QED BY <4>1, <4>2 DEF SameRest
    <3>5. Number(s) \div w = Number(u) \div w <=>
            SameBytes(s, u, n) /\ Rest(s, n, d) = Rest(u, n, d)
      <4>1. b \in 0..BitLen(e) /\ w = 2^(BitLen(e) - b) /\ c.family = e.family
        BY <2>1, <3>1
      <4> HIDE DEF e, b
      <4> QED BY <2>1, <4>1, AddressPrefix
    <3>6. Prefix(e, b) = Number(s) \div w /\ Prefix(c, b) = Number(u) \div w
      <4>1. ~ b > BitLen(c)
        BY <2>1, <3>1
      <4> QED BY <3>1, <4>1 DEF Prefix, Cut
    <3> HIDE DEF n, d, s, u, w
    <3> QED BY <1>3, <3>2, <3>4, <3>5, <3>6
  <2> QED BY <1>1, <2>2, <2>3
<1> QED BY <1>2, <1>3

\* What a netmask has for a network is what truncate makes of it.
LEMMA MaskedTruncated ==
  ASSUME NEW m, MaskTyped(m), m # NoMask
  PROVE  MaskedNetwork(m).addr = Truncated(m.network, m.bits).addr
<1> DEFINE e == m.network
           b == m.bits
           n == b \div ByteBits
           d == b % ByteBits
           N == AddrLen(e)
           T == Truncated(e, b)
<1>1. /\ Typed(e) /\ b \in 0..(ByteBits * V6Len) /\ b \in Nat
      /\ e.family = INET => m.low = MaskLow(b)
  <2>1. Typed(e) /\ b \in 0..(ByteBits * V6Len) /\ (e.family = INET => m.low = MaskLow(b))
    BY DEF MaskTyped
  <2> QED BY <2>1
<1>2. /\ N \in Nat \ {0} /\ BitLen(e) = ByteBits * N /\ BitLen(e) \in Nat
      /\ e.family \in {INET, INET6} /\ e.addr \in [1..N -> Bytes]
  <2> HIDE DEF e
  <2> QED BY <1>1, TypedBits DEF Typed
<1>3. /\ Typed(T)
      /\ b >= BitLen(e) => T = e
      /\ b < BitLen(e) => TruncatedCells(e, b, n, d)
  <2> HIDE DEF e, b
  <2>1. Typed(T)
    BY <1>1, TruncatedTyped
  <2>2. b >= BitLen(e) => T = e
    BY DEF Truncated
  <2>3. b < BitLen(e) => TruncatedCells(e, b, n, d)
    BY <1>1, <1>2, TruncatedRight
  <2> QED BY <2>1, <2>2, <2>3
<1>4. T.family = e.family /\ AddrLen(T) = N /\ T.addr \in [1..N -> Bytes]
  <2> HIDE DEF e, b, T, n, d
  <2>1. T.family = e.family
    <3>1. b < BitLen(e) => T.family = e.family
      BY <1>3 DEF TruncatedCells, T
    <3> QED BY <1>1, <1>2, <1>3, <3>1
  <2>2. AddrLen(T) = N
    BY <2>1 DEF AddrLen
  <2>3. T.addr \in [1..AddrLen(T) -> Bytes]
    BY <1>3 DEF Typed
  <2> QED BY <2>1, <2>2, <2>3
<1>5. CASE e.family = INET
  <2> DEFINE x == Number(e.addr)
             l == MaskLow(b)
  <2>1. /\ MaskedNetwork(m).addr = MaskedNumber(m)
        /\ m.low = l /\ N = V4Len
    <3>1. N = V4Len
      BY <1>5 DEF AddrLen
    <3>2. MaskedNetwork(m) = [e EXCEPT !.addr = MaskedNumber(m)]
      BY <1>5 DEF MaskedNetwork, INET, INET6
    <3>3. MaskedNetwork(m).addr = MaskedNumber(m)
      BY <1>1, <3>2 DEF Typed
    <3> QED BY <1>1, <1>5, <3>1, <3>3
  <2> HIDE DEF e, b, n, d, N, T
  <2>2. x \in Nat /\ Number(T.addr) \in Nat
    BY <1>2, <1>4, NumberBound
  <2>3. l \in Nat /\ (b >= BitLen(e) => l = 0) /\ (b < BitLen(e) => l = BitLen(e) - b)
    BY <1>1, <1>5, MaskClears
  <2> HIDE DEF l, x
  <2>4. Number(T.addr) = ClearLow(x, l)
    <3>1. CASE b >= BitLen(e)
      BY <1>3, <2>2, <2>3, <3>1, ClearNone DEF x
    <3>2. CASE b < BitLen(e)
      <4> DEFINE w == 2^l
                 y == Number(T.addr)
      <4>1. b \in 0..(BitLen(e) - 1)
        BY <1>1, <1>2, <3>2
      <4>2. y \div w = x \div w /\ y % w = 0
        BY <1>1, <2>3, <3>2, <4>1, TruncatedNumber DEF x, T
      <4>3. w \in Nat \ {0}
        BY <2>3, PowerBounds
      <4>4. ClearLow(x, l) = (x \div w) * w
        BY <2>2, <2>3, Cleared
      <4> HIDE DEF w
      <4>5. y = (y \div w) * w + (y % w)
        <5>1. y \in Nat
          BY <2>2
        <5> HIDE DEF y
        <5> QED BY <4>3, <5>1
      <4>6. (x \div w) * w \in Nat
        BY <2>2, <4>3
      <4> HIDE DEF y
      <4>7. y = (x \div w) * w
        BY <4>2, <4>5, <4>6
      <4> QED BY <4>4, <4>7 DEF y
    <3> QED BY <1>1, <1>2, <3>1, <3>2
  <2>5. ASSUME NEW k \in 1..N PROVE MaskedNumber(m)[k] = T.addr[k]
    <3>1. MaskedNumber(m)[k] = (ClearLow(x, l) \div 2^(ByteBits * (N - k))) % 2^ByteBits
      BY <2>1 DEF MaskedNumber, x, e
    <3>2. (Number(T.addr) \div 2^(ByteBits * (N - k))) % 2^ByteBits = T.addr[k]
      BY <1>2, <1>4, NumberBytes
    <3> QED BY <2>4, <3>1, <3>2
  <2>6. DOMAIN MaskedNumber(m) = 1..N /\ MaskedNumber(m) = [k \in 1..N |-> MaskedNumber(m)[k]]
    BY <2>1 DEF MaskedNumber
  <2>7. T.addr = [k \in 1..N |-> T.addr[k]]
    BY <1>4
  <2>8. MaskedNumber(m) = T.addr
    BY <2>5, <2>6, <2>7
  <2> QED BY <2>1, <2>8 DEF T, e, b
<1>6. CASE e.family = INET6
  <2>1. /\ MaskedNetwork(m).addr = MaskedBytes(m) /\ N = V6Len
        /\ MaskedBytes(m) = [k \in 1..N |-> IF k <= n THEN e.addr[k]
                                            ELSE IF k = n + 1
                                                 THEN ClearLow(e.addr[k], ByteBits - d)
                                                 ELSE 0]
    <3>1. N = V6Len
      BY <1>6 DEF AddrLen, INET, INET6
    <3>2. MaskedNetwork(m) = [e EXCEPT !.addr = MaskedBytes(m)]
      BY <1>6 DEF MaskedNetwork, INET, INET6
    <3>3. MaskedNetwork(m).addr = MaskedBytes(m)
      BY <1>1, <3>2 DEF Typed
    <3> QED BY <3>1, <3>3 DEF MaskedBytes
  <2>2. n \in 0..N /\ d \in 0..(ByteBits - 1) /\ (d # 0 => n < N) /\ b = ByteBits * n + d
    <3>1. b \in 0..(ByteBits * N)
      BY <1>1, <2>1
    <3>2. Splits(N, b, b \div ByteBits, b % ByteBits)
      <4> HIDE DEF N, b
      <4> QED BY <1>2, <3>1, BitsSplit
    <3> QED BY <3>2 DEF Splits
  <2> HIDE DEF e, b, n, d, N, T
  <2>3. ClearLow(0, ByteBits) = 0 /\ \A y \in Bytes : ClearLow(y, ByteBits) = 0
    <3> DEFINE p == 2^ByteBits
    <3>1. p \in Nat \ {0} /\ Bytes = 0..(p - 1)
      BY SizesAssumption, PowerBounds DEF Bytes
    <3>2. \A y \in Bytes : ClearLow(y, ByteBits) = y - (y % p)
      BY DEF ClearLow
    <3> HIDE DEF p
    <3>3. ASSUME NEW y \in Bytes PROVE y % p = y /\ y \in Nat
      <4>1. 0 * p + y = y /\ y \in Nat /\ y < p
        BY <3>1
      <4>2. (0 * p + y) % p = y
        BY <3>1, <4>1, Quotient
      <4> QED BY <4>1, <4>2
    <3>4. 0 \in Bytes
      BY <3>1
    <3> QED BY <3>2, <3>3, <3>4
  <2>4. ASSUME NEW k \in 1..N PROVE MaskedBytes(m)[k] = T.addr[k]
    <3>1. MaskedBytes(m)[k] = IF k <= n THEN e.addr[k]
                              ELSE IF k = n + 1 THEN ClearLow(e.addr[k], ByteBits - d) ELSE 0
      BY <2>1
    <3>2. CASE b >= BitLen(e)
      <4>1. n = N
        <5>1. b = ByteBits * N /\ ByteBits \in Nat \ {0}
          BY <1>1, <1>2, <2>1, <3>2, SizesAssumption
        <5>2. n < N => ByteBits * n + ByteBits <= ByteBits * N
          <6>1. n < N => ByteBits * (N - (n + 1)) >= 0
            BY <1>2, <2>2, <5>1
          <6>2. ByteBits * (N - (n + 1)) = ByteBits * N - ByteBits * n - ByteBits
            BY <1>2, <2>2, <5>1
          <6>3. ByteBits * N \in Nat /\ ByteBits * n \in Nat
            BY <1>2, <2>2, <5>1
          <6> QED BY <5>1, <6>1, <6>2, <6>3
        <5>3. ByteBits * n \in Nat /\ ByteBits * N \in Nat
          BY <1>2, <2>2, <5>1
        <5> QED BY <1>2, <2>2, <5>1, <5>2, <5>3
      <4> QED BY <1>2, <1>3, <3>1, <3>2, <4>1
    <3>3. CASE b < BitLen(e)
      <4>1. T.addr[k] = IF k <= n THEN e.addr[k]
                        ELSE IF k = n + 1 /\ d # 0 THEN ClearLow(e.addr[k], ByteBits - d)
                        ELSE 0
        BY <1>3, <3>3 DEF TruncatedCells, T, N
      <4>2. d = 0 => ByteBits - d = ByteBits
        BY SizesAssumption
      <4>3. e.addr[k] \in Bytes
        BY <1>2
      <4> QED BY <2>3, <3>1, <4>1, <4>2, <4>3
    <3> QED BY <1>1, <1>2, <3>2, <3>3
  <2>5. MaskedBytes(m) = [k \in 1..N |-> MaskedBytes(m)[k]]
    BY <2>1
  <2>6. T.addr = [k \in 1..N |-> T.addr[k]]
    BY <1>4
  <2>7. MaskedBytes(m) = T.addr
    BY <2>4, <2>5, <2>6
  <2> QED BY <2>1, <2>7 DEF T, e, b
<1> QED BY <1>2, <1>5, <1>6

(* A netmask matches exactly the addresses of its family that have its       *)
(* prefix, and its masked network is its network truncated: for every prefix *)
(* length, both families and all ways to construct it                        *)
(* (comboaddress.hh:324-336, 353-406, 416-456).                              *)
THEOREM NetmasksExact == AddressSpec => []NetmaskExact
<1>1. AddressInv => NetmaskExact
  <2> SUFFICES ASSUME AddressInv PROVE NetmaskExact
    OBVIOUS
  <2>1. MaskTyped(nm)
    BY DEF AddressInv
  <2>2. ASSUME NEW h \in Hosts
        PROVE  LET c == Combo(h, 0) IN
               Matches(nm, c) <=> /\ nm.network.family = h.family
                                  /\ Prefix(nm.network, nm.bits) = Prefix(c, nm.bits)
    <3> DEFINE c == Combo(h, 0)
    <3>1. Typed(c) /\ c.family = h.family
      BY ComboTyped DEF Combo
    <3> HIDE DEF c
    <3>2. Matches(nm, c) <=> /\ nm.network.family = c.family
                             /\ Prefix(nm.network, nm.bits) = Prefix(c, nm.bits)
      BY <2>1, <3>1, MatchesPrefix
    <3> QED BY <3>1, <3>2 DEF c
  <2>3. nm.network.family # 0 => MaskedNetwork(nm).addr = Truncated(nm.network, nm.bits).addr
    <3>1. nm.network.family # 0 => nm # NoMask
      BY DEF NoMask, Combo, Junk
    <3> QED BY <2>1, <3>1, MaskedTruncated
  <2> QED BY <2>2, <2>3 DEF NetmaskExact
<1> QED BY <1>1, AlwaysAddresses, PTL

-----------------------------------------------------------------------------
(* The inductive invariant of a database of countries *)

\* What an interval was added with
Entries(s) == {<<s[j].st, s[j].en, s[j].data>> : j \in 1..Len(s)}

Entry(l) == <<To128(l.start), OpenEnd(l.stop), l.country>>

Loadable(l) == /\ l.start \in Hosts /\ l.stop \in Hosts
               /\ l.country \in Payloads /\ l.country # "??"

\* One number is asked for.
OneNumber == query.st \in Numbers /\ query.en \in {query.st + 1, 0}

\* The array has the lines that were kept, in whatever order.
CountryInv ==
  /\ file \in Files
  /\ \A l \in kept : Loadable(l)
  /\ Entries(a) = {Entry(l) : l \in kept}
  /\ phase \in {"overlap", "found"} => OneNumber

-----------------------------------------------------------------------------
(* Lines and numbers *)

LEMMA NumbersTyped ==
  /\ Numbers \subseteq Nat /\ 2^(ByteBits * V6Len) \in Nat \ {0}
  /\ \A n \in Numbers : LET m == (n + 1) % 2^(ByteBits * V6Len)
                        IN m \in Numbers /\ m \in {n + 1, 0}
<1> DEFINE p == 2^(ByteBits * V6Len)
<1>1. p \in Nat \ {0}
  <2>1. ByteBits * V6Len \in Nat
    BY SizesAssumption
  <2> QED BY <2>1, PowerBounds
<1>2. Numbers = 0..(p - 1)
  BY DEF Numbers
<1> HIDE DEF p
<1>3. ASSUME NEW n \in Numbers
      PROVE  (n + 1) % p \in Numbers /\ (n + 1) % p \in {n + 1, 0}
  <2>1. n \in Nat /\ (n + 1 < p \/ n + 1 = p)
    BY <1>1, <1>2
  <2>2. CASE n + 1 < p
    <3>1. (n + 1) % p = n + 1
      BY <1>1, <2>1, <2>2
    <3> QED BY <1>1, <1>2, <2>1, <2>2, <3>1
  <2>3. CASE n + 1 = p
    <3>1. (n + 1) % p = 0
      BY <1>1, <2>3
    <3> QED BY <1>1, <1>2, <3>1
  <2> QED BY <2>1, <2>2, <2>3
<1>4. Numbers \subseteq Nat
  BY <1>1, <1>2
<1> QED BY <1>1, <1>3, <1>4 DEF p

\* An address is a number of 128 bits.
LEMMA HostNumber ==
  ASSUME NEW h \in Hosts
  PROVE  /\ To128(h) \in Numbers /\ To128(h) \in Nat
         /\ OpenEnd(h) \in Numbers /\ OpenEnd(h) \in {To128(h) + 1, 0}
<1> DEFINE u == ByteBits * V4Len
           v == ByteBits * V6Len
           p == 2^u
           q == 2^v
           n == Number(h.addr)
<1>1. /\ ByteBits \in Nat \ {0} /\ V4Len \in Nat \ {0} /\ V6Len \in Nat \ {0}
      /\ V4Len <= V6Len
  BY SizesAssumption
<1>2. u \in Nat /\ v \in Nat /\ u <= v
  BY <1>1
<1>3. p \in Nat /\ q \in Nat /\ p <= q
  <2> HIDE DEF u, v
  <2> QED BY <1>2, PowerBounds, PowerMonotone
<1>4. n \in Nat /\ (n < p \/ n < q)
  BY <1>1, HostsAssumption, NumberBound
<1>5. n \in 0..(q - 1)
  <2> HIDE DEF n, p, q
  <2> QED BY <1>3, <1>4
<1>6. To128(h) \in Numbers
  BY <1>5 DEF To128, Numbers
<1> QED BY <1>6, NumbersTyped DEF OpenEnd

LEMMA LineLoadable ==
  ASSUME file \in Files, NEW l \in file.lines, ~ Throws(l), ~ Skipped(l)
  PROVE  Loadable(l)
<1>1. IsLine(l) /\ l.country \in Payloads \ {"??"}
  BY FilesAssumption
<1>2. l.commas = 2
  BY <1>1 DEF IsLine, Skipped
<1> QED BY <1>1, <1>2 DEF IsLine, Throws, Loadable

\* A database is a tree: what it does to the tree, the tree may do.
LEMMA CountryTree ==
  ASSUME CountryInv, [CountryNext]_countryVars
  PROVE  [TreeNext]_treeVars
<1>1. ASSUME NEW l \in file.lines, LoadLine(l) PROVE TreeNext
  <2>1. Loadable(l) /\ Add(To128(l.start), OpenEnd(l.stop), l.country)
    BY <1>1, LineLoadable DEF LoadLine, CountryInv
  <2>2. To128(l.start) \in Points /\ OpenEnd(l.stop) \in Points /\ l.country \in Payloads
    BY <2>1, HostNumber, FilesAssumption DEF Loadable
  <2> QED BY <2>1, <2>2 DEF TreeNext
<1>2. ASSUME NEW l \in file.lines, SkipLine(l) \/ LineThrows(l) PROVE UNCHANGED treeVars
  BY <1>2 DEF SkipLine, LineThrows, countryVars
<1>3. CASE EndOfFile
  BY <1>3 DEF EndOfFile, TreeNext
<1>4. ASSUME NEW h \in Asked, GetCountry(h) PROVE TreeNext
  <2>1. /\ To128(h) \in Points /\ OpenEnd(h) \in Points
        /\ Overlap(To128(h), OpenEnd(h))
    BY <1>4, HostNumber, FilesAssumption DEF GetCountry, OpenEnd
  <2> QED BY <2>1 DEF TreeNext
<1>5. CASE (IndexStep \/ OverlapStep) /\ UNCHANGED <<file, alive, kept>>
  BY <1>5 DEF TreeNext
<1>6. CASE UNCHANGED countryVars
  BY <1>6 DEF countryVars
<1> QED BY <1>1, <1>2, <1>3, <1>4, <1>5, <1>6 DEF CountryNext

-----------------------------------------------------------------------------
(* The steps of loading and asking *)

LEMMA AddEntry ==
  ASSUME a \in Seq(Intervals), NEW s, NEW e, NEW d, s \in Points, e \in Points, d \in Payloads,
         Add(s, e, d)
  PROVE  Entries(a') = Entries(a) \cup {<<s, e, d>>}
<1> DEFINE new == [st |-> s, en |-> e, max |-> e, data |-> d]
           n == Len(a)
<1>1. a' = Append(a, new) /\ new \in Intervals /\ n \in Nat
  BY DEF Add, Intervals
<1>2. new.st = s /\ new.en = e /\ new.data = d
  OBVIOUS
<1> HIDE DEF new
<1>3. /\ Len(a') = n + 1 /\ a'[n + 1] = new
      /\ \A j \in 1..n : a'[j] = a[j]
  BY <1>1, AppendProperties
<1> HIDE DEF n
<1>4. \A j \in 1..(n + 1) : j \in 1..n \/ j = n + 1
  BY <1>1
<1>5. n + 1 \in 1..(n + 1) /\ \A j \in 1..n : j \in 1..(n + 1)
  BY <1>1
<1> QED BY <1>2, <1>3, <1>4, <1>5 DEF Entries, n

\* Filling in maxima and sorting change no entry.
LEMMA SameEntries ==
  ASSUME a \in Seq(Intervals), IndexStep
  PROVE  Entries(a') = Entries(a)
<1> DEFINE n == Len(a)
<1>1. n \in Nat /\ a \in [1..n -> Intervals] /\ Size = n
  BY LenProperties DEF Size
<1>2. ASSUME NEW i \in 0..(Size - 2), Exchange(i) PROVE Entries(a') = Entries(a)
  <2> DEFINE v == i + 1
             w == i + 2
  <2>1. v \in 1..n /\ w \in 1..n /\ v # w
    <3> HIDE DEF n
    <3> QED BY <1>1
  <2>2. a' = [a EXCEPT ![v] = a[w], ![w] = a[v]]
    BY <1>2 DEF Exchange
  <2> HIDE DEF v, w, n
  <2>3. a' \in [1..n -> Intervals] /\ a'[v] = a[w] /\ a'[w] = a[v]
        /\ \A j \in 1..n : j # v /\ j # w => a'[j] = a[j]
    BY <1>1, <2>1, <2>2
  <2>4. Len(a') = n
    BY <1>1, <2>3, MappedArray
  <2>5. ASSUME NEW j \in 1..n PROVE (\E h \in 1..n : a'[h] = a[j]) /\ \E h \in 1..n : a[h] = a'[j]
    BY <2>1, <2>3
  <2> QED BY <2>4, <2>5 DEF Entries, n
<1>3. ASSUME Leaves \/ Level \/ Indexed PROVE Entries(a') = Entries(a)
  <2>1. CASE a' = a
    BY <2>1
  <2>2. CASE a' # a
    <3>1. a' = [j \in 1..n |-> a'[j]]
          /\ \A j \in 1..n : a'[j] = a[j] \/ \E m : a'[j] = [a[j] EXCEPT !.max = m]
      <4>1. CASE Leaves
        BY <2>2, <4>1 DEF Leaves, Size
      <4>2. CASE Level
        BY <4>2 DEF Level, Size
      <4>3. CASE Indexed
        BY <2>2, <4>3 DEF Indexed
      <4> QED BY <1>3, <4>1, <4>2, <4>3
    <3> HIDE DEF n
    <3>2. a' \in [1..n -> {a'[j] : j \in 1..n}]
      BY <3>1
    <3>3. Len(a') = n
      BY <1>1, <3>2, MappedArray
    <3>4. ASSUME NEW j \in 1..n
          PROVE  a'[j].st = a[j].st /\ a'[j].en = a[j].en /\ a'[j].data = a[j].data
      <4> DEFINE e == a[j]
                 f == a'[j]
      <4>1. e \in Intervals /\ (f = e \/ \E m : f = [e EXCEPT !.max = m])
        BY <1>1, <3>1
      <4> HIDE DEF e, f
      <4>2. f.st = e.st /\ f.en = e.en /\ f.data = e.data
        BY <4>1 DEF Intervals
      <4> QED BY <4>2 DEF e, f
    <3> QED BY <3>3, <3>4 DEF Entries, n
  <2> QED BY <2>1, <2>2
<1> QED BY <1>2, <1>3 DEF IndexStep

LEMMA CountryInitInv == CountryInit => CountryInv
<1> SUFFICES ASSUME CountryInit PROVE CountryInv
  OBVIOUS
<1>1. Entries(<<>>) = {}
  BY DEF Entries
<1> QED BY <1>1 DEF CountryInit, TreeInit, CountryInv

LEMMA CountryStepInv ==
  ASSUME MaximaInv, CountryInv, [CountryNext]_countryVars
  PROVE  CountryInv'
<1>0. a \in Seq(Intervals)
  BY DEF MaximaInv
<1>1. ASSUME NEW l \in file.lines, LoadLine(l) PROVE CountryInv'
  <2>1. /\ Loadable(l) /\ Add(To128(l.start), OpenEnd(l.stop), l.country)
        /\ kept' = kept \cup {l} /\ file' = file
    BY <1>1, LineLoadable DEF LoadLine, CountryInv
  <2>2. phase' = "add"
    BY <2>1 DEF Add
  <2>3. To128(l.start) \in Points /\ OpenEnd(l.stop) \in Points /\ l.country \in Payloads
    BY <2>1, HostNumber, FilesAssumption DEF Loadable
  <2>4. Entries(a') = Entries(a) \cup {Entry(l)}
    BY <1>0, <2>1, <2>3, AddEntry DEF Entry
  <2>5. Entries(a') = {Entry(k) : k \in kept'}
    BY <2>1, <2>4 DEF CountryInv
  <2>6. \A k \in kept' : Loadable(k)
    BY <2>1 DEF CountryInv
  <2> QED BY <2>1, <2>2, <2>5, <2>6 DEF CountryInv
<1>2. ASSUME NEW l \in file.lines, SkipLine(l) \/ LineThrows(l) PROVE CountryInv'
  <2>1. UNCHANGED <<a, file, kept, phase, query>>
    BY <1>2 DEF SkipLine, LineThrows, countryVars, treeVars
  <2> QED BY <2>1 DEF CountryInv, OneNumber
<1>3. CASE EndOfFile
  BY <1>3 DEF EndOfFile, Index, CountryInv
<1>4. ASSUME NEW h \in Asked, GetCountry(h) PROVE CountryInv'
  <2>1. h \in Hosts /\ Overlap(To128(h), OpenEnd(h)) /\ UNCHANGED <<file, kept>>
    BY <1>4, FilesAssumption DEF GetCountry, OpenEnd
  <2>2. a' = a /\ query'.st = To128(h) /\ query'.en = OpenEnd(h)
    BY <2>1 DEF Overlap
  <2>3. OneNumber'
    BY <2>1, <2>2, HostNumber DEF OneNumber
  <2> QED BY <2>1, <2>2, <2>3 DEF CountryInv
<1>5. CASE (IndexStep \/ OverlapStep) /\ UNCHANGED <<file, alive, kept>>
  <2>1. CASE IndexStep
    <3>1. Entries(a') = Entries(a) /\ phase' \in {"sort", "level", "ready"}
      BY <1>0, <2>1, SameEntries DEF IndexStep, Exchange, Leaves, Level, Indexed
    <3> QED BY <1>5, <3>1 DEF CountryInv
  <2>2. CASE OverlapStep
    <3>1. UNCHANGED <<a, query>> /\ phase = "overlap"
      BY <2>2 DEF OverlapStep, Scan, GoLeft, GoRight, Return
    <3> QED BY <1>5, <3>1 DEF CountryInv, OneNumber
  <2> QED BY <1>5, <2>1, <2>2
<1>6. CASE UNCHANGED countryVars
  BY <1>6 DEF countryVars, treeVars, CountryInv, OneNumber
<1> QED BY <1>1, <1>2, <1>3, <1>4, <1>5, <1>6 DEF CountryNext

-----------------------------------------------------------------------------
(* The answer *)

\* The first of the intervals found
LEMMA FirstFound ==
  ASSUME OverlapExact, phase = "found", Size \in Nat, out # <<>>, \E T : out \in Seq(T)
  PROVE  out[1] \in Hits /\ \A i \in Hits : out[1] <= i
<1>1. Len(out) \in Nat \ {0}
  BY EmptySeq
<1>2. 1 \in 1..Len(out)
  BY <1>1
<1>3. /\ {out[n] : n \in 1..Len(out)} = Hits
      /\ \A m, n \in 1..Len(out) : m < n => out[m] < out[n]
  BY DEF OverlapExact, Hits
<1>4. Hits \subseteq Int
  BY DEF Hits
<1>5. ASSUME NEW i \in Hits PROVE out[1] <= i
  <2>1. PICK n \in 1..Len(out) : out[n] = i
    BY <1>3
  <2>2. out[1] \in Int /\ i \in Int
    BY <1>2, <1>3, <1>4
  <2>3. CASE n = 1
    BY <2>1, <2>2, <2>3
  <2>4. CASE n # 1
    <3>1. 1 < n
      BY <1>1, <2>4
    <3>2. out[1] < i
      BY <1>2, <1>3, <2>1, <3>1
    <3> QED BY <2>2, <3>2
  <2> QED BY <2>3, <2>4
<1> QED BY <1>2, <1>3, <1>5

\* When one number is asked for, the hits are the lines that contain it.
LEMMA HitsAreHolders ==
  ASSUME CountryInv, a \in Seq(Intervals), phase = "found", query.en # 0
  PROVE  /\ \A i \in Hits : \E l \in Containing(query.st) :
              Node(i).st = To128(l.start) /\ Node(i).data = l.country
         /\ \A l \in Containing(query.st) : \E i \in Hits : Node(i).st = To128(l.start)
<1>1. query.st \in Nat /\ query.en = query.st + 1
  BY NumbersTyped DEF CountryInv, OneNumber
<1>2. Size \in Nat /\ Len(a) = Size
  BY DEF Size
<1>3. ASSUME NEW s, NEW e, s \in Nat, e \in Nat,
             NEW stop \in Nat, e \in {stop + 1, 0}
      PROVE  s < query.en /\ query.st < e <=>
             s <= query.st /\ query.st <= stop /\ e # 0
  BY <1>1, <1>3
<1>4. ASSUME NEW l \in kept, NEW i \in 0..(Size - 1),
             Node(i).st = To128(l.start), Node(i).en = OpenEnd(l.stop)
      PROVE  i \in Hits <=> l \in Containing(query.st)
  <2>1. l.start \in Hosts /\ l.stop \in Hosts
    BY DEF CountryInv, Loadable
  <2>2. /\ To128(l.start) \in Nat /\ To128(l.stop) \in Nat /\ OpenEnd(l.stop) \in Nat
        /\ OpenEnd(l.stop) \in {To128(l.stop) + 1, 0}
    BY <2>1, HostNumber, NumbersTyped
  <2>3. To128(l.start) < query.en /\ query.st < OpenEnd(l.stop) <=>
        To128(l.start) <= query.st /\ query.st <= To128(l.stop) /\ OpenEnd(l.stop) # 0
    BY <1>3, <2>2
  <2> QED BY <1>4, <2>3 DEF Hits, Starts, Reaches, Containing
<1>5. ASSUME NEW i \in Hits
      PROVE  \E l \in Containing(query.st) :
               Node(i).st = To128(l.start) /\ Node(i).data = l.country
  <2>1. i \in 0..(Size - 1)
    BY DEF Hits
  <2>2. <<Node(i).st, Node(i).en, Node(i).data>> \in Entries(a)
    <3>1. i + 1 \in 1..Len(a)
      BY <1>2, <2>1
    <3> QED BY <3>1 DEF Entries, Node
  <2>3. PICK l \in kept : <<Node(i).st, Node(i).en, Node(i).data>> = Entry(l)
    BY <2>2 DEF CountryInv
  <2>4. Node(i).st = To128(l.start) /\ Node(i).en = OpenEnd(l.stop) /\ Node(i).data = l.country
    BY <2>3 DEF Entry
  <2> QED BY <1>4, <1>5, <2>1, <2>4
<1>6. ASSUME NEW l \in Containing(query.st)
      PROVE  \E i \in Hits : Node(i).st = To128(l.start)
  <2>1. l \in kept
    BY DEF Containing
  <2>2. Entry(l) \in Entries(a)
    BY <2>1 DEF CountryInv
  <2>3. PICK j \in 1..Len(a) : Entry(l) = <<a[j].st, a[j].en, a[j].data>>
    BY <2>2 DEF Entries
  <2> DEFINE i == j - 1
  <2>4. i \in 0..(Size - 1) /\ i + 1 = j
    BY <1>2
  <2> HIDE DEF i
  <2>5. Node(i).st = To128(l.start) /\ Node(i).en = OpenEnd(l.stop)
    BY <2>3, <2>4 DEF Entry, Node
  <2> QED BY <1>4, <2>1, <2>4, <2>5
<1> QED BY <1>5, <1>6

LEMMA InvAnswers ==
  ASSUME MaximaInv, TraversalInv, CountryInv, \E T : out \in Seq(T)
  PROVE  AnswerRight
<1> SUFFICES ASSUME phase = "found", query.en # 0
             PROVE  IF Country = "??" THEN Containing(query.st) = {}
                    ELSE \E l \in Containing(query.st) :
                           /\ l.country = Country
                           /\ \A m \in Containing(query.st) : To128(l.start) <= To128(m.start)
  BY DEF AnswerRight
<1> DEFINE holders == Containing(query.st)
<1>1. a \in Seq(Intervals) /\ Sorted(a) /\ OverlapExact /\ Size \in Nat
  BY DEF MaximaInv, TraversalInv, Size
<1>2. /\ \A i \in Hits : \E l \in holders : Node(i).st = To128(l.start) /\ Node(i).data = l.country
      /\ \A l \in holders : \E i \in Hits : Node(i).st = To128(l.start)
  BY <1>1, HitsAreHolders
<1>3. holders \subseteq kept
  BY DEF Containing
<1> HIDE DEF holders
<1>4. CASE out = <<>>
  <2>1. Hits = {}
    <3>1. Len(out) = 0
      BY <1>4
    <3>2. {out[n] : n \in 1..Len(out)} = Hits
      BY <1>1 DEF OverlapExact, Hits
    <3> QED BY <3>1, <3>2
  <2>2. Country = "??" /\ holders = {}
    BY <1>2, <1>4, <2>1 DEF Country
  <2> QED BY <2>2 DEF holders
<1>5. CASE out # <<>>
  <2> DEFINE f == out[1]
  <2>1. f \in Hits /\ \A i \in Hits : f <= i
    BY <1>1, <1>5, FirstFound
  <2>2. Country = Node(f).data
    BY <1>5 DEF Country
  <2> HIDE DEF f
  <2>3. PICK l \in holders : Node(f).st = To128(l.start) /\ Node(f).data = l.country
    BY <1>2, <2>1
  <2>4. l.country # "??"
    BY <1>3 DEF CountryInv, Loadable
  <2>5. ASSUME NEW m \in holders PROVE To128(l.start) <= To128(m.start)
    <3>1. PICK i \in Hits : Node(i).st = To128(m.start)
      BY <1>2
    <3>2. f <= i /\ f \in 0..(Len(a) - 1) /\ i \in 0..(Len(a) - 1)
      BY <2>1 DEF Hits, Size
    <3>3. Node(f).st <= Node(i).st
      BY <1>1, <3>2 DEF Sorted, Node
    <3> QED BY <2>3, <3>1, <3>3
  <2> QED BY <2>2, <2>3, <2>4, <2>5 DEF holders
<1> QED BY <1>4, <1>5

\* out is a list at all times.
OutTyped == \E T : out \in Seq(T)

LEMMA OutStep ==
  ASSUME TraversalInv, TraversalInv', OutTyped, [TreeNext]_treeVars
  PROVE  OutTyped'
<1>1. CASE phase' = "overlap"
  BY <1>1 DEF TraversalInv, Traversing, OutTyped
<1>2. CASE phase' # "overlap"
  <2>1. out' = out \/ out' = <<>>
    BY <1>2 DEF TreeNext, IndexStep, OverlapStep, Add, Index, Exchange, Leaves, Level,
                Indexed, Overlap, Scan, GoLeft, GoRight, Return, treeVars
  <2>2. <<>> \in Seq({})
    OBVIOUS
  <2> QED BY <2>1, <2>2 DEF OutTyped
<1> QED BY <1>1, <1>2

(* A country that is answered is the one of a range of the file that contains   *)
(* the address, the first to start, and "??" is answered only if there is       *)
(* none: for every file, whatever its lines, and every address but the last     *)
(* (support.cc:34-90).                                                          *)
THEOREM AnswersAreRight == CountrySpec => []AnswerRight
<1> DEFINE Inv == MaximaInv /\ TraversalInv /\ CountryInv /\ OutTyped
<1>1. CountryInit => Inv
  <2> SUFFICES ASSUME CountryInit PROVE Inv
    OBVIOUS
  <2>1. TreeInit
    BY DEF CountryInit
  <2>2. out \in Seq({})
    BY <2>1 DEF TreeInit
  <2>3. OutTyped
    BY <2>2 DEF OutTyped
  <2> QED BY <2>1, <2>3, MaximaInit, CountryInitInv DEF TreeInit, TraversalInv
<1>2. Inv /\ [CountryNext]_countryVars => Inv'
  <2> SUFFICES ASSUME Inv, [CountryNext]_countryVars PROVE Inv'
    OBVIOUS
  <2>1. [TreeNext]_treeVars
    BY CountryTree
  <2>2. MaximaInv' /\ TraversalInv'
    BY <2>1, MaximaStep, TraversalStep
  <2> QED BY <2>1, <2>2, OutStep, CountryStepInv
<1>3. Inv => AnswerRight
  BY InvAnswers DEF OutTyped
<1> HIDE DEF Inv
<1> QED BY <1>1, <1>2, <1>3, PTL DEF CountrySpec

(* What CountryDB does with its tree is what a tree may do, so that the         *)
(* theorems about the tree hold of a database: no interval is missed.           *)
THEOREM DatabaseIsTree == CountrySpec => TreeSpec
<1> DEFINE Inv == MaximaInv /\ CountryInv
<1>1. CountryInit => Inv /\ TreeInit
  BY MaximaInit, CountryInitInv DEF CountryInit
<1>2. Inv /\ [CountryNext]_countryVars => Inv' /\ [TreeNext]_treeVars
  <2> SUFFICES ASSUME Inv, [CountryNext]_countryVars PROVE Inv' /\ [TreeNext]_treeVars
    OBVIOUS
  <2>1. [TreeNext]_treeVars
    BY CountryTree
  <2> QED BY <2>1, MaximaStep, CountryStepInv
<1> HIDE DEF Inv
<1> QED BY <1>1, <1>2, PTL DEF CountrySpec, TreeSpec

-----------------------------------------------------------------------------
(* Log times *)

\* The fields of an instant's local time, put together again.
LEMMA FieldsAddUp ==
  ASSUME NEW t \in Int
  PROVE  86400 * (t \div 86400) + 3600 * ((t \div 3600) % 24)
            + 60 * ((t \div 60) % 60) + (t % 60) = t
<1> DEFINE d == t \div 86400
           h == t \div 3600
           m == t \div 60
<1>1. d \in Int /\ h \in Int /\ m \in Int
  OBVIOUS
<1>2. t = 60 * m + (t % 60) /\ t % 60 \in Int
  OBVIOUS
<1>3. h = m \div 60 /\ d = h \div 24
  OBVIOUS
<1> HIDE DEF d, h, m
<1>4. m = 60 * h + (m % 60) /\ m % 60 \in Int
  BY <1>1, <1>3
<1>5. h = 24 * d + (h % 24) /\ h % 24 \in Int
  BY <1>1, <1>3
<1>6. 86400 * d + 3600 * (h % 24) + 60 * (m % 60) + (t % 60) = t
  BY <1>1, <1>2, <1>4, <1>5
<1> QED BY <1>6 DEF d, h, m

\* Hours and minutes of a zone, put together again
LEMMA ZoneAddsUp ==
  ASSUME NEW off \in Int
  PROVE  /\ Absolute(off) \in Nat
         /\ (Absolute(off) \div 60) * 3600 + (Absolute(off) % 60) * 60 = 60 * Absolute(off)
BY DEF Absolute

LEMMA StampRead ==
  ASSUME NEW i \in Int, NEW off \in Int
  PROVE  GetTimeFromLog(StampOf(i, off)) = i
<1> DEFINE there == i + 60 * off
           s == StampOf(i, off)
<1>1. there \in Int
  OBVIOUS
<1>2. /\ s.field[1] = there \div 86400
      /\ s.field[2] = (there \div 3600) % 24
      /\ s.field[3] = (there \div 60) % 60
      /\ s.field[4] = there % 60
      /\ s.bad = 5
  BY DEF StampOf, Fields
<1>3. /\ s.dir = IF off < 0 THEN "-" ELSE "+"
      /\ s.hours = Absolute(off) \div 60
      /\ s.mins = Absolute(off) % 60
  BY DEF StampOf
<1>4. Timegm(s) = 86400 * s.field[1] + 3600 * s.field[2] + 60 * s.field[3] + s.field[4]
  <2> HIDE DEF s
  <2> QED BY <1>2 DEF Timegm
<1> HIDE DEF s
<1>5. Timegm(s) = there
  <2> HIDE DEF there
  <2> QED BY <1>1, <1>2, <1>4, FieldsAddUp
<1>6. SecondOffset(s) = -(60 * off)
  <2>1. s.hours * 3600 + s.mins * 60 = 60 * Absolute(off)
    BY <1>3, ZoneAddsUp
  <2>2. CASE off < 0
    <3>1. s.dir # "+" /\ Absolute(off) = -off
      BY <1>3, <2>2 DEF Absolute
    <3> QED BY <2>1, <3>1 DEF SecondOffset
  <2>3. CASE off >= 0
    <3>1. s.dir = "+" /\ Absolute(off) = off
      BY <1>3, <2>3 DEF Absolute
    <3> QED BY <2>1, <3>1 DEF SecondOffset
  <2> QED BY <2>2, <2>3
<1>7. s.dir # "none"
  BY <1>3
<1>8. GetTimeFromLog(s) = Timegm(s) + SecondOffset(s)
  BY <1>2, <1>7 DEF GetTimeFromLog
<1> QED BY <1>5, <1>6, <1>8 DEF s

(* One instant has one time, in whichever zone the log writes it             *)
(* (support.cc:114-136).                                                     *)
THEOREM ZoneDoesNotMatter == TimeSpec => []SameInstant
<1>1. TimeInit => SameInstant
  BY DEF TimeInit, SameInstant
<1>2. SameInstant /\ [TimeNext]_timeVars => SameInstant'
  <2> SUFFICES ASSUME SameInstant, [TimeNext]_timeVars PROVE SameInstant'
    OBVIOUS
  <2>1. ASSUME NEW i \in Instants, NEW o \in Offsets, ReadStamp(i, o) PROVE SameInstant'
    <3>1. i \in Int /\ o \in Int
      BY TimeAssumption
    <3> QED BY <2>1, <3>1, StampRead DEF ReadStamp, SameInstant
  <2>2. ASSUME NEW i \in Instants, NEW o \in Offsets, NEW bad \in 1..5, ReadBroken(i, o, bad)
        PROVE  SameInstant'
    <3>1. stamp'.dir = "none"
      BY <2>2 DEF ReadBroken, StampOf
    <3> QED BY <3>1 DEF SameInstant
  <2>3. CASE UNCHANGED timeVars
    BY <2>3 DEF timeVars, SameInstant
  <2> QED BY <2>1, <2>2, <2>3 DEF TimeNext
<1> QED BY <1>1, <1>2, PTL DEF TimeSpec

-----------------------------------------------------------------------------
(* Reports *)

Reports == [count : Nat, scrollPerc : Positions \cup {0}, interval : Nat]

\* The intervals that are over, of which the reports speak
Over == 1..(Len(active) - 1)

ActiveIn(seq, n) == {m \in 1..n : seq[m]}

\* A report stands for an active interval, which it counts with those before.
ReportRight(r) ==
  /\ r.interval \in Over
  /\ active[r.interval]
  /\ r.count = Cardinality(ActiveIn(active, r.interval))
  /\ r.count <= activityCount

\* The flag is what the user has done in the interval under way.
Flag == hadActivity \in BOOLEAN /\ (hadActivity <=> active[Len(active)])

PageInv ==
  /\ active \in Seq(BOOLEAN) /\ Len(active) > 0
  /\ scrollPerc \in Positions \cup {0}
  /\ Flag
  /\ activityCount \in Nat
  /\ activityCount = Cardinality(ActiveIn(active, Len(active) - 1))
  /\ sent \in Seq(Reports)
  /\ \A n \in 1..Len(sent) : ReportRight(sent[n])
  /\ \A m, n \in 1..Len(sent) : m < n => sent[m].count < sent[n].count

LEMMA PageInitInv == PageInit => PageInv
<1> SUFFICES ASSUME PageInit PROVE PageInv
  OBVIOUS
<1>1. ActiveIn(active, Len(active) - 1) = {}
  BY DEF PageInit, ActiveIn
<1>2. activityCount = Cardinality(ActiveIn(active, Len(active) - 1))
  BY <1>1, FS_EmptySet DEF PageInit
<1>3. active \in Seq(BOOLEAN) /\ Len(active) = 1 /\ active[1] = FALSE
  BY DEF PageInit
<1>4. sent \in Seq(Reports) /\ Len(sent) = 0
  BY DEF PageInit
<1>5. Flag
  BY <1>3 DEF PageInit, Flag
<1> QED BY <1>2, <1>3, <1>4, <1>5 DEF PageInit, PageInv

\* The intervals that are over do not change any more.
LEMMA OverStays ==
  ASSUME active \in Seq(BOOLEAN), active' \in Seq(BOOLEAN), Len(active') >= Len(active),
         Len(active) > 0, \A m \in Over : active'[m] = active[m]
  PROVE  \A n \in Over \cup {0} : ActiveIn(active', n) = ActiveIn(active, n)
BY DEF Over, ActiveIn

LEMMA ActivityInv ==
  ASSUME PageInv, hadActivity' = TRUE, active' = Noticed,
         scrollPerc' \in Positions \cup {0}, UNCHANGED <<activityCount, sent>>
  PROVE  PageInv'
<1>1. /\ active' \in Seq(BOOLEAN) /\ Len(active') = Len(active) /\ Len(active) > 0
      /\ active'[Len(active)] = TRUE
      /\ \A m \in Over : active'[m] = active[m]
  <2>1. active \in Seq(BOOLEAN) /\ Len(active) > 0
        /\ active' = [active EXCEPT ![Len(active)] = TRUE]
    BY DEF PageInv, Noticed
  <2> DEFINE l == Len(active)
  <2>2. l \in Nat \ {0} /\ active \in [1..l -> BOOLEAN]
    BY <2>1
  <2>3. active' \in [1..l -> BOOLEAN] /\ active'[l] = TRUE
        /\ \A m \in 1..(l - 1) : active'[m] = active[m]
    <3>1. active' = [active EXCEPT ![l] = TRUE]
      BY <2>1
    <3> HIDE DEF l
    <3>2. l \in 1..l /\ \A m \in 1..(l - 1) : m \in 1..l /\ m # l
      <4>1. l \in Nat \ {0}
        BY <2>2
      <4> QED BY <4>1
    <3>3. active' \in [1..l -> BOOLEAN]
      BY <2>2, <3>1, Zenon
    <3>4. active'[l] = TRUE
      BY <2>2, <3>1, <3>2, Zenon
    <3>5. \A m \in 1..(l - 1) : active'[m] = active[m]
      BY <2>2, <3>1, <3>2, Zenon
    <3> QED BY <3>3, <3>4, <3>5
  <2>4. active' \in Seq(BOOLEAN) /\ Len(active') = l
    <3> HIDE DEF l
    <3> QED BY <2>2, <2>3
  <2> QED BY <2>1, <2>3, <2>4 DEF Over
<1>2. \A n \in Over \cup {0} : ActiveIn(active', n) = ActiveIn(active, n)
  BY <1>1, OverStays DEF PageInv
<1>3. Len(active) - 1 \in Over \cup {0}
  BY <1>1 DEF Over
<1>4. activityCount' = Cardinality(ActiveIn(active', Len(active') - 1))
  BY <1>1, <1>2, <1>3 DEF PageInv
<1>5. \A n \in 1..Len(sent) : ReportRight(sent[n])'
  BY <1>1, <1>2 DEF PageInv, ReportRight, Over
<1>6. Flag'
  BY <1>1 DEF Flag
<1> QED BY <1>1, <1>4, <1>5, <1>6 DEF PageInv

\* An interval ends: it is counted if it was active, and reported perhaps.
LEMMA ReportInv == ASSUME PageInv, NEW drawn \in BOOLEAN, ReportOrNot(drawn) PROVE PageInv'
<1> DEFINE latest == Len(active)
<1>1. /\ active' \in Seq(BOOLEAN) /\ Len(active') = latest + 1 /\ latest \in Nat \ {0}
      /\ active'[latest + 1] = FALSE
      /\ \A m \in 1..latest : active'[m] = active[m]
  BY DEF PageInv, ReportOrNot
<1>2. \A n \in Over \cup {0} : ActiveIn(active', n) = ActiveIn(active, n)
  <2>1. \A m \in Over : active'[m] = active[m]
    <3>1. Over \subseteq 1..latest
      BY <1>1 DEF Over
    <3> HIDE DEF latest
    <3> QED BY <1>1, <3>1
  <2>2. active \in Seq(BOOLEAN) /\ Len(active) > 0 /\ Len(active') >= Len(active)
    BY <1>1 DEF PageInv
  <2> HIDE DEF latest
  <2> QED BY <1>1, <2>1, <2>2, OverStays
<1>3. latest - 1 \in Over \cup {0} /\ Over' = 1..latest
  <2>1. Over' = 1..(Len(active') - 1) /\ Over = 1..(latest - 1)
    BY DEF Over
  <2> HIDE DEF latest
  <2> QED BY <1>1, <2>1
<1>4. /\ IsFiniteSet(ActiveIn(active, latest - 1))
      /\ latest \notin ActiveIn(active, latest - 1)
  <2>1. ActiveIn(active, latest - 1) \subseteq 1..(latest - 1)
    BY DEF ActiveIn
  <2>2. IsFiniteSet(1..(latest - 1))
    BY <1>1, FS_Interval
  <2> QED BY <1>1, <2>1, <2>2, FS_Subset
<1>5. hadActivity' = FALSE /\ scrollPerc' = scrollPerc
  BY DEF ReportOrNot, ResetAlways, PageInv, Flag
<1>6. activityCount' \in Nat /\ activityCount' >= activityCount
      /\ (hadActivity => activityCount' = activityCount + 1)
  BY DEF ReportOrNot, PageInv, Flag
<1>7. activityCount' = Cardinality(ActiveIn(active', latest))
  <2>1. CASE hadActivity
    <3>1. ActiveIn(active', latest) = ActiveIn(active, latest - 1) \cup {latest}
      BY <1>1, <2>1 DEF ActiveIn, PageInv, Flag
    <3> QED BY <1>4, <1>6, <2>1, <3>1, FS_AddElement DEF PageInv
  <2>2. CASE ~ hadActivity
    <3>1. ActiveIn(active', latest) = ActiveIn(active, latest - 1)
      BY <1>1, <2>2 DEF ActiveIn, PageInv, Flag
    <3> QED BY <2>2, <3>1 DEF ReportOrNot, PageInv, Flag
  <2> QED BY <2>1, <2>2 DEF PageInv
<1>8. \A n \in 1..Len(sent) : ReportRight(sent[n])'
  <2> SUFFICES ASSUME NEW n \in 1..Len(sent) PROVE ReportRight(sent[n])'
    OBVIOUS
  <2> DEFINE r == sent[n]
  <2>1. ReportRight(r) /\ r \in Reports
    BY DEF PageInv
  <2>2. sent'[n] = r
    BY DEF ReportOrNot, PageInv, Flag
  <2>3. /\ r.interval \in Over' /\ active'[r.interval]
        /\ r.count = Cardinality(ActiveIn(active', r.interval))
    <3> HIDE DEF r
    <3>1. r.interval \in Over /\ r.interval \in 1..latest
      BY <1>1, <2>1 DEF ReportRight, Over
    <3>2. ActiveIn(active', r.interval) = ActiveIn(active, r.interval)
      BY <1>2, <3>1
    <3>3. r.count = Cardinality(ActiveIn(active, r.interval)) /\ active[r.interval]
      BY <2>1 DEF ReportRight
    <3> QED BY <1>1, <1>3, <3>1, <3>2, <3>3
  <2>4. r.count <= activityCount'
    BY <1>6, <2>1 DEF ReportRight, Reports, PageInv
  <2> HIDE DEF r
  <2> QED BY <2>2, <2>3, <2>4 DEF ReportRight, r
<1>9. CASE hadActivity /\ drawn
  <2> DEFINE r == [count |-> activityCount', scrollPerc |-> scrollPerc, interval |-> latest]
  <2>1. r \in Reports
    BY <1>1, <1>6 DEF Reports, PageInv
  <2>2. /\ sent' = Append(sent, r) /\ sent' \in Seq(Reports)
        /\ Len(sent') = Len(sent) + 1 /\ sent'[Len(sent) + 1] = r
        /\ \A n \in 1..Len(sent) : sent'[n] = sent[n]
    <3>1. sent' = Append(sent, r) /\ sent \in Seq(Reports)
      BY <1>9 DEF ReportOrNot, PageInv, Flag
    <3> HIDE DEF r
    <3> QED BY <2>1, <3>1
  <2>3. r.interval = latest /\ r.count = activityCount'
    OBVIOUS
  <2> HIDE DEF r
  <2>4. ASSUME NEW n \in 1..Len(sent') PROVE ReportRight(sent[n])'
    <3>1. CASE n \in 1..Len(sent)
      BY <1>8, <3>1
    <3>2. CASE n = Len(sent) + 1
      <4>1. sent'[n] = r
        BY <2>2, <3>2
      <4>2. latest \in Over' /\ active'[latest]
        BY <1>1, <1>3, <1>9 DEF PageInv, Flag
      <4> HIDE DEF latest
      <4> QED BY <1>6, <1>7, <2>3, <4>1, <4>2 DEF ReportRight
    <3> QED BY <2>2, <3>1, <3>2 DEF PageInv
  <2>5. \A n \in 1..Len(sent) : sent[n].count <= activityCount /\ sent[n].count \in Nat
    <3> SUFFICES ASSUME NEW n \in 1..Len(sent)
                 PROVE  sent[n].count <= activityCount /\ sent[n].count \in Nat
      OBVIOUS
    <3>1. sent[n] \in Reports /\ ReportRight(sent[n])
      BY DEF PageInv
    <3> QED BY <3>1 DEF ReportRight, Reports
  <2>6. ASSUME NEW m \in 1..Len(sent'), NEW n \in 1..Len(sent'), m < n
        PROVE  sent'[m].count < sent'[n].count
    <3>1. m \in 1..Len(sent) /\ (n \in 1..Len(sent) \/ n = Len(sent) + 1)
      BY <2>2, <2>6 DEF PageInv
    <3>2. CASE n \in 1..Len(sent)
      BY <2>2, <2>6, <3>1, <3>2 DEF PageInv
    <3>3. CASE n = Len(sent) + 1
      <4>1. sent'[m] = sent[m] /\ sent'[n] = r
        BY <2>2, <3>1, <3>3
      <4>2. activityCount' = activityCount + 1 /\ activityCount \in Nat
        BY <1>6, <1>9 DEF PageInv, Flag
      <4> QED BY <2>3, <2>5, <3>1, <4>1, <4>2
    <3> QED BY <3>1, <3>2, <3>3
  <2>7. Flag'
    BY <1>1, <1>5 DEF Flag
  <2>8. Len(active') - 1 = latest
    BY <1>1
  <2> HIDE DEF latest
  <2>9. activityCount' = Cardinality(ActiveIn(active', Len(active') - 1))
    BY <1>7, <2>8
  <2> QED BY <1>1, <1>5, <1>6, <2>2, <2>4, <2>6, <2>7, <2>9 DEF PageInv
<1>10. CASE ~ (hadActivity /\ drawn)
  <2>1. sent' = sent
    BY <1>10 DEF ReportOrNot, PageInv, Flag
  <2>2. Flag'
    BY <1>1, <1>5 DEF Flag
  <2>3. Len(active') - 1 = latest
    BY <1>1
  <2>4. \A n \in 1..Len(sent') : ReportRight(sent[n])'
    BY <1>8, <2>1
  <2> HIDE DEF latest
  <2>5. activityCount' = Cardinality(ActiveIn(active', Len(active') - 1))
    BY <1>7, <2>3
  <2> QED BY <1>1, <1>5, <1>6, <2>1, <2>2, <2>4, <2>5 DEF PageInv
<1> QED BY <1>9, <1>10

LEMMA PageStepInv == PageInv /\ [PageNext]_pageVars => PageInv'
<1> SUFFICES ASSUME PageInv, [PageNext]_pageVars PROVE PageInv'
  OBVIOUS
<1>1. CASE DOMContentLoaded \/ UNCHANGED pageVars
  <2>1. UNCHANGED <<hadActivity, activityCount, scrollPerc, sent, active>>
    BY <1>1 DEF DOMContentLoaded, pageVars
  <2> QED BY <2>1 DEF PageInv, Flag, ReportRight, Over, ActiveIn
<1>2. ASSUME NEW p \in Positions, Scroll(p) PROVE PageInv'
  BY <1>2, ActivityInv DEF Scroll
<1>3. CASE MouseMove
  BY <1>3, ActivityInv DEF MouseMove, PageInv
<1>4. ASSUME NEW drawn \in BOOLEAN, ReportOrNot(drawn) PROVE PageInv'
  BY <1>4, ReportInv
<1> QED BY <1>1, <1>2, <1>3, <1>4 DEF PageNext

(* A report counts the intervals with activity up to its own, each once, is  *)
(* sent in such an interval, and no two have one count                       *)
(* (audience-minutes.js:17-35).                                              *)
THEOREM ReportsRight == PageSpec => []ReportsCountIntervals
<1>1. PageSpec => []PageInv
  BY PageInitInv, PageStepInv, PTL DEF PageSpec
<1>2. PageInv => ReportsCountIntervals
  BY DEF PageInv, ReportRight, ActiveIn, ActiveUpTo, ReportsCountIntervals
<1> QED BY <1>1, <1>2, PTL

-----------------------------------------------------------------------------
(* Reports of resproxy *)

ProxyTypeOK ==
  /\ db \subseteq Rows
  /\ window \in Windows
  /\ ips \in [Ips -> [count : Nat, last : Nat, from : Visitors]]
  /\ unjudged \subseteq Ips
  /\ proxyPc \in {"query", "read", "judge", "written"}

\* The rows of the result that have been read
Done == {r \in db : InWindow(r, window)} \ todo

\* An entry knows whether its text has no row, or one and which.
EntryRight(i) ==
  /\ ips[i].count = 0 => \A r \in Done : r.ip # i
  /\ ips[i].count = 1 => \E r \in Done : /\ r.ip = i
                                         /\ r.tstamp = ips[i].last
                                         /\ \A s \in Done : s.ip = i => s = r

EntriesRight == proxyPc # "query" => \A i \in Ips : EntryRight(i)

\* Nothing is judged before everything is read.
Phases ==
  /\ proxyPc = "query" => bastards = {} /\ \A i \in Ips : ips[i].count = 0
  /\ proxyPc = "read" => todo \subseteq {r \in db : InWindow(r, window)}
  /\ proxyPc \in {"judge", "written"} => todo = {}

ProxyInv == ProxyTypeOK /\ EntriesRight /\ Phases /\ NoNeighbour

-----------------------------------------------------------------------------

LEMMA ProxyInitInv == ProxyInit => ProxyInv
<1> SUFFICES ASSUME ProxyInit PROVE ProxyInv
  OBVIOUS
<1>1. Unseen \in [count : Nat, last : Nat, from : Visitors]
  <2>1. \E v \in Visitors : TRUE
    BY ProxyAssumption
  <2> QED BY <2>1 DEF Unseen
<1>2. window \in Windows
  <2>1. \E w \in Windows : TRUE
    BY ProxyAssumption
  <2> QED BY <2>1 DEF ProxyInit
<1>3. \A i \in Ips : ips[i] = Unseen
  BY DEF ProxyInit
<1>4. Unseen.count = 0
  BY DEF Unseen
<1> HIDE DEF Unseen
<1>5. ProxyTypeOK
  BY <1>1, <1>2 DEF ProxyInit, ProxyTypeOK
<1>6. Phases
  BY <1>3, <1>4 DEF ProxyInit, Phases
<1> QED BY <1>5, <1>6 DEF ProxyInit, ProxyInv, EntriesRight, NoNeighbour

LEMMA LogInv == ASSUME ProxyInv, NEW r \in Rows, Log(r) PROVE ProxyInv'
<1>1. ProxyTypeOK'
  BY DEF Log, ProxyInv, ProxyTypeOK
<1>2. Phases'
  BY DEF Log, ProxyInv, ProxyTypeOK, Phases
<1> QED BY <1>1, <1>2 DEF Log, ProxyInv, Phases, EntriesRight, NoNeighbour

LEMMA QueryInv == ASSUME ProxyInv, NEW w \in Windows, Query(w) PROVE ProxyInv'
<1>1. ProxyTypeOK'
  BY DEF Query, ProxyInv, ProxyTypeOK
<1>2. Done' = {}
  BY DEF Query, Done, InWindow
<1>3. EntriesRight'
  <2>1. \A i \in Ips : ips'[i].count = 0
    BY DEF Query, ProxyInv, Phases
  <2> QED BY <2>1, <1>2 DEF EntriesRight, EntryRight
<1>4. Phases'
  BY DEF Query, Phases, InWindow
<1>5. NoNeighbour'
  BY DEF Query, ProxyInv, Phases, NoNeighbour
<1> QED BY <1>1, <1>3, <1>4, <1>5 DEF ProxyInv

LEMMA ReadRowInv == ASSUME ProxyInv, NEW r \in todo, ReadRow(r) PROVE ProxyInv'
<1>1. r \in db /\ InWindow(r, window) /\ r \in Rows
  BY DEF ReadRow, ProxyInv, Phases, ProxyTypeOK
<1>2. r.ip \in Ips /\ r.tstamp \in Nat /\ r.from \in Visitors
  BY <1>1, ProxyAssumption DEF Rows
<1>3. ips'= [ips EXCEPT ![r.ip] = [count |-> ips[r.ip].count + 1, last |-> r.tstamp,
                                   from |-> r.from]]
  BY DEF ReadRow
<1>4. ProxyTypeOK'
  <2>1. ips[r.ip].count + 1 \in Nat
    BY <1>2 DEF ProxyInv, ProxyTypeOK
  <2>2. ips' \in [Ips -> [count : Nat, last : Nat, from : Visitors]]
    BY <1>2, <1>3, <2>1 DEF ProxyInv, ProxyTypeOK
  <2> QED BY <2>2 DEF ReadRow, ProxyInv, ProxyTypeOK
<1>5. Done' = Done \cup {r} /\ r \notin Done
  BY <1>1 DEF ReadRow, Done, InWindow
<1>6. EntriesRight'
  <2>1. SUFFICES ASSUME NEW i \in Ips PROVE EntryRight(i)'
    BY DEF EntriesRight
  <2>2. EntryRight(i)
    BY DEF ReadRow, ProxyInv, EntriesRight
  <2>3. CASE i # r.ip
    <3>1. ips'[i] = ips[i]
      BY <1>3, <2>3 DEF ProxyInv, ProxyTypeOK
    <3> QED BY <3>1, <2>2, <2>3, <1>5 DEF EntryRight
  <2>4. CASE i = r.ip
    <3>1. ips'[i].count = ips[i].count + 1 /\ ips'[i].last = r.tstamp /\ ips[i].count \in Nat
      BY <1>2, <1>3, <2>4 DEF ProxyInv, ProxyTypeOK
    <3>2. ips'[i].count # 0
      BY <3>1
    <3>3. ips'[i].count = 1 => \A s \in Done : s.ip # i
      BY <3>1, <2>2 DEF EntryRight
    <3> QED BY <3>1, <3>2, <3>3, <2>4, <1>5 DEF EntryRight
  <2> QED BY <2>3, <2>4
<1>7. Phases'
  BY DEF ReadRow, ProxyInv, Phases, InWindow
<1>8. NoNeighbour'
  BY DEF ReadRow, ProxyInv, NoNeighbour, Alone
<1> QED BY <1>4, <1>6, <1>7, <1>8 DEF ProxyInv

LEMMA ReadAllInv == ASSUME ProxyInv, ReadAll PROVE ProxyInv'
<1>1. ProxyTypeOK'
  BY DEF ReadAll, ProxyInv, ProxyTypeOK
<1>2. Done' = Done
  BY DEF ReadAll, Done, InWindow
<1>3. EntriesRight'
  BY <1>2 DEF ReadAll, ProxyInv, EntriesRight, EntryRight
<1> QED BY <1>1, <1>3 DEF ReadAll, ProxyInv, Phases, NoNeighbour, Alone

\* A hit alone in the window and away from its ends is alone everywhere.
LEMMA JudgedAlone ==
  ASSUME ProxyInv, NEW i \in Ips, proxyPc = "judge",
         ips[i].count = 1, ~ NearEdge(ips[i].last)
  PROVE  \E r \in db : Address(i) = Address(r.ip) /\ Alone(r)
<1>1. todo = {} /\ EntryRight(i)
  BY DEF ProxyInv, Phases, EntriesRight
<1>2. PICK r \in Done : /\ r.ip = i
                        /\ r.tstamp = ips[i].last
                        /\ \A s \in Done : s.ip = i => s = r
  BY <1>1 DEF EntryRight
<1>3. r \in db /\ InWindow(r, window)
  BY <1>2 DEF Done
<1>4. window.start \in Int /\ window.end \in Int /\ BorderSeconds \in Nat
  BY ProxyAssumption DEF ProxyInv, ProxyTypeOK
<1>5. \A s \in db : s.tstamp \in Nat
  BY ProxyAssumption DEF ProxyInv, ProxyTypeOK, Rows
<1>6. /\ ~ r.tstamp - window.start < BorderSeconds
      /\ ~ window.end - r.tstamp < BorderSeconds
  BY <1>2 DEF NearEdge
<1>7. ASSUME NEW s \in db, s.ip = r.ip, s # r
      PROVE  Apart(s.tstamp, r.tstamp)
  <2>1. ~ InWindow(s, window)
    BY <1>1, <1>2, <1>7 DEF Done
  <2>2. s.tstamp \in Nat /\ r.tstamp \in Nat
    BY <1>3, <1>5
  <2> QED BY <2>1, <2>2, <1>4, <1>6 DEF InWindow, Apart
<1> QED BY <1>2, <1>3, <1>7 DEF Alone

LEMMA JudgeInv == ASSUME ProxyInv, NEW i \in Ips, Judge(i) PROVE ProxyInv'
<1>1. ProxyTypeOK'
  BY DEF Judge, ProxyInv, ProxyTypeOK
<1>2. Done' = Done
  BY DEF Judge, Done, InWindow
<1>3. EntriesRight'
  BY <1>2 DEF Judge, ProxyInv, EntriesRight, EntryRight
<1>4. Phases'
  BY DEF Judge, ProxyInv, Phases
<1>5. NoNeighbour'
  <2>1. \A c \in bastards : \E r \in db : c = Address(r.ip) /\ Alone(r)
    BY DEF ProxyInv, NoNeighbour
  <2>2. CASE ips[i].count = 1 /\ ~ NearEdge(ips[i].last)
    <3>1. bastards' \subseteq bastards \cup {Address(i)}
      BY <2>2 DEF Judge, Inserted
    <3>2. \E r \in db : Address(i) = Address(r.ip) /\ Alone(r)
      BY <2>2, JudgedAlone DEF Judge
    <3>3. \A c \in bastards' : \E r \in db : c = Address(r.ip) /\ Alone(r)
      BY <2>1, <3>1, <3>2
    <3> QED BY <3>3 DEF Judge, NoNeighbour, Alone
  <2>3. CASE ~ (ips[i].count = 1 /\ ~ NearEdge(ips[i].last))
    BY <2>1, <2>3 DEF Judge, NoNeighbour, Alone
  <2> QED BY <2>2, <2>3
<1> QED BY <1>1, <1>3, <1>4, <1>5 DEF ProxyInv

LEMMA WriteInv == ASSUME ProxyInv, Write PROVE ProxyInv'
<1>1. Done' = Done
  BY DEF Write, Done, InWindow
<1>2. EntriesRight'
  BY <1>1 DEF Write, ProxyInv, EntriesRight, EntryRight
<1> QED BY <1>2 DEF Write, ProxyInv, ProxyTypeOK, Phases, NoNeighbour, Alone

LEMMA ProxyStepInv == ProxyInv /\ [ProxyNext]_proxyVars => ProxyInv'
<1> SUFFICES ASSUME ProxyInv, [ProxyNext]_proxyVars PROVE ProxyInv'
  OBVIOUS
<1>1. CASE UNCHANGED proxyVars
  <2>1. Done' = Done
    BY <1>1 DEF proxyVars, Done, InWindow
  <2>2. EntriesRight'
    BY <1>1, <2>1 DEF proxyVars, ProxyInv, EntriesRight, EntryRight
  <2> QED BY <1>1, <2>2 DEF proxyVars, ProxyInv, ProxyTypeOK, Phases, NoNeighbour, Alone,
                            InWindow
<1> QED BY <1>1, LogInv, QueryInv, ReadRowInv, ReadAllInv, JudgeInv, WriteInv DEF ProxyNext

(* Every address reported has a hit with no neighbour of the same ip in the  *)
(* whole database, read or not (resproxy.cc:36-61, 93-95).                   *)
THEOREM ReportedAlone == ProxySpec => []NoNeighbour
<1>1. ProxySpec => []ProxyInv
  BY ProxyInitInv, ProxyStepInv, PTL DEF ProxySpec
<1>2. ProxyInv => NoNeighbour
  BY DEF ProxyInv
<1> QED BY <1>1, <1>2, PTL

=============================================================================
