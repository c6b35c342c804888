---------------------------- MODULE NumberLemmas ----------------------------
(***************************************************************************)
(* Facts about numbers that several proofs need: induction over a set of   *)
(* numbers, drawn from the least number of a set, quotients and remainders *)
(* by a divisor that is not a literal, digits of a number, and what a      *)
(* recursive function that adds numbers or joins sequences computes.       *)
(***************************************************************************)
EXTENDS Integers, Sequences, WellFoundedInduction, TLAPS

LEMMA LeastNumber ==
  ASSUME NEW T, T \subseteq Nat, T # {}
  PROVE  \E m \in T : \A n \in T : m <= n
<1> DEFINE R == OpToRel(<, Nat)
<1>1. IsWellFoundedOn(R, Nat)
  BY NatLessThanWellFounded
<1>2. \A a, b \in Nat : a < b => <<a, b>> \in R
  BY DEF OpToRel
<1> HIDE DEF R
<1>3. PICK m \in T : \A n \in T : ~(<<n, m>> \in R)
  BY <1>1, WFMin
<1>4. m \in Nat /\ \A n \in T : n \in Nat
  OBVIOUS
<1>5. \A n \in T : ~(n < m)
  BY <1>2, <1>3, <1>4
<1> QED BY <1>4, <1>5

\* Induction, with the set of the numbers that have the property.
LEMMA SetInduction ==
  ASSUME NEW S, 0 \in S, \A n \in Nat : n \in S => n + 1 \in S
  PROVE  Nat \subseteq S
<1> DEFINE T == {n \in Nat : n \notin S}
<1> SUFFICES ASSUME T # {} PROVE FALSE
  OBVIOUS
<1>1. PICK m \in T : \A n \in T : m <= n
  BY LeastNumber
<1>2. m # 0 /\ m - 1 \in Nat /\ m - 1 \notin T
  BY <1>1
<1> QED BY <1>1, <1>2

LEMMA GreatestNumber ==
  ASSUME NEW T, NEW b \in Nat, T \subseteq 0 .. b, T # {}
  PROVE  \E m \in T : \A n \in T : n <= m
<1> DEFINE D == {b - n : n \in T}
<1>1. PICK d \in D : \A e \in D : d <= e
  <2>1. D \subseteq Nat
    <3>1. \A n \in T : n \in Nat /\ n <= b
      OBVIOUS
    <3> QED BY <3>1
  <2>2. D # {}
    OBVIOUS
  <2> HIDE DEF D
  <2> QED BY <2>1, <2>2, LeastNumber
<1>2. PICK m \in T : d = b - m
  OBVIOUS
<1>3. \A n \in T : b - m <= b - n
  BY <1>1, <1>2
<1> QED BY <1>3

\* A multiple of d other than zero is not nearer to zero than d.
LEMMA Multiples ==
  ASSUME NEW d \in Nat \ {0}, NEW k \in Int
  PROVE  /\ k >= 1 => k * d >= d
         /\ k <= -1 => k * d <= -d
         /\ k * d \in Int
  OBVIOUS

LEMMA QuotientIsUnique ==
  ASSUME NEW d \in Nat \ {0}, NEW q \in Int, NEW r \in 0 .. d - 1,
         NEW p \in Int, NEW s \in 0 .. d - 1, q * d + r = p * d + s
  PROVE  q = p /\ r = s
<1> DEFINE k == q - p
<1>1. k \in Int /\ k * d = s - r
  OBVIOUS
<1> HIDE DEF k
<1>2. k = 0
  BY <1>1, Multiples
<1> QED BY <1>1, <1>2 DEF k

LEMMA QuotientAndRest ==
  ASSUME NEW d \in Nat \ {0}, NEW n \in Int
  PROVE  /\ n \div d \in Int /\ n % d \in 0 .. d - 1
         /\ n = (n \div d) * d + (n % d)
         /\ n \in Nat => n \div d \in Nat
  OBVIOUS

LEMMA DivMod ==
  ASSUME NEW d \in Nat \ {0}, NEW q \in Int, NEW r \in 0 .. d - 1
  PROVE  (q * d + r) \div d = q /\ (q * d + r) % d = r
<1> DEFINE n == q * d + r
<1>1. n \in Int
  OBVIOUS
<1>2. n = (n \div d) * d + (n % d) /\ n \div d \in Int /\ n % d \in 0 .. d - 1
  BY <1>1, QuotientAndRest
<1> QED BY <1>2, QuotientIsUnique

LEMMA ModAdd ==
  ASSUME NEW d \in Nat \ {0}, NEW n \in Int, NEW k \in Int
  PROVE  ((n % d) + k) % d = (n + k) % d
<1> DEFINE q == n \div d
           r == n % d
           m == r + k
           p == m \div d
           s == m % d
<1>1. n = q * d + r /\ q \in Int /\ r \in Int
  BY QuotientAndRest
<1>2. m = p * d + s /\ p \in Int /\ s \in 0 .. d - 1
  <2>1. m \in Int
    BY <1>1
  <2> HIDE DEF m
  <2> QED BY <2>1, QuotientAndRest
<1> HIDE DEF q, r, m, p, s
<1>3. n + k = (q + p) * d + s
  BY <1>1, <1>2 DEF m
<1>4. q + p \in Int
  BY <1>1, <1>2
<1>5. ((q + p) * d + s) % d = s
  BY <1>2, <1>4, DivMod
<1> QED BY <1>3, <1>5 DEF s, m, r

\* The powers of two a 32-bit shift may give are positive numbers.
LEMMA PowersArePositive == \A n \in 0 .. 31 : 2^n \in Nat \ {0}
<1> SUFFICES ASSUME NEW n \in 0 .. 31
             PROVE  2^n \in Nat \ {0}
  OBVIOUS
<1>0. CASE n = 0
  <2>1. 2^0 = 1
    OBVIOUS
  <2> QED BY <1>0, <2>1
<1>1. CASE n = 1
  <2>1. 2^1 = 2
    OBVIOUS
  <2> QED BY <1>1, <2>1
<1>2. CASE n = 2
  <2>1. 2^2 = 4
    OBVIOUS
  <2> QED BY <1>2, <2>1
<1>3. CASE n = 3
  <2>1. 2^3 = 8
    OBVIOUS
  <2> QED BY <1>3, <2>1
<1>4. CASE n = 4
  <2>1. 2^4 = 16
    OBVIOUS
  <2> QED BY <1>4, <2>1
<1>5. CASE n = 5
  <2>1. 2^5 = 32
    OBVIOUS
  <2> QED BY <1>5, <2>1
<1>6. CASE n = 6
  <2>1. 2^6 = 64
    OBVIOUS
  <2> QED BY <1>6, <2>1
<1>7. CASE n = 7
  <2>1. 2^7 = 128
    OBVIOUS
  <2> QED BY <1>7, <2>1
<1>8. CASE n = 8
  <2>1. 2^8 = 256
    OBVIOUS
  <2> QED BY <1>8, <2>1
<1>9. CASE n = 9
  <2>1. 2^9 = 512
    OBVIOUS
  <2> QED BY <1>9, <2>1
<1>10. CASE n = 10
  <2>1. 2^10 = 1024
    OBVIOUS
  <2> QED BY <1>10, <2>1
<1>11. CASE n = 11
  <2>1. 2^11 = 2048
    OBVIOUS
  <2> QED BY <1>11, <2>1
<1>12. CASE n = 12
  <2>1. 2^12 = 4096
    OBVIOUS
  <2> QED BY <1>12, <2>1
<1>13. CASE n = 13
  <2>1. 2^13 = 8192
    OBVIOUS
  <2> QED BY <1>13, <2>1
<1>14. CASE n = 14
  <2>1. 2^14 = 16384
    OBVIOUS
  <2> QED BY <1>14, <2>1
<1>15. CASE n = 15
  <2>1. 2^15 = 32768
    OBVIOUS
  <2> QED BY <1>15, <2>1
<1>16. CASE n = 16
  <2>1. 2^16 = 65536
    OBVIOUS
  <2> QED BY <1>16, <2>1
<1>17. CASE n = 17
  <2>1. 2^17 = 131072
    OBVIOUS
  <2> QED BY <1>17, <2>1
<1>18. CASE n = 18
  <2>1. 2^18 = 262144
    OBVIOUS
  <2> QED BY <1>18, <2>1
<1>19. CASE n = 19
  <2>1. 2^19 = 524288
    OBVIOUS
  <2> QED BY <1>19, <2>1
<1>20. CASE n = 20
  <2>1. 2^20 = 1048576
    OBVIOUS
  <2> QED BY <1>20, <2>1
<1>21. CASE n = 21
  <2>1. 2^21 = 2097152
    OBVIOUS
  <2> QED BY <1>21, <2>1
<1>22. CASE n = 22
  <2>1. 2^22 = 4194304
    OBVIOUS
  <2> QED BY <1>22, <2>1
<1>23. CASE n = 23
  <2>1. 2^23 = 8388608
    OBVIOUS
  <2> QED BY <1>23, <2>1
<1>24. CASE n = 24
  <2>1. 2^24 = 16777216
    OBVIOUS
  <2> QED BY <1>24, <2>1
<1>25. CASE n = 25
  <2>1. 2^25 = 33554432
    OBVIOUS
  <2> QED BY <1>25, <2>1
<1>26. CASE n = 26
  <2>1. 2^26 = 67108864
    OBVIOUS
  <2> QED BY <1>26, <2>1
<1>27. CASE n = 27
  <2>1. 2^27 = 134217728
    OBVIOUS
  <2> QED BY <1>27, <2>1
<1>28. CASE n = 28
  <2>1. 2^28 = 268435456
    OBVIOUS
  <2> QED BY <1>28, <2>1
<1>29. CASE n = 29
  <2>1. 2^29 = 536870912
    OBVIOUS
  <2> QED BY <1>29, <2>1
<1>30. CASE n = 30
  <2>1. 2^30 = 1073741824
    OBVIOUS
  <2> QED BY <1>30, <2>1
<1>31. CASE n = 31
  <2>1. 2^31 = 2147483648
    OBVIOUS
  <2> QED BY <1>31, <2>1
<1> QED BY <1>0, <1>1, <1>2, <1>3, <1>4, <1>5, <1>6, <1>7, <1>8, <1>9, <1>10, <1>11, <1>12, <1>13, <1>14, <1>15,
           <1>16, <1>17, <1>18, <1>19, <1>20, <1>21, <1>22, <1>23, <1>24, <1>25, <1>26, <1>27, <1>28, <1>29, <1>30, <1>31

-----------------------------------------------------------------------------
\* Bounds of the values of a function on 1 .. n.

\* A number written with a low digit below m, a digit below d and the rest.
Digits(n, m, d, h, u, low) ==
  /\ n % m = low /\ n \div m = h * d + u /\ n \div (m * d) = h /\ (n \div m) % d = u

LEMMA DigitsOf ==
  ASSUME NEW m \in Nat \ {0}, NEW d \in Nat \ {0}, NEW h \in Int,
         NEW u \in 0 .. d - 1, NEW low \in 0 .. m - 1
  PROVE  /\ Digits((h * d + u) * m + low, m, d, h, u, low)
         /\ (h * d + u) * m + low = h * (m * d) + (u * m + low)
         /\ m * d \in Nat \ {0} /\ u * m + low \in 0 .. m * d - 1
<1> DEFINE s == h * d + u
           n == s * m + low
           c == m * d
           r == u * m + low
<1>1. s \in Int /\ c \in Nat \ {0}
  OBVIOUS
<1>2. s \div d = h /\ s % d = u
  BY DivMod
<1>3. r \in 0 .. c - 1
  <2> DEFINE k == d - 1 - u
  <2>1. k \in Nat /\ k * m \in Nat
    OBVIOUS
  <2>2. c = (k + 1 + u) * m
    OBVIOUS
  <2>3. (k + 1 + u) * m = k * m + m + u * m
    <3> HIDE DEF k
    <3> QED BY <2>1
  <2> DEFINE a == k * m
             b == u * m
  <2>4. b \in Nat /\ a \in Nat
    BY <2>1
  <2> HIDE DEF a, b, k
  <2>5. c = a + m + b
    BY <2>2, <2>3 DEF a, b
  <2> HIDE DEF c
  <2>6. b + low \in 0 .. c - 1
    BY <2>4, <2>5
  <2> QED BY <2>6 DEF b
<1>4. n = h * c + r
  <2>1. (h * d + u) * m = (h * d) * m + u * m
    OBVIOUS
  <2>2. (h * d) * m = h * (m * d)
    OBVIOUS
  <2>3. (h * d) * m \in Int /\ u * m \in Int
    OBVIOUS
  <2> QED BY <2>1, <2>2, <2>3
<1>5. n % m = low /\ n \div m = s
  <2> HIDE DEF s
  <2> QED BY <1>1, DivMod
<1>6. n \div c = h
  <2> HIDE DEF n, c, r
  <2>1. (h * c + r) \div c = h
    BY <1>1, <1>3, DivMod
  <2> QED BY <1>4, <2>1
<1> HIDE DEF n, c, s, r
<1>7. Digits(n, m, d, h, u, low)
  BY <1>2, <1>5, <1>6 DEF Digits, s, c
<1> QED BY <1>1, <1>3, <1>4, <1>7 DEF n, c, s, r

\* A digit takes another value: the others stay, and so does a bound on the
\* number that is a multiple of the place of the rest.
DigitIsReplaced(n, m, d, q, u) ==
  LET p == n + ((u - ((n \div m) % d)) * m)
  IN  /\ p \in Nat /\ p < q * (m * d)
      /\ p % m = n % m /\ p \div (m * d) = n \div (m * d)
      /\ (p \div m) % d = u

LEMMA DigitReplaced ==
  ASSUME NEW m \in Nat \ {0}, NEW d \in Nat \ {0}, NEW q \in Nat, NEW n \in Nat,
         n < q * (m * d), NEW u \in 0 .. d - 1
  PROVE  DigitIsReplaced(n, m, d, q, u)
<1> DEFINE t == n \div m
           low == n % m
           h == t \div d
           f == t % d
           p == n + ((u - f) * m)
           c == m * d
<1>1. t \in Nat /\ low \in 0 .. m - 1 /\ n = t * m + low
  <2>1. n \in Int
    OBVIOUS
  <2> QED BY <2>1, QuotientAndRest, Zenon
<1>2. h \in Nat /\ f \in 0 .. d - 1 /\ t = h * d + f
  <2> HIDE DEF t
  <2>1. t \in Int
    BY <1>1
  <2> QED BY <1>1, <2>1, QuotientAndRest, Zenon
<1> HIDE DEF t, low, h, f
<1>3. /\ Digits(n, m, d, h, f, low) /\ n = h * c + (f * m + low)
      /\ c \in Nat \ {0} /\ f * m + low \in 0 .. c - 1
  BY <1>1, <1>2, DigitsOf
<1>4. p = (h * d + u) * m + low
  <2> DEFINE g == h * d
  <2>1. g \in Int
    BY <1>2
  <2>2. n = (g + f) * m + low
    BY <1>1, <1>2
  <2> HIDE DEF g
  <2>3. p = (g + u) * m + low
    <3>1. (g + f) * m = g * m + f * m /\ (u - f) * m = u * m - f * m
      BY <1>2, <2>1
    <3>2. (g + u) * m = g * m + u * m
      BY <2>1
    <3>3. g * m \in Int /\ f * m \in Int /\ u * m \in Int
      BY <1>2, <2>1
    <3> QED BY <1>1, <2>2, <3>1, <3>2, <3>3
  <2> QED BY <2>3 DEF g
<1>5. /\ Digits(p, m, d, h, u, low) /\ p = h * c + (u * m + low)
      /\ u * m + low \in 0 .. c - 1
  BY <1>1, <1>2, <1>4, DigitsOf
<1>6. p \in Nat /\ p < q * c
  <2> DEFINE k == q - h
             r == u * m + low
             e == f * m + low
  <2>1. k \in Int /\ r \in 0 .. c - 1 /\ e \in 0 .. c - 1
    BY <1>2, <1>3, <1>5
  <2>2. q * c = h * c + k * c /\ h * c \in Nat /\ k * c \in Int
    <3> HIDE DEF c
    <3> QED BY <1>2, <1>3
  <2> HIDE DEF k, r, e, c
  <2>3. n < q * c /\ n = h * c + e
    BY <1>3 DEF c, e
  <2>4. k * c > 0
    BY <2>1, <2>2, <2>3
  <2>5. k >= 1
    <3>1. k <= -1 => k * c <= -c
      BY <1>3, <2>1, Multiples
    <3>2. k = 0 => k * c = 0
      BY <1>3
    <3> QED BY <1>3, <2>1, <2>4, <3>1, <3>2
  <2>6. k * c >= c
    BY <1>3, <2>1, <2>5, Multiples
  <2>7. p = h * c + r
    BY <1>5 DEF r
  <2> HIDE DEF p
  <2> QED BY <1>3, <2>1, <2>2, <2>6, <2>7
<1> HIDE DEF p, c
<1>7. p % m = n % m /\ p \div c = n \div c /\ (p \div m) % d = u
  BY <1>3, <1>5 DEF Digits, c
<1> QED BY <1>6, <1>7 DEF p, c, f, t, DigitIsReplaced

LEMMA ValuesAreBounded ==
  ASSUME NEW n \in Nat, NEW f, \A k \in 1 .. n : f[k] \in Nat
  PROVE  \E b \in Nat : \A k \in 1 .. n : f[k] <= b
<1> DEFINE S == {m \in Nat : m <= n => \E b \in Nat : \A k \in 1 .. m : f[k] <= b}
<1>1. 0 \in S
  OBVIOUS
<1>2. ASSUME NEW m \in Nat, m \in S
      PROVE  m + 1 \in S
  <2> SUFFICES ASSUME m + 1 <= n
               PROVE  \E b \in Nat : \A k \in 1 .. m + 1 : f[k] <= b
    OBVIOUS
  <2>1. PICK b \in Nat : \A k \in 1 .. m : f[k] <= b
    BY <1>2
  <2>2. f[m + 1] \in Nat /\ \A k \in 1 .. m : f[k] \in Nat
    OBVIOUS
  <2>3. CASE f[m + 1] <= b
    <3>1. \A k \in 1 .. m + 1 : f[k] <= b
      BY <2>1, <2>3
    <3> QED BY <3>1
  <2>4. CASE f[m + 1] > b
    <3>1. \A k \in 1 .. m + 1 : f[k] <= f[m + 1]
      <4> TAKE k \in 1 .. m + 1
      <4>1. CASE k = m + 1
        BY <2>2, <4>1
      <4>2. CASE k \in 1 .. m
        BY <2>1, <2>2, <2>4, <4>2
      <4> QED BY <4>1, <4>2
    <3> QED BY <2>2, <3>1
  <2> QED BY <2>2, <2>3, <2>4
<1>3. n \in S
  <2> HIDE DEF S
  <2> QED BY <1>1, <1>2, SetInduction
<1> QED BY <1>3

LEMMA LeastValue ==
  ASSUME NEW n \in Nat \ {0}, NEW f, \A k \in 1 .. n : f[k] \in Nat
  PROVE  \E m \in 1 .. n : \A k \in 1 .. n : f[m] <= f[k]
<1> DEFINE T == {f[k] : k \in 1 .. n}
<1>1. T \subseteq Nat /\ T # {}
  <2>1. f[1] \in T
    OBVIOUS
  <2> QED BY <2>1
<1>2. PICK v \in T : \A w \in T : v <= w
  <2> HIDE DEF T
  <2> QED BY <1>1, LeastNumber
<1> QED BY <1>2

LEMMA GreatestValue ==
  ASSUME NEW n \in Nat \ {0}, NEW f, \A k \in 1 .. n : f[k] \in Nat
  PROVE  \E m \in 1 .. n : \A k \in 1 .. n : f[m] >= f[k]
<1> DEFINE T == {f[k] : k \in 1 .. n}
<1>1. PICK b \in Nat : \A k \in 1 .. n : f[k] <= b
  BY ValuesAreBounded
<1>2. T \subseteq 0 .. b /\ T # {}
  <2>1. f[1] \in T
    OBVIOUS
  <2>2. \A k \in 1 .. n : f[k] \in 0 .. b
    BY <1>1
  <2> QED BY <2>1, <2>2
<1>3. PICK v \in T : \A w \in T : w <= v
  <2> HIDE DEF T
  <2> QED BY <1>2, GreatestNumber
<1>4. PICK m \in 1 .. n : v = f[m]
  BY <1>3
<1> QED BY <1>3, <1>4

-----------------------------------------------------------------------------
\* Running sums: f[k] is h plus the first k elements of s.

IsSum(f, h, s, n) == f = [k \in 0 .. n |-> IF k = 0 THEN h ELSE f[k - 1] + s[k]]

LEMMA SumExists ==
  ASSUME NEW n \in Nat, NEW h \in Int, NEW s, \A k \in 1 .. n : s[k] \in Int
  PROVE  \E f : IsSum(f, h, s, n)
<1> DEFINE Good(f, m) == /\ f \in [0 .. m -> Int]
                         /\ f[0] = h
                         /\ \A k \in 1 .. m : f[k] = f[k - 1] + s[k]
           S == {m \in Nat : m <= n => \E f : Good(f, m)}
<1>1. 0 \in S
  <2>1. Good([k \in 0 .. 0 |-> h], 0)
    OBVIOUS
  <2> QED BY <2>1
<1>2. ASSUME NEW m \in Nat, m \in S
      PROVE  m + 1 \in S
  <2> SUFFICES ASSUME m + 1 <= n
               PROVE  \E f : Good(f, m + 1)
    OBVIOUS
  <2>1. PICK f : Good(f, m)
    BY <1>2
  <2> DEFINE g == [k \in 0 .. m + 1 |-> IF k = m + 1 THEN f[m] + s[m + 1] ELSE f[k]]
  <2>2. s[m + 1] \in Int /\ f[m] \in Int
    BY <2>1
  <2>3. g \in [0 .. m + 1 -> Int] /\ g[0] = h
    BY <2>1, <2>2
  <2>4. ASSUME NEW k \in 1 .. m + 1
        PROVE  g[k] = g[k - 1] + s[k]
    BY <2>1
  <2> QED BY <2>3, <2>4
<1>3. n \in S
  <2> HIDE DEF S
  <2> QED BY <1>1, <1>2, SetInduction
<1>4. PICK f : Good(f, n)
  BY <1>3
<1>5. IsSum(f, h, s, n)
  <2>1. \A k \in 0 .. n : f[k] = IF k = 0 THEN h ELSE f[k - 1] + s[k]
    BY <1>4
  <2> QED BY <1>4, <2>1 DEF IsSum
<1> QED BY <1>5

SumFacts(f, h, s, n) == /\ f[0] = h
                        /\ \A k \in 1 .. n : f[k] = f[k - 1] + s[k]
                        /\ \A k \in 0 .. n : f[k] \in Int

\* The sums are numbers, and two sums of the same elements stay as far apart
\* as they start.
LEMMA SumSteps ==
  ASSUME NEW n \in Nat, NEW h \in Int, NEW s, \A k \in 1 .. n : s[k] \in Int,
         NEW f, IsSum(f, h, s, n)
  PROVE  SumFacts(f, h, s, n)
<1>1. f[0] = h /\ \A k \in 1 .. n : f[k] = f[k - 1] + s[k]
  BY DEF IsSum
<1> DEFINE S == {m \in Nat : m <= n => f[m] \in Int}
<1>2. 0 \in S
  BY <1>1
<1>3. \A m \in Nat : m \in S => m + 1 \in S
  BY <1>1
<1>4. Nat \subseteq S
  <2> HIDE DEF S
  <2> QED BY <1>2, <1>3, SetInduction
<1> QED BY <1>1, <1>4 DEF SumFacts

LEMMA SumsStayApart ==
  ASSUME NEW n \in Nat, NEW h \in Int, NEW m \in Int,
         NEW s, \A k \in 1 .. n : s[k] \in Int,
         NEW f, IsSum(f, h, s, n), NEW g, IsSum(g, m, s, n)
  PROVE  f[n] \in Int /\ g[n] \in Int /\ g[n] = f[n] + (m - h)
<1>0. SumFacts(f, h, s, n) /\ SumFacts(g, m, s, n)
  BY SumSteps
<1>1. /\ f[0] = h /\ \A k \in 1 .. n : f[k] = f[k - 1] + s[k]
      /\ \A k \in 0 .. n : f[k] \in Int
  BY <1>0 DEF SumFacts
<1>2. /\ g[0] = m /\ \A k \in 1 .. n : g[k] = g[k - 1] + s[k]
      /\ \A k \in 0 .. n : g[k] \in Int
  BY <1>0 DEF SumFacts
<1> DEFINE S == {j \in Nat : j <= n => g[j] = f[j] + (m - h)}
<1>3. 0 \in S
  BY <1>1, <1>2
<1>4. ASSUME NEW j \in Nat, j \in S
      PROVE  j + 1 \in S
  <2> SUFFICES ASSUME j + 1 <= n PROVE g[j + 1] = f[j + 1] + (m - h)
    OBVIOUS
  <2>1. g[j + 1] = g[j] + s[j + 1] /\ f[j + 1] = f[j] + s[j + 1]
    BY <1>1, <1>2
  <2>2. g[j] \in Int /\ f[j] \in Int /\ s[j + 1] \in Int /\ g[j] = f[j] + (m - h)
    BY <1>1, <1>2, <1>4
  <2> QED BY <2>1, <2>2
<1>5. n \in S
  <2> HIDE DEF S
  <2> QED BY <1>3, <1>4, SetInduction
<1> QED BY <1>1, <1>2, <1>5

-----------------------------------------------------------------------------
\* Queues: f[k] is the first k parts of s put end to end.

IsQueue(f, s, n) == f = [k \in 0 .. n |-> IF k = 0 THEN <<>> ELSE f[k - 1] \o s[k]]

Extends(f, s, k) == f[k] = f[k - 1] \o s[k]

LEMMA QueueSteps ==
  ASSUME NEW n \in Nat, NEW s, NEW f
  PROVE  IsQueue(f, s, n) <=> /\ f = [k \in 0 .. n |-> f[k]]
                              /\ f[0] = <<>>
                              /\ \A k \in 1 .. n : Extends(f, s, k)
<1>1. ASSUME IsQueue(f, s, n)
      PROVE  /\ f = [k \in 0 .. n |-> f[k]] /\ f[0] = <<>>
             /\ \A k \in 1 .. n : Extends(f, s, k)
  <2>1. f = [k \in 0 .. n |-> IF k = 0 THEN <<>> ELSE f[k - 1] \o s[k]]
    BY <1>1 DEF IsQueue
  <2>2. DOMAIN f = 0 .. n /\ f[0] = <<>> /\ f = [k \in 0 .. n |-> f[k]]
    BY <2>1
  <2>3. ASSUME NEW k \in 1 .. n
        PROVE  Extends(f, s, k)
    <3>1. k \in 0 .. n /\ k # 0
      OBVIOUS
    <3>2. f[k] = IF k = 0 THEN <<>> ELSE f[k - 1] \o s[k]
      BY <2>1, <3>1, Zenon
    <3> QED BY <3>1, <3>2, Zenon DEF Extends
  <2> QED BY <2>2, <2>3
<1>2. ASSUME f = [k \in 0 .. n |-> f[k]], f[0] = <<>>,
             \A k \in 1 .. n : Extends(f, s, k)
      PROVE  IsQueue(f, s, n)
  <2>1. ASSUME NEW k \in 0 .. n
        PROVE  f[k] = IF k = 0 THEN <<>> ELSE f[k - 1] \o s[k]
    <3>1. CASE k = 0
      BY <1>2, <3>1
    <3>2. CASE k # 0
      <4>1. k \in 1 .. n
        BY <3>2
      <4>2. Extends(f, s, k)
        BY <1>2, <4>1
      <4> QED BY <3>2, <4>2, Zenon DEF Extends
    <3> QED BY <3>1, <3>2
  <2>2. [k \in 0 .. n |-> f[k]]
          = [k \in 0 .. n |-> IF k = 0 THEN <<>> ELSE f[k - 1] \o s[k]]
    BY <2>1, Zenon
  <2> QED BY <1>2, <2>2, Zenon DEF IsQueue
<1> QED BY <1>1, <1>2, Zenon

LEMMA QueueType ==
  ASSUME NEW n \in Nat, NEW X, NEW s, \A k \in 1 .. n : s[k] \in Seq(X),
         NEW f, IsQueue(f, s, n)
  PROVE  f \in [0 .. n -> Seq(X)]
<1> DEFINE A == {m \in Nat : m <= n => f[m] \in Seq(X)}
<1>0. f = [k \in 0 .. n |-> f[k]] /\ f[0] = <<>> /\ \A k \in 1 .. n : Extends(f, s, k)
  BY QueueSteps
<1>1. 0 \in A
  BY <1>0
<1>2. ASSUME NEW m \in Nat, m \in A
      PROVE  m + 1 \in A
  <2> SUFFICES ASSUME m + 1 <= n PROVE f[m + 1] \in Seq(X)
    OBVIOUS
  <2> DEFINE j == m + 1
  <2>1. j \in 1 .. n /\ j - 1 = m
    OBVIOUS
  <2>2. s[j] \in Seq(X) /\ Extends(f, s, j)
    BY <1>0, <2>1
  <2>3. f[m] \in Seq(X)
    BY <1>2
  <2> HIDE DEF j
  <2>4. f[j] = f[m] \o s[j]
    BY <2>1, <2>2, Zenon DEF Extends
  <2>5. \A a, b \in Seq(X) : a \o b \in Seq(X)
    OBVIOUS
  <2> QED BY <2>2, <2>3, <2>4, <2>5, Zenon DEF j
<1>3. \A m \in 0 .. n : f[m] \in Seq(X)
  <2> HIDE DEF A
  <2>1. Nat \subseteq A
    BY <1>1, <1>2, SetInduction
  <2> QED BY <2>1 DEF A
<1> QED BY <1>0, <1>3

\* When a part is one element or none, o tells which part each element of q
\* is: a part gives one element at most.
Collects(q, o, s, n) ==
  /\ o \in [DOMAIN q -> 1 .. n]
  /\ \A i \in DOMAIN q : s[o[i]] = <<q[i]>>
  /\ \A i, j \in DOMAIN q : o[i] = o[j] => i = j
  /\ \A k \in 1 .. n : s[k] # <<>> => \E i \in DOMAIN q : o[i] = k

LEMMA QueueExists ==
  ASSUME NEW n \in Nat, NEW X, NEW s, \A k \in 1 .. n : s[k] \in Seq(X)
  PROVE  \E f : IsQueue(f, s, n) /\ f \in [0 .. n -> Seq(X)]
<1> DEFINE Good(f, m) == /\ f \in [0 .. m -> Seq(X)]
                         /\ f[0] = <<>>
                         /\ \A k \in 1 .. m : Extends(f, s, k)
           S == {m \in Nat : m <= n => \E f : Good(f, m)}
<1>1. 0 \in S
  <2>1. Good([k \in 0 .. 0 |-> <<>>], 0)
    OBVIOUS
  <2> QED BY <2>1
<1>2. ASSUME NEW m \in Nat, m \in S
      PROVE  m + 1 \in S
  <2> SUFFICES ASSUME m + 1 <= n
               PROVE  \E f : Good(f, m + 1)
    OBVIOUS
  <2>1. PICK f : Good(f, m)
    BY <1>2
  <2> DEFINE g == [k \in 0 .. m + 1 |-> IF k = m + 1 THEN f[m] \o s[m + 1] ELSE f[k]]
  <2>2. f[m] \o s[m + 1] \in Seq(X)
    <3>1. f[m] \in Seq(X) /\ s[m + 1] \in Seq(X)
      BY <2>1
    <3> QED BY <3>1
  <2>3. g \in [0 .. m + 1 -> Seq(X)] /\ g[0] = <<>>
    BY <2>1, <2>2
  <2>4. ASSUME NEW k \in 1 .. m + 1
        PROVE  Extends(g, s, k)
    <3>1. CASE k = m + 1
      <4>1. g[k] = f[m] \o s[m + 1] /\ g[k - 1] = f[m]
        BY <3>1, SMTT(60)
      <4> QED BY <3>1, <4>1 DEF Extends
    <3>2. CASE k \in 1 .. m
      <4>1. g[k] = f[k] /\ g[k - 1] = f[k - 1]
        BY <3>2
      <4> HIDE DEF g
      <4> QED BY <2>1, <3>2, <4>1 DEF Extends
    <3> QED BY <3>1, <3>2
  <2> QED BY <2>3, <2>4
<1>3. n \in S
  <2> HIDE DEF S
  <2> QED BY <1>1, <1>2, SetInduction
<1>4. PICK f : Good(f, n)
  BY <1>3
<1>5. IsQueue(f, s, n)
  <2>1. f = [k \in 0 .. n |-> f[k]]
    BY <1>4
  <2> QED BY <1>4, <2>1, QueueSteps
<1> QED BY <1>4, <1>5

LEMMA QueueCollects ==
  ASSUME NEW n \in Nat, NEW X, NEW s,
         \A k \in 1 .. n : s[k] = <<>> \/ \E y \in X : s[k] = <<y>>,
         NEW f, IsQueue(f, s, n), f \in [0 .. n -> Seq(X)]
  PROVE  f[n] \in Seq(X) /\ \E o : Collects(f[n], o, s, n)
<1> DEFINE S == {m \in Nat : m <= n => \E o : Collects(f[m], o, s, m)}
<1>1. f[0] = <<>> /\ \A k \in 1 .. n : Extends(f, s, k)
  BY QueueSteps
<1>2. 0 \in S
  <2>1. Collects(<<>>, <<>>, s, 0)
    BY DEF Collects
  <2> QED BY <1>1, <2>1
<1>3. ASSUME NEW m \in Nat, m \in S
      PROVE  m + 1 \in S
  <2> SUFFICES ASSUME m + 1 <= n
               PROVE  \E o : Collects(f[m + 1], o, s, m + 1)
    OBVIOUS
  <2>1. PICK o : Collects(f[m], o, s, m)
    BY <1>3
  <2> DEFINE q == f[m]
             p == f[m + 1]
             l == Len(q)
  <2>2. q \in Seq(X) /\ p = q \o s[m + 1]
    <3>1. m + 1 \in 1 .. n /\ m + 1 - 1 = m /\ m \in 0 .. n
      OBVIOUS
    <3>2. Extends(f, s, m + 1)
      BY <1>1, <3>1
    <3>3. f[m + 1] = f[m] \o s[m + 1]
      <4> DEFINE k == m + 1
      <4>1. k - 1 = m /\ Extends(f, s, k)
        BY <3>1, <3>2
      <4> HIDE DEF k
      <4>2. f[k] = f[m] \o s[k]
        BY <4>1, Zenon DEF Extends
      <4> QED BY <4>2, Zenon DEF k
    <3> QED BY <3>1, <3>3
  <2>3. l \in Nat /\ DOMAIN q = 1 .. l
    BY <2>2
  <2>4. /\ o \in [1 .. l -> 1 .. m]
        /\ \A i \in 1 .. l : s[o[i]] = <<q[i]>>
        /\ \A i, j \in 1 .. l : o[i] = o[j] => i = j
        /\ \A k \in 1 .. m : s[k] # <<>> => \E i \in 1 .. l : o[i] = k
    BY <2>1, <2>3 DEF Collects
  <2>5. CASE s[m + 1] = <<>>
    <3>1. p = q
      BY <2>2, <2>5
    <3> HIDE DEF p, q, l
    <3>2. o \in [1 .. l -> 1 .. m + 1]
      BY <2>4
    <3>3. \A k \in 1 .. m + 1 : s[k] # <<>> => \E i \in 1 .. l : o[i] = k
      <4> SUFFICES ASSUME NEW k \in 1 .. m + 1, s[k] # <<>>
                   PROVE  \E i \in 1 .. l : o[i] = k
        OBVIOUS
      <4>1. k \in 1 .. m
        BY <2>5
      <4> QED BY <2>4, <4>1
    <3>4. Collects(q, o, s, m + 1)
      BY <2>3, <2>4, <3>2, <3>3 DEF Collects
    <3> QED BY <3>1, <3>4 DEF p
  <2>6. CASE \E y \in X : s[m + 1] = <<y>>
    <3>1. PICK y \in X : s[m + 1] = <<y>>
      BY <2>6
    <3> DEFINE u == [i \in 1 .. l + 1 |-> IF i = l + 1 THEN m + 1 ELSE o[i]]
    <3>2. /\ DOMAIN p = 1 .. l + 1
          /\ p[l + 1] = y /\ \A i \in 1 .. l : p[i] = q[i]
      <4>1. p = Append(q, y)
        BY <2>2, <3>1
      <4> HIDE DEF p, q
      <4> QED BY <2>2, <4>1
    <3>3. s[m + 1] # <<>>
      BY <3>1
    <3> HIDE DEF q, p, l
    <3>4. u \in [1 .. l + 1 -> 1 .. m + 1]
      BY <2>3, <2>4
    <3>5. \A i \in 1 .. l + 1 : s[u[i]] = <<p[i]>>
      BY <2>3, <2>4, <3>1, <3>2, SMTT(60)
    <3>6. \A i, j \in 1 .. l + 1 : u[i] = u[j] => i = j
      BY <2>3, <2>4, SMTT(60)
    <3>7. \A k \in 1 .. m + 1 : s[k] # <<>> => \E i \in 1 .. l + 1 : u[i] = k
      <4> SUFFICES ASSUME NEW k \in 1 .. m + 1, s[k] # <<>>
                   PROVE  \E i \in 1 .. l + 1 : u[i] = k
        OBVIOUS
      <4>1. CASE k = m + 1
        <5>1. l + 1 \in 1 .. l + 1 /\ u[l + 1] = k
          BY <2>3, <4>1
        <5> QED BY <5>1
      <4>2. CASE k \in 1 .. m
        <5>1. PICK i \in 1 .. l : o[i] = k
          BY <2>4, <4>2
        <5>2. i \in 1 .. l + 1 /\ u[i] = k
          BY <2>3, <5>1
        <5> QED BY <5>2
      <4> QED BY <4>1, <4>2
    <3>8. Collects(p, u, s, m + 1)
      <4> HIDE DEF u
      <4> QED BY <3>2, <3>4, <3>5, <3>6, <3>7 DEF Collects
    <3> QED BY <3>8 DEF p
  <2> QED BY <2>5, <2>6
<1>4. n \in S
  <2> HIDE DEF S
  <2> QED BY <1>2, <1>3, SetInduction
<1> QED BY <1>4

\* The first parts make the same queue whatever parts come after them.
Agree(f, g, l, n) == \A k \in l .. n : f[k] = g[k]

LEMMA QueuesAgree ==
  ASSUME NEW n \in Nat, NEW m \in Nat, n <= m,
         NEW s, NEW t, Agree(s, t, 1, n),
         NEW f, IsQueue(f, s, n), NEW g, IsQueue(g, t, m)
  PROVE  Agree(f, g, 0, n)
<1> DEFINE S == {j \in Nat : j <= n => f[j] = g[j]}
<1>1. /\ f[0] = <<>> /\ \A k \in 1 .. n : Extends(f, s, k)
      /\ g[0] = <<>> /\ \A k \in 1 .. m : Extends(g, t, k)
  BY QueueSteps
<1>2. 0 \in S
  BY <1>1
<1>3. ASSUME NEW j \in Nat, j \in S
      PROVE  j + 1 \in S
  <2> SUFFICES ASSUME j + 1 <= n PROVE f[j + 1] = g[j + 1]
    OBVIOUS
  <2> DEFINE k == j + 1
  <2>1. k \in 1 .. n /\ k \in 1 .. m /\ k - 1 = j /\ f[j] = g[j]
    BY <1>3
  <2> HIDE DEF k
  <2>2. f[k] = f[j] \o s[k] /\ g[k] = g[j] \o t[k] /\ s[k] = t[k]
    BY <1>1, <2>1, Zenon DEF Extends, Agree
  <2>3. f[k] = g[k]
    BY <2>1, <2>2
  <2> QED BY <2>3 DEF k
<1>4. Nat \subseteq S
  <2> HIDE DEF S
  <2> QED BY <1>2, <1>3, SetInduction
<1> QED BY <1>4 DEF Agree
=============================================================================
