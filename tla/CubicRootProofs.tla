--------------------------- MODULE CubicRootProofs --------------------------
(***************************************************************************)
(* Proofs about cubic_root for every 64-bit argument, and that the digits  *)
(* of Wide compute what the numbers they stand for would.                  *)
(***************************************************************************)
EXTENDS CubicRoot, Wide, TcpSockLemmas, WellFoundedInduction

(* Induction over the naturals, with the set of the numbers a fact holds   *)
(* of in the place of the fact.                                            *)
LEMMA LeastNumber ==
  ASSUME NEW T, T \subseteq Nat, T # {}
  PROVE  \E m \in T : \A n \in T : m <= n
<1> DEFINE R == OpToRel(<, Nat)
<1>1. IsWellFoundedOn(R, Nat)
  BY NatLessThanWellFounded, Zenon
<1>2. \A x, y \in Nat : x < y => <<x, y>> \in R
  BY DEF OpToRel
<1> HIDE DEF R
<1>3. PICK m \in T : \A y \in T : ~(<<y, m>> \in R)
  BY <1>1, WFMin
<1>4. \A y \in T : ~(y < m)
  BY <1>2, <1>3
<1>5. \A y \in T : m <= y
  BY <1>4
<1> QED
  BY <1>5

LEMMA Induction ==
  ASSUME NEW T, 0 \in T, \A n \in Nat : n \in T => n + 1 \in T
  PROVE  Nat \subseteq T
<1> SUFFICES ASSUME Nat \ T # {} PROVE FALSE
  OBVIOUS
<1>1. PICK m \in Nat \ T : \A n \in Nat \ T : m <= n
  BY LeastNumber
<1>2. m # 0 /\ m - 1 \in Nat /\ m - 1 \in T
  BY <1>1
<1> QED
  BY <1>1, <1>2

(* The powers of two up to the n-th.                                       *)
Doubles(f, n) ==
  /\ f \in [0..n -> Nat] /\ f[0] = 1
  /\ \A i \in 1..n : f[i] = 2 * f[i - 1]

LEMMA DoublesExist == \A n \in Nat : \E f : Doubles(f, n)
<1> DEFINE T == {n \in Nat : \E f : Doubles(f, n)}
<1>1. 0 \in T
  <2> DEFINE f == [i \in 0..0 |-> 1]
  <2>1. Doubles(f, 0)
    BY DEF Doubles
  <2> QED
    BY <2>1
<1>2. ASSUME NEW n \in Nat, n \in T PROVE n + 1 \in T
  <2>1. PICK f : Doubles(f, n)
    BY <1>2
  <2> DEFINE g == [i \in 0..(n + 1) |-> IF i = n + 1 THEN 2 * f[n] ELSE f[i]]
  <2>2. /\ \A i \in 0..n : f[i] \in Nat
        /\ f[0] = 1 /\ \A i \in 1..n : f[i] = 2 * f[i - 1]
    BY <2>1 DEF Doubles
  <2>3. g \in [0..(n + 1) -> Nat] /\ g[0] = 1
    BY <2>2
  <2>4. ASSUME NEW i \in 1..(n + 1) PROVE g[i] = 2 * g[i - 1]
    <3>1. CASE i = n + 1
      BY <3>1
    <3>2. CASE i # n + 1
      <4>1. i \in 1..n /\ i - 1 \in 0..n /\ i - 1 # n + 1
        BY <3>2
      <4> QED
        BY <2>2, <3>2, <4>1
    <3> QED
      BY <3>1, <3>2
  <2> HIDE DEF g
  <2>5. Doubles(g, n + 1)
    BY <2>3, <2>4 DEF Doubles
  <2> QED
    BY <2>5
<1> HIDE DEF T
<1>3. Nat \subseteq T
  BY <1>1, <1>2, Induction
<1> QED
  BY <1>3 DEF T

LEMMA DoublesAgree ==
  ASSUME NEW m \in Nat, NEW n \in Nat, NEW f, NEW g, Doubles(f, m), Doubles(g, n)
  PROVE  \A i \in Nat : i <= m /\ i <= n => f[i] = g[i]
<1> DEFINE T == {i \in Nat : i <= m /\ i <= n => f[i] = g[i]}
<1>1. 0 \in T
  BY DEF Doubles
<1>2. ASSUME NEW i \in Nat, i \in T PROVE i + 1 \in T
  <2> SUFFICES ASSUME i + 1 <= m, i + 1 <= n PROVE f[i + 1] = g[i + 1]
    OBVIOUS
  <2>1. f[i] = g[i]
    BY <1>2
  <2>2. i + 1 \in 1..m /\ i + 1 \in 1..n /\ (i + 1) - 1 = i
    OBVIOUS
  <2>3. f[i + 1] = 2 * f[i] /\ g[i + 1] = 2 * g[i]
    BY <2>2 DEF Doubles
  <2> QED
    BY <2>1, <2>3
<1> HIDE DEF T
<1>3. Nat \subseteq T
  BY <1>1, <1>2, Induction
<1> QED
  BY <1>3 DEF T

(* So the recursive definition of Bit defines what it says.                *)
LEMMA BitDefined ==
  Bit \in [Nat -> Nat] /\ Bit[0] = 1 /\ \A n \in Nat : Bit[n + 1] = 2 * Bit[n]
<1> DEFINE upto(n) == CHOOSE f : Doubles(f, n)
           h == [n \in Nat |-> upto(n)[n]]
<1>1. \A n \in Nat : Doubles(upto(n), n)
  BY DoublesExist
<1> HIDE DEF upto
<1>2. h \in [Nat -> Nat]
  <2>1. \A n \in Nat : upto(n)[n] \in Nat
    BY <1>1 DEF Doubles
  <2> QED
    BY <2>1
<1>3. h[0] = 1
  BY <1>1 DEF Doubles
<1>4. ASSUME NEW n \in Nat PROVE h[n + 1] = 2 * h[n]
  <2>1. Doubles(upto(n), n) /\ Doubles(upto(n + 1), n + 1)
    BY <1>1
  <2>2. upto(n)[n] = upto(n + 1)[n]
    BY <2>1, DoublesAgree
  <2>3. upto(n + 1)[n + 1] = 2 * upto(n + 1)[n]
    <3>1. n + 1 \in 1..(n + 1) /\ (n + 1) - 1 = n
      OBVIOUS
    <3> QED
      BY <2>1, <3>1 DEF Doubles
  <2> QED
    BY <2>2, <2>3
<1> HIDE DEF h
<1>5. h = [n \in Nat |-> IF n = 0 THEN 1 ELSE 2 * h[n - 1]]
  <2>1. ASSUME NEW n \in Nat PROVE h[n] = IF n = 0 THEN 1 ELSE 2 * h[n - 1]
    <3>1. CASE n = 0
      BY <1>3, <3>1
    <3>2. CASE n # 0
      <4>1. n - 1 \in Nat /\ (n - 1) + 1 = n
        BY <3>2
      <4> QED
        BY <1>4, <3>2, <4>1
    <3> QED
      BY <3>1, <3>2
  <2> QED
    BY <1>2, <2>1
<1>6. Bit = [n \in Nat |-> IF n = 0 THEN 1 ELSE 2 * Bit[n - 1]]
  BY <1>5 DEF Bit
<1>7. Bit[0] = 1 /\ \A n \in Nat : Bit[n + 1] = 2 * Bit[n]
  <2>1. ASSUME NEW n \in Nat PROVE Bit[n + 1] = 2 * Bit[n]
    <3>1. n + 1 \in Nat /\ n + 1 # 0 /\ (n + 1) - 1 = n
      OBVIOUS
    <3> QED
      BY <1>6, <3>1
  <2> QED
    BY <1>6, <2>1
<1>8. \A n \in Nat : Bit[n] \in Nat
  <2> DEFINE T == {n \in Nat : Bit[n] \in Nat}
  <2>1. 0 \in T /\ \A n \in Nat : n \in T => n + 1 \in T
    BY <1>7
  <2> HIDE DEF T
  <2>2. Nat \subseteq T
    BY <2>1, Induction
  <2> QED
    BY <2>2 DEF T
<1> QED
  BY <1>6, <1>7, <1>8

(* The quotient brackets the dividend.                                     *)
LEMMA DivBounds ==
  ASSUME NEW a \in Nat, NEW w \in Nat, w >= 1
  PROVE  /\ a \div w \in Nat /\ (a \div w) * w <= a /\ a < (a \div w) * w + w
<1> DEFINE p == (a \div w) * w
<1>1. a \div w \in Nat /\ p \in Nat /\ a - p \in 0..(w - 1)
  BY DivFacts
<1> HIDE DEF p
<1>2. p <= a /\ a < p + w
  BY <1>1
<1> QED
  BY <1>1, <1>2 DEF p

LEMMA BitPositive == \A n \in Nat : Bit[n] \in Nat /\ Bit[n] >= 1
<1> DEFINE T == {n \in Nat : Bit[n] >= 1}
<1>1. \A n \in Nat : Bit[n] \in Nat
  BY BitDefined
<1>2. 0 \in T /\ \A n \in Nat : n \in T => n + 1 \in T
  BY <1>1, BitDefined
<1> HIDE DEF T
<1>3. Nat \subseteq T
  BY <1>2, Induction
<1> QED
  BY <1>1, <1>3 DEF T

LEMMA BitSum == \A m, n \in Nat : Bit[m + n] = Bit[m] * Bit[n]
<1> TAKE m \in Nat
<1> DEFINE T == {n \in Nat : Bit[m + n] = Bit[m] * Bit[n]}
<1>1. 0 \in T
  <2>1. m + 0 = m
    OBVIOUS
  <2> QED
    BY <2>1, BitDefined, BitPositive
<1>2. ASSUME NEW n \in Nat, n \in T PROVE n + 1 \in T
  <2>1. m + (n + 1) = (m + n) + 1 /\ m + n \in Nat
    OBVIOUS
  <2>2. Bit[m + (n + 1)] = 2 * Bit[m + n] /\ Bit[n + 1] = 2 * Bit[n]
    BY <2>1, BitDefined
  <2>3. Bit[m + n] = Bit[m] * Bit[n] /\ Bit[m] \in Nat /\ Bit[n] \in Nat
    BY <1>2, BitPositive
  <2>4. 2 * (Bit[m] * Bit[n]) = Bit[m] * (2 * Bit[n])
    BY <2>3
  <2> QED
    BY <2>2, <2>3, <2>4
<1> HIDE DEF T
<1>3. Nat \subseteq T
  BY <1>1, <1>2, Induction
<1> QED
  BY <1>3 DEF T

LEMMA BitMonotone == \A m, n \in Nat : m <= n => Bit[m] <= Bit[n]
<1> TAKE m, n \in Nat
<1> SUFFICES ASSUME m <= n PROVE Bit[m] <= Bit[n]
  OBVIOUS
<1> DEFINE d == n - m
<1>1. d \in Nat /\ m + d = n
  OBVIOUS
<1> HIDE DEF d
<1>2. Bit[n] = Bit[m] * Bit[d] /\ Bit[m] \in Nat /\ Bit[d] \in Nat /\ Bit[d] >= 1
  BY <1>1, BitSum, BitPositive
<1> DEFINE p == Bit[m]
           q == Bit[d]
<1>3. p \in Nat /\ q \in Nat /\ q >= 1 => p <= p * q
  <2> HIDE DEF p, q
  <2> QED
    OBVIOUS
<1> QED
  BY <1>2, <1>3

LEMMA BitValues ==
  /\ Bit[0] = 1 /\ Bit[1] = 2 /\ Bit[2] = 4 /\ Bit[4] = 16 /\ Bit[5] = 32
  /\ Bit[6] = 64 /\ Bit[8] = 256 /\ Bit[16] = 65536 /\ Bit[18] = 262144
  /\ Bit[19] = 524288 /\ Bit[20] = 1048576 /\ Bit[32] = 4294967296
<1>1. Bit[0] = 1 /\ Bit[1] = 2
  <2>1. Bit[0 + 1] = 2 * Bit[0]
    BY BitDefined
  <2> QED
    BY <2>1, BitDefined
<1>2. Bit[2] = 4
  <2>1. Bit[1 + 1] = Bit[1] * Bit[1]
    BY BitSum
  <2> QED
    BY <1>1, <2>1
<1>3. Bit[4] = 16
  <2>1. Bit[2 + 2] = Bit[2] * Bit[2]
    BY BitSum
  <2> QED
    BY <1>2, <2>1
<1>4. Bit[5] = 32
  <2>1. Bit[4 + 1] = Bit[4] * Bit[1]
    BY BitSum
  <2> QED
    BY <1>1, <1>3, <2>1
<1>5. Bit[6] = 64
  <2>1. Bit[4 + 2] = Bit[4] * Bit[2]
    BY BitSum
  <2> QED
    BY <1>2, <1>3, <2>1
<1>6. Bit[8] = 256
  <2>1. Bit[4 + 4] = Bit[4] * Bit[4]
    BY BitSum
  <2> QED
    BY <1>3, <2>1
<1>7. Bit[16] = 65536
  <2>1. Bit[8 + 8] = Bit[8] * Bit[8]
    BY BitSum
  <2> QED
    BY <1>6, <2>1
<1>8. Bit[18] = 262144
  <2>1. Bit[16 + 2] = Bit[16] * Bit[2]
    BY BitSum
  <2> QED
    BY <1>2, <1>7, <2>1
<1>9. Bit[20] = 1048576
  <2>1. Bit[16 + 4] = Bit[16] * Bit[4]
    BY BitSum
  <2> QED
    BY <1>3, <1>7, <2>1
<1>10. Bit[19] = 524288
  <2>1. Bit[18 + 1] = Bit[18] * Bit[1]
    BY BitSum
  <2> QED
    BY <1>1, <1>8, <2>1
<1>11. Bit[32] = 4294967296
  <2>1. Bit[16 + 16] = Bit[16] * Bit[16]
    BY BitSum
  <2> QED
    BY <1>7, <2>1
<1> QED
  BY <1>1, <1>2, <1>3, <1>4, <1>5, <1>6, <1>7, <1>8, <1>9, <1>10, <1>11

(* fls64 finds the position, rounded up to an even one.                    *)
LEMMA HighestBit ==
  ASSUME NEW a \in Nat, a >= 64, a < Bit[64]
  PROVE  \E k \in 4..32 : fls64(a) = 2 * k /\ a < Bit[2 * k] /\ Bit[2 * k - 2] <= a
<1> DEFINE T == {k \in Nat : a < Bit[2 * k]}
<1>1. 32 \in T
  OBVIOUS
<1> HIDE DEF T
<1>2. T \subseteq Nat
  BY DEF T
<1>3. PICK m \in T : \A n \in T : m <= n
  BY <1>1, <1>2, LeastNumber
<1>4. m \in Nat /\ m <= 32 /\ a < Bit[2 * m]
  BY <1>1, <1>2, <1>3 DEF T
<1>5. m >= 1
  <2>1. m # 0
    BY <1>4, BitValues
  <2> QED
    BY <1>4, <2>1
<1>6. Bit[2 * m - 2] <= a
  <2>1. m - 1 \in Nat /\ m - 1 \notin T /\ 2 * (m - 1) = 2 * m - 2 /\ 2 * m - 2 \in Nat
    BY <1>3, <1>4, <1>5
  <2>2. ~(a < Bit[2 * (m - 1)])
    BY <2>1 DEF T
  <2> QED
    BY <2>1, <2>2, BitPositive
<1> DEFINE P(k) == a < Bit[2 * k] /\ Bit[2 * k - 2] <= a
           k == CHOOSE j \in 1..32 : P(j)
<1>7. m \in 1..32 /\ P(m)
  BY <1>4, <1>5, <1>6
<1>8. fls64(a) = 2 * k
  BY DEF fls64
<1> HIDE DEF P
<1>9. k \in 1..32 /\ P(k)
  BY <1>7
<1> HIDE DEF k
<1>10. k >= 4
  <2>1. SUFFICES ASSUME k <= 3 PROVE FALSE
    BY <1>9
  <2>2. 2 * k \in Nat /\ 6 \in Nat /\ 2 * k <= 6
    BY <1>9, <2>1
  <2>3. Bit[2 * k] <= 64 /\ Bit[2 * k] \in Nat
    BY <2>2, BitMonotone, BitValues, BitPositive
  <2> QED
    BY <1>9, <2>3 DEF P
<1> QED
  BY <1>8, <1>9, <1>10 DEF P

(* The third of it, in the integers of the code, is never so large that    *)
(* fewer than three bits are left of a, nor so small that more than six.   *)
LEMMA ThirdFacts ==
  ASSUME NEW a \in Nat, NEW k \in 4..32, fls64(a) = 2 * k
  PROVE  LET b == Third(a)
         IN  /\ b \in 1..20 /\ 3 * b <= 2 * k - 4 /\ 2 * k <= 3 * b + 6
             /\ k >= 14 => b >= 8
             /\ b = 19 => k = 31
             /\ b = 20 => k = 32
<1> DEFINE q == (2 * k * 84) \div 256
<1>1. Third(a) = q - 1
  BY DEF Third
<1>2. 2 * k * 84 \in Nat
  OBVIOUS
<1>3. q \in Nat /\ q * 256 <= 2 * k * 84 /\ 2 * k * 84 < q * 256 + 256
  BY <1>2, DivBounds
<1> HIDE DEF q
<1> QED
  BY <1>1, <1>3

Cubed(n) == n * n * n

LEMMA Table == \A i \in 1..64 : v[i] \in 0..254
BY DEF v

(* The cubes of 64 times the entries are close to their positions.         *)
LEMMA TableCubes ==
  \A i \in 5..64 :
    LET g == v[i] + 10
    IN  /\ g >= 128 /\ g <= 264 /\ (i <= 16 => g <= 166)
        /\ Cubed(g) <= 524288 * (i - 1) /\ 2621440 * i <= 11 * Cubed(g)
BY DEF v, Cubed

(* The quotient of a number below c cubes by y is below a multiple of the  *)
(* root, when y is a fraction of its square.                               *)
LEMMA QuotientOfCube ==
  ASSUME NEW B \in Nat, B >= 1, NEW Q \in Nat, NEW y \in Nat, NEW a \in Nat,
         NEW c \in Nat, NEW d \in Nat, d >= 1, NEW e \in Nat,
         Q * y <= a, a < c * (B * B * B), d * y >= e * (B * B)
  PROVE  e * Q < d * c * B
<1> DEFINE W == B * B
<1>1. W \in Nat /\ W >= 1 /\ B * B * B = W * B
  OBVIOUS
<1> HIDE DEF W
<1>2. /\ d * y \in Nat /\ e * W \in Nat /\ Q * y \in Nat /\ e * Q \in Nat
      /\ c * (W * B) \in Nat /\ d * c * B \in Nat
  BY <1>1
<1>3. Q * (d * y) >= Q * (e * W)
  <2>1. d * y >= e * W
    BY DEF W
  <2> DEFINE s == d * y
             t == e * W
  <2> HIDE DEF s, t
  <2>2. s \in Nat /\ t \in Nat /\ s >= t
    BY <1>2, <2>1 DEF s, t
  <2>3. Q * s >= Q * t
    BY <2>2
  <2> QED
    BY <2>3 DEF s, t
<1>4. d * (Q * y) < d * (c * (W * B))
  <2> DEFINE s == Q * y
             t == c * (W * B)
  <2>1. s < t /\ s \in Nat /\ t \in Nat
    BY <1>1, <1>2
  <2> HIDE DEF s, t
  <2>2. d * s < d * t
    BY <2>1
  <2> QED
    BY <2>2 DEF s, t
<1>5. /\ d * (Q * y) = Q * (d * y) /\ Q * (e * W) = W * (e * Q)
      /\ d * (c * (W * B)) = W * (d * c * B)
  BY <1>1
<1>6. W * (e * Q) < W * (d * c * B)
  <2>1. /\ Q * (d * y) \in Nat /\ W * (e * Q) \in Nat
        /\ W * (d * c * B) \in Nat
    BY <1>1, <1>2
  <2> QED
    BY <1>3, <1>4, <1>5, <2>1
<1> DEFINE s == e * Q
           t == d * c * B
<1>7. s \in Nat /\ t \in Nat /\ W * s < W * t
  BY <1>2, <1>6
<1> HIDE DEF s, t
<1>8. s < t
  <2>1. SUFFICES ASSUME t <= s PROVE FALSE
    BY <1>7
  <2>2. W * t <= W * s
    BY <1>1, <1>7, <2>1
  <2>3. W * t \in Nat /\ W * s \in Nat
    BY <1>1, <1>7
  <2> QED
    BY <1>7, <2>2, <2>3
<1> QED
  BY <1>8 DEF s, t

(* What the table is looked up with and what comes of it, in terms of      *)
(* B = 1 << b: 2 B or more, and a cube close to a.                         *)
LookedUp(a, B, s, x) ==
  /\ s \in 4..63 /\ s * (B * B * B) <= a /\ a < (s + 1) * (B * B * B)
  /\ x \in Nat /\ x >= 2 * B /\ 8 * x <= 33 * B
  /\ s <= 15 => 64 * x <= 166 * B
  /\ \E g \in Nat : /\ Cubed(g) <= 524288 * s
                    /\ 2621440 * (s + 1) <= 11 * Cubed(g)
                    /\ 64 * x <= g * B /\ g * B < 64 * x + 64

LEMMA GuessFacts ==
  ASSUME NEW a \in Nat, a >= 64, a < Bit[64]
  PROVE  LET b == Third(a)
             B == Bit[b]
         IN  /\ b \in 1..20 /\ B \in Nat /\ B >= 2
             /\ LookedUp(a, B, Leading(a), Guess(a))
             /\ b = 19 => Leading(a) <= 31
             /\ b = 20 => Leading(a) <= 15
             /\ a >= Bit[26] => b >= 8
<1> DEFINE b == Third(a)
           B == Bit[b]
           C == Bit[3 * b]
           s == Leading(a)
           x == Guess(a)
<1>1. PICK k \in 4..32 : fls64(a) = 2 * k /\ a < Bit[2 * k] /\ Bit[2 * k - 2] <= a
  BY HighestBit
<1>2. /\ b \in 1..20 /\ 3 * b <= 2 * k - 4 /\ 2 * k <= 3 * b + 6
      /\ b = 19 => k = 31
      /\ b = 20 => k = 32
      /\ k >= 14 => b >= 8
  BY <1>1, ThirdFacts
<1> HIDE DEF b
<1>3. b \in Nat /\ 3 * b \in Nat /\ 2 * k \in Nat /\ 2 * k - 2 \in Nat
  BY <1>2
<1>4. B \in Nat /\ B >= 2 /\ C \in Nat /\ C >= 1 /\ C = B * B * B
  <2>1. B \in Nat /\ C \in Nat /\ C >= 1
    BY <1>3, BitPositive
  <2>2. B >= 2
    <3>1. 1 \in Nat /\ 1 <= b
      BY <1>2
    <3> QED
      BY <1>3, <3>1, BitMonotone, BitValues
  <2>3. C = B * B * B
    <3>1. b + b \in Nat /\ 3 * b = (b + b) + b
      BY <1>3
    <3>2. Bit[(b + b) + b] = Bit[b + b] * Bit[b] /\ Bit[b + b] = Bit[b] * Bit[b]
      BY <1>3, <3>1, BitSum
    <3> QED
      BY <3>1, <3>2
  <2> QED
    BY <2>1, <2>2, <2>3
<1>5. 4 * C <= a
  <2>1. 3 * b + 2 \in Nat /\ 3 * b + 2 <= 2 * k - 2
    BY <1>2, <1>3
  <2>2. Bit[3 * b + 2] <= Bit[2 * k - 2] /\ Bit[2 * k - 2] \in Nat
    BY <1>3, <2>1, BitMonotone, BitPositive
  <2>3. Bit[3 * b + 2] = C * Bit[2]
    BY <1>3, BitSum
  <2> QED
    BY <1>1, <1>4, <2>2, <2>3, BitValues
<1>6. ASSUME NEW n \in Nat, 2 * k <= 3 * b + n PROVE a < C * Bit[n]
  <2>1. 3 * b + n \in Nat
    BY <1>3
  <2>2. Bit[2 * k] <= Bit[3 * b + n] /\ Bit[2 * k] \in Nat /\ Bit[3 * b + n] \in Nat
    BY <1>3, <1>6, <2>1, BitMonotone, BitPositive
  <2>3. Bit[3 * b + n] = C * Bit[n]
    BY <1>3, BitSum
  <2> QED
    BY <1>1, <2>2, <2>3
<1>7. /\ a < C * 64
      /\ b = 19 => a < C * 32
      /\ b = 20 => a < C * 16
  <2>1. 6 \in Nat /\ 5 \in Nat /\ 4 \in Nat
    OBVIOUS
  <2>2. /\ b = 19 => 2 * k <= 3 * b + 5
        /\ b = 20 => 2 * k <= 3 * b + 4
    BY <1>2
  <2> QED
    BY <1>2, <1>6, <2>1, <2>2, BitValues
<1>8. s = a \div C
  BY DEF Leading, b
<1> HIDE DEF C, s
<1>9. s \in Nat /\ s * C <= a /\ a < s * C + C
  BY <1>4, <1>8, DivBounds
<1>10. ASSUME NEW n \in Nat, a < C * n PROVE s + 1 <= n
  <2>1. SUFFICES ASSUME n <= s PROVE FALSE
    BY <1>9, <1>10
  <2>2. C * n <= C * s /\ C * s = s * C /\ C * n \in Nat /\ s * C \in Nat
    BY <1>4, <1>9, <2>1
  <2> QED
    BY <1>9, <1>10, <2>2
<1>11. /\ s \in 4..63
       /\ b = 19 => s <= 31
       /\ b = 20 => s <= 15
  <2>1. s >= 4
    <3> SUFFICES ASSUME s + 1 <= 4 PROVE FALSE
      BY <1>9
    <3>1. C * (s + 1) <= C * 4 /\ C * (s + 1) = s * C + C /\ s * C + C \in Nat
      BY <1>4, <1>9
    <3> QED
      BY <1>4, <1>5, <1>9, <3>1
  <2>2. 64 \in Nat /\ 32 \in Nat /\ 16 \in Nat
    OBVIOUS
  <2>3. s + 1 <= 64 /\ (b = 19 => s + 1 <= 32) /\ (b = 20 => s + 1 <= 16)
    BY <1>7, <1>10, <2>2
  <2> QED
    BY <1>9, <2>1, <2>3
<1>12. s * (B * B * B) <= a /\ a < (s + 1) * (B * B * B)
  <2>1. s * C + C = (s + 1) * C
    BY <1>4, <1>9
  <2> QED
    BY <1>4, <1>9, <2>1
<1>13. a >= Bit[26] => b >= 8
  <2> SUFFICES ASSUME a >= Bit[26] PROVE b >= 8
    OBVIOUS
  <2>1. ~(2 * k <= 26)
    <3> SUFFICES ASSUME 2 * k <= 26 PROVE FALSE
      OBVIOUS
    <3>1. Bit[2 * k] <= Bit[26] /\ Bit[2 * k] \in Nat /\ Bit[26] \in Nat
      BY <1>3, BitMonotone, BitPositive
    <3> QED
      BY <1>1, <3>1
  <2> QED
    BY <1>2, <2>1
<1> DEFINE g == v[s + 1] + 10
<1>14. /\ g \in 128..264 /\ (s <= 15 => g <= 166)
       /\ Cubed(g) <= 524288 * s /\ 2621440 * (s + 1) <= 11 * Cubed(g)
  <2> DEFINE i == s + 1
  <2>1. i \in 5..64 /\ i \in 1..64 /\ i - 1 = s /\ (s <= 15 => i <= 16)
    BY <1>11
  <2>2. g = v[i] + 10
    OBVIOUS
  <2> HIDE DEF i
  <2>3. v[i] \in 0..254
    BY <2>1, Table
  <2> DEFINE t == v[i]
             h == t + 10
  <2>4. /\ h >= 128 /\ h <= 264 /\ (i <= 16 => h <= 166)
        /\ Cubed(h) <= 524288 * (i - 1) /\ 2621440 * i <= 11 * Cubed(h)
    BY <2>1, TableCubes
  <2>5. h \in Nat /\ g = h
    <3>1. t \in Nat /\ g = t + 10
      BY <2>2, <2>3
    <3> HIDE DEF t, g
    <3> QED
      BY <3>1
  <2>6. i = s + 1
    BY DEF i
  <2> HIDE DEF g, h
  <2> QED
    BY <2>1, <2>4, <2>5, <2>6
<1>15. x = (g * B) \div 64
  BY DEF Guess, Shifted, s, b
<1> HIDE DEF g, x, B
<1>16. g * B \in Nat
  BY <1>4, <1>14
<1>17. x \in Nat /\ x * 64 <= g * B /\ g * B < x * 64 + 64
  BY <1>15, <1>16, DivBounds
<1>18. ASSUME NEW n \in Nat, g <= n PROVE x * 64 <= n * B
  <2>1. g * B <= n * B /\ n * B \in Nat
    BY <1>4, <1>14, <1>18
  <2> QED
    BY <1>16, <1>17, <2>1
<1>19. x >= 2 * B
  <2>1. 128 * B <= g * B
    BY <1>4, <1>14
  <2> QED
    BY <1>4, <1>16, <1>17, <2>1
<1>20. 8 * x <= 33 * B
  <2>1. x * 64 <= 264 * B
    BY <1>14, <1>18
  <2> QED
    BY <1>4, <1>17, <2>1
<1>21. s <= 15 => 64 * x <= 166 * B
  <2> SUFFICES ASSUME s <= 15 PROVE 64 * x <= 166 * B
    OBVIOUS
  <2>1. x * 64 <= 166 * B
    BY <1>14, <1>18
  <2> QED
    BY <1>4, <1>17, <2>1
<1>22. LookedUp(a, B, s, x)
  <2>1. g \in Nat /\ 64 * x <= g * B /\ g * B < 64 * x + 64
    BY <1>14, <1>17
  <2> QED
    BY <1>11, <1>12, <1>14, <1>17, <1>19, <1>20, <1>21, <2>1 DEF LookedUp
<1> QED
  BY <1>2, <1>4, <1>11, <1>13, <1>22 DEF B, s, x, b

(* For every 64-bit argument, in spite of the rounding of fls64: the index *)
(* is within the table and beyond its first, coarse entries, so that the   *)
(* check the code makes for the verifier never fires; and the divisor of   *)
(* the Newton-Raphson step is not zero (bpfcubic.bpf.c:85-115, 249-277).   *)
THEOREM TableSuffices ==
  \A a \in Nat : a >= 64 /\ a < Bit[64] => Leading(a) \in 4..63 /\ Guess(a) >= 4
<1> TAKE a \in Nat
<1> SUFFICES ASSUME a >= 64, a < Bit[64] PROVE Leading(a) \in 4..63 /\ Guess(a) >= 4
  OBVIOUS
<1> DEFINE B == Bit[Third(a)]
<1>1. B \in Nat /\ B >= 2 /\ LookedUp(a, B, Leading(a), Guess(a))
  BY GuessFacts
<1> HIDE DEF B
<1> QED
  BY <1>1 DEF LookedUp

(* The sum of the Newton-Raphson step, in terms of B.                      *)
LEMMA RefinedFacts ==
  ASSUME NEW a \in Nat, NEW B \in Nat, B >= 2, NEW c \in Nat, c <= 64,
         LookedUp(a, B, Leading(a), Guess(a)), Leading(a) + 1 <= c
  PROVE  Refined(a) \in Nat /\ 3 * Refined(a) <= 6 * Guess(a) + c * B
<1> DEFINE x == Guess(a)
           s == Leading(a)
           y == x * (x - 1)
           Q == a \div y
<1>1. s \in 4..63 /\ a < (s + 1) * (B * B * B) /\ x \in Nat /\ x >= 2 * B
  BY DEF LookedUp
<1>2. Refined(a) = 2 * x + Q
  BY DEF Refined
<1> HIDE DEF x, s
<1>3. y \in Nat /\ y >= 1
  <2>1. x - 1 \in Nat /\ x - 1 >= 1 /\ x >= 1
    BY <1>1
  <2> QED
    BY <1>1, <2>1
<1> HIDE DEF y
<1>4. Q \in Nat /\ Q * y <= a
  BY <1>3, DivBounds
<1> HIDE DEF Q
<1>5. B * B * B \in Nat /\ B * B \in Nat
  OBVIOUS
<1>6. ASSUME NEW n \in Nat, s + 1 <= n PROVE a < n * (B * B * B)
  <2> DEFINE C == B * B * B
  <2>1. a < (s + 1) * C /\ C \in Nat /\ s + 1 \in Nat
    BY <1>1, <1>5
  <2> HIDE DEF C
  <2>2. (s + 1) * C <= n * C /\ (s + 1) * C \in Nat /\ n * C \in Nat
    BY <1>6, <2>1
  <2>3. a < n * C
    BY <2>1, <2>2
  <2> QED
    BY <2>3 DEF C
<1>7. a < c * (B * B * B)
  BY <1>1, <1>6 DEF s
<1>8. 1 * y >= 3 * (B * B)
  <2>1. x - 1 \in Nat /\ 2 * (x - 1) >= 3 * B
    BY <1>1
  <2>2. x * (2 * (x - 1)) >= x * (3 * B)
    BY <1>1, <2>1
  <2>3. (3 * B) * x >= (3 * B) * (2 * B)
    BY <1>1
  <2>4. 2 * y = x * (2 * (x - 1)) /\ x * (3 * B) = (3 * B) * x
    BY <1>1 DEF y
  <2>5. (3 * B) * (2 * B) = 2 * (3 * (B * B))
    OBVIOUS
  <2>6. 2 * y >= 2 * (3 * (B * B))
    <3>1. /\ x * (2 * (x - 1)) \in Int /\ x * (3 * B) \in Int
          /\ (3 * B) * (2 * B) \in Int
      BY <1>1
    <3> QED
      BY <2>2, <2>3, <2>4, <2>5, <3>1
  <2> QED
    BY <1>3, <1>5, <2>6
<1>9. 3 * Q < 1 * c * B
  BY <1>3, <1>4, <1>7, <1>8, QuotientOfCube
<1>10. c * B \in Nat /\ 1 * c * B = c * B
  OBVIOUS
<1>11. 3 * (2 * x + Q) <= 6 * x + c * B
  BY <1>1, <1>4, <1>9, <1>10
<1> QED
  BY <1>1, <1>2, <1>4, <1>11 DEF x

(* No 64-bit argument makes cubic_root overflow the 32 bits of its x:      *)
(* neither the shifted table entry, nor the sum of the Newton-Raphson      *)
(* step, times 341 (bpfcubic.bpf.c:266-275).                               *)
THEOREM StepFits ==
  \A a \in Nat : a >= 64 /\ a < Bit[64] =>
    Shifted(a) < Bit[32] /\ Refined(a) * 341 < Bit[32]
<1> TAKE a \in Nat
<1> SUFFICES ASSUME a >= 64, a < Bit[64]
             PROVE  Shifted(a) < Bit[32] /\ Refined(a) * 341 < Bit[32]
  OBVIOUS
<1> DEFINE b == Third(a)
           B == Bit[b]
           x == Guess(a)
           s == Leading(a)
           r == Refined(a)
<1>1. /\ b \in 1..20 /\ B \in Nat /\ B >= 2 /\ LookedUp(a, B, s, x)
      /\ b = 19 => s <= 31
      /\ b = 20 => s <= 15
  BY GuessFacts
<1> HIDE DEF b
<1>2. /\ b <= 18 => B <= 262144
      /\ b = 19 => B = 524288
      /\ b = 20 => B = 1048576
  <2>1. b \in Nat /\ 18 \in Nat
    BY <1>1
  <2> QED
    BY <2>1, BitMonotone, BitValues
<1> HIDE DEF B
<1>3. s \in 4..63 /\ x \in Nat /\ 8 * x <= 33 * B /\ (s <= 15 => 64 * x <= 166 * B)
  BY <1>1 DEF LookedUp
<1>4. ASSUME NEW c \in Nat, c <= 64, s + 1 <= c
      PROVE  r \in Nat /\ 3 * r <= 6 * x + c * B
  BY <1>1, <1>4, RefinedFacts
<1>9. Shifted(a) < Bit[32]
  <2> DEFINE e == v[s + 1]
  <2>1. e \in 0..254
    <3>1. s + 1 \in 1..64
      BY <1>3
    <3> HIDE DEF s
    <3> QED
      BY <3>1, Table
  <2>2. B \in Nat /\ B <= 1048576
    BY <1>1, <1>2
  <2> HIDE DEF e
  <2>3. (e + 10) * B <= 264 * B
    BY <2>1, <2>2
  <2>4. (e + 10) * B < 4294967296
    BY <2>1, <2>2, <2>3
  <2> QED
    BY <2>4, BitValues DEF Shifted, e, s, B, b
<1> HIDE DEF x, s, r
<1>5. CASE b <= 18
  <2>1. 64 \in Nat /\ s + 1 <= 64
    BY <1>3
  <2>2. r \in Nat /\ 3 * r <= 6 * x + 64 * B
    BY <1>4, <2>1
  <2>3. r * 341 < 4294967296
    BY <1>1, <1>2, <1>3, <1>5, <2>2
  <2> QED
    BY <2>3, <1>9, BitValues DEF r
<1>6. CASE b = 19
  <2>1. 32 \in Nat /\ s + 1 <= 32
    BY <1>1, <1>3, <1>6
  <2>2. r \in Nat /\ 3 * r <= 6 * x + 32 * B
    BY <1>4, <2>1
  <2>3. r * 341 < 4294967296
    BY <1>2, <1>3, <1>6, <2>2
  <2> QED
    BY <2>3, <1>9, BitValues DEF r
<1>7. CASE b = 20
  <2>1. 16 \in Nat /\ s + 1 <= 16 /\ s <= 15
    BY <1>1, <1>3, <1>7
  <2>2. r \in Nat /\ 3 * r <= 6 * x + 16 * B
    BY <1>4, <2>1
  <2>3. 64 * x <= 174063616 /\ x \in Nat
    BY <1>2, <1>3, <1>7, <2>1
  <2>4. r \in Nat /\ 3 * r <= 6 * x + 16777216
    BY <1>2, <1>7, <2>2
  <2>5. r * 341 < 4294967296
    BY <2>3, <2>4
  <2> QED
    BY <2>5, <1>9, BitValues DEF r
<1> QED
  BY <1>1, <1>5, <1>6, <1>7

(* 2 x + q is at least three times the cubic root of x x q; and for a      *)
(* between X / 2 and 7 X / 5 it is not much more.                          *)
LEMMA Mean ==
  ASSUME NEW x \in Nat, NEW q \in Nat
  PROVE  27 * (x * x * q) <= Cubed(2 * x + q)
<1> DEFINE d == x - q
<1>1. Cubed(2 * x + q) = 27 * (x * x * q) + (d * d) * (8 * x + q)
  BY DEF Cubed
<1>2. d * d \in Nat
  <2>1. d \in Int
    OBVIOUS
  <2> HIDE DEF d
  <2> QED
    BY <2>1
<1> DEFINE e == d * d
<1>3. e * (8 * x + q) >= 0 /\ e * (8 * x + q) \in Int
  <2>1. e \in Nat
    BY <1>2
  <2> HIDE DEF e
  <2> QED
    BY <2>1
<1> HIDE DEF e
<1> DEFINE f == e * (8 * x + q)
           m == x * x * q
<1>4. m \in Nat /\ f \in Nat /\ Cubed(2 * x + q) = 27 * m + f
  BY <1>1, <1>3 DEF e
<1> HIDE DEF f, m
<1> QED
  BY <1>4 DEF m

LEMMA NewtonAbove ==
  ASSUME NEW X \in Nat, NEW a \in Nat, X <= 2 * a, 5 * a <= 7 * X
  PROVE  4 * Cubed(2 * X + a) <= 125 * (a * X * X)
<1> DEFINE d == 2 * a - X
           e == 32 * (X * X) - 13 * (a * X) - 2 * (a * a)
<1>1. d \in Nat
  OBVIOUS
<1>2. e >= 0 /\ e \in Int
  <2>1. 5 * (a * X) <= 7 * (X * X) /\ 5 * (a * a) <= 7 * (a * X)
    <3>1. (5 * a) * X <= (7 * X) * X /\ (5 * a) * a <= (7 * X) * a
      OBVIOUS
    <3> QED
      BY <3>1
  <2> DEFINE m == a * X
             n == X * X
             o == a * a
  <2>2. m \in Nat /\ n \in Nat /\ o \in Nat /\ 5 * m <= 7 * n /\ 5 * o <= 7 * m
    BY <2>1
  <2> HIDE DEF m, n, o
  <2>3. 32 * n - 13 * m - 2 * o >= 0 /\ 32 * n - 13 * m - 2 * o \in Int
    BY <2>2
  <2> QED
    BY <2>3 DEF m, n, o
<1>3. 125 * (a * X * X) = 4 * Cubed(2 * X + a) + d * e
  BY DEF Cubed
<1>4. d * e \in Nat
  <2> HIDE DEF d, e
  <2> QED
    BY <1>1, <1>2
<1> DEFINE f == d * e
           g == 4 * Cubed(2 * X + a)
           h == 125 * (a * X * X)
<1>5. g \in Nat /\ h \in Nat /\ f \in Nat /\ h = g + f
  BY <1>3, <1>4 DEF Cubed
<1> HIDE DEF f, g, h
<1>6. g <= h
  BY <1>5
<1> QED
  BY <1>6 DEF g, h

LEMMA CubeNat == \A u \in Nat : Cubed(u) \in Nat
BY DEF Cubed

LEMMA CubeFacts ==
  ASSUME NEW u \in Nat, NEW w \in Nat
  PROVE  /\ Cubed(u) \in Nat
         /\ Cubed(u * w) = Cubed(u) * Cubed(w)
         /\ u <= w => Cubed(u) <= Cubed(w)
<1>1. Cubed(u) \in Nat /\ Cubed(u * w) = Cubed(u) * Cubed(w)
  BY DEF Cubed
<1>2. ASSUME u <= w PROVE Cubed(u) <= Cubed(w)
  <2> DEFINE U == u * u
             W == w * w
  <2>1. U \in Nat /\ W \in Nat /\ U <= W
    <3>1. u * u <= w * u /\ w * u <= w * w
      BY <1>2
    <3> QED
      BY <3>1
  <2> HIDE DEF U, W
  <2>2. U * u <= W * u /\ W * u <= W * w
    BY <1>2, <2>1
  <2>3. U * u \in Nat /\ W * u \in Nat /\ W * w \in Nat
    BY <2>1
  <2>4. U * u <= W * w
    BY <2>2, <2>3
  <2> QED
    BY <2>4 DEF Cubed, U, W
<1> QED
  BY <1>1, <1>2

LEMMA CancelFactor ==
  ASSUME NEW u \in Nat, NEW w \in Nat, NEW c \in Nat, c >= 1, u * c <= w * c
  PROVE  u <= w
<1> SUFFICES ASSUME w + 1 <= u PROVE FALSE
  OBVIOUS
<1>1. (w + 1) * c <= u * c /\ (w + 1) * c = w * c + c
  OBVIOUS
<1>2. u * c \in Nat /\ w * c \in Nat
  OBVIOUS
<1> QED
  BY <1>1, <1>2

(* One step from x, whose cube is half or twice a at most, comes within    *)
(* 5% of the root, the rounding of the divisions by x (x - 1) and by three *)
(* included.                                                               *)
LEMMA NewtonClose ==
  ASSUME NEW a \in Nat, NEW x \in Nat, x >= 512, NEW Q \in Nat, NEW K \in Nat,
         Cubed(x) <= 2 * a, 10 * a <= 11 * Cubed(x + 1),
         Q * (x * (x - 1)) <= a, a < (Q + 1) * (x * (x - 1)),
         1024 * K <= (2 * x + Q) * 341, (2 * x + Q) * 341 < 1024 * K + 1024
  PROVE  6859 * a <= 8000 * Cubed(K) /\ 8000 * Cubed(K) <= 9261 * a
<1> DEFINE z == x - 1
           y == x * z
           X == x * y
           r == 2 * x + Q
<1>1. z \in Nat /\ z >= 511 /\ x = z + 1 /\ r \in Nat /\ r >= 1024
  OBVIOUS
<1> HIDE DEF z
<1>2. y \in Nat /\ y >= 1 /\ X \in Nat
  BY <1>1
<1>3. Cubed(K) \in Nat /\ Cubed(r) \in Nat
  BY <1>1, CubeNat
<1>4. Q * y <= a /\ a < (Q + 1) * y
  BY DEF z
<1>5. 1024 * K <= 341 * r /\ 341 * r <= 1024 * K + 1023
  OBVIOUS
<1>6. 6859 * a <= 8000 * Cubed(K)
  <2>1. (Q + 1) * y <= x * x * (Q + 1)
    <3>1. y <= x * x
      BY <1>1
    <3> HIDE DEF y
    <3>2. (Q + 1) * y <= (Q + 1) * (x * x)
      BY <1>2, <3>1
    <3> QED
      BY <3>2
  <2>2. 27 * (x * x * (Q + 1)) <= Cubed(2 * x + (Q + 1))
    BY Mean
  <2>3. 2 * x + (Q + 1) = r + 1
    OBVIOUS
  <2> HIDE DEF r, y
  <2>4. Cubed(r + 1) \in Nat /\ 27 * a <= Cubed(r + 1)
    <3>1. Cubed(r + 1) \in Nat
      BY <1>1, CubeNat
    <3> DEFINE m == x * x * (Q + 1)
    <3>2. m \in Nat /\ 27 * m <= Cubed(r + 1) /\ a < m
      BY <1>2, <1>4, <2>1, <2>2, <2>3
    <3> HIDE DEF m
    <3> QED
      BY <3>1, <3>2
  <2>5. 19 * (r + 1) <= 60 * K
    BY <1>1, <1>5
  <2>6. Cubed(19 * (r + 1)) <= Cubed(60 * K)
    BY <1>1, <2>5, CubeFacts
  <2>7. Cubed(19 * (r + 1)) = 6859 * Cubed(r + 1) /\ Cubed(60 * K) = 216000 * Cubed(K)
    BY <1>1 DEF Cubed
  <2> QED
    BY <1>3, <2>4, <2>6, <2>7
<1>7. 8000 * Cubed(K) <= 9261 * a
  <2>1. X <= 2 * a
    <3>1. X = Cubed(x) - x * x /\ x * x \in Nat /\ Cubed(x) \in Nat
      BY <1>1 DEF Cubed
    <3> HIDE DEF X
    <3> QED
      BY <1>2, <3>1
  <2>2. 5 * a <= 7 * X
    <3>1. 11 * Cubed(x + 1) <= 14 * X
      <4> DEFINE e == 3 * (z * z * z) - 38 * (z * z) - 118 * z - 88
      <4>1. 14 * X = 11 * Cubed(x + 1) + e
        BY <1>1 DEF Cubed
      <4>2. e >= 0 /\ e \in Int
        <5> DEFINE m == z * z
        <5>1. m \in Nat /\ 511 * z <= m
          BY <1>1
        <5> HIDE DEF m
        <5>2. m * z \in Nat /\ 511 * m <= m * z
          BY <1>1, <5>1
        <5>3. 3 * (m * z) - 38 * m - 118 * z - 88 >= 0
          BY <1>1, <5>1, <5>2
        <5> QED
          BY <1>1, <5>3 DEF m
      <4>3. Cubed(x + 1) \in Nat
        BY CubeNat
      <4> HIDE DEF e, X
      <4> QED
        BY <1>2, <4>1, <4>2, <4>3
    <3>2. Cubed(x + 1) \in Nat
      BY CubeNat
    <3> HIDE DEF X
    <3> QED
      BY <1>2, <3>1, <3>2
  <2>3. 4 * Cubed(2 * X + a) <= 125 * (a * X * X)
    BY <1>2, <2>1, <2>2, NewtonAbove
  <2>4. Cubed(r) * Cubed(y) <= Cubed(2 * X + a)
    <3>1. r * y <= 2 * X + a /\ r * y \in Nat
      <4>1. r * y = 2 * X + Q * y
        BY <1>1, <1>2
      <4>2. Q * y \in Nat
        BY <1>2
      <4> HIDE DEF r, X, y
      <4> QED
        BY <1>1, <1>2, <1>4, <4>1, <4>2
    <3> HIDE DEF r, X, y
    <3>2. Cubed(r * y) <= Cubed(2 * X + a)
      BY <1>1, <1>2, <3>1, CubeFacts
    <3> QED
      BY <1>1, <1>2, <3>2, CubeFacts
  <2>5. 4 * (Cubed(r) * z) <= 125 * (a * x)
    <3> DEFINE R == Cubed(r)
    <3> HIDE DEF r, R
    <3>1. R \in Nat
      BY <1>3 DEF R
    <3> DEFINE c == x * y * y
    <3>2. c \in Nat /\ c >= 1
      <4> HIDE DEF y
      <4> QED
        BY <1>2
    <3>3. 4 * (R * Cubed(y)) = (4 * (R * z)) * c
      BY <1>1, <3>1 DEF Cubed
    <3>4. 125 * (a * X * X) = (125 * (a * x)) * c
      BY <1>1
    <3>5. R * Cubed(y) \in Nat /\ Cubed(2 * X + a) \in Nat
      <4>1. Cubed(y) \in Nat /\ 2 * X + a \in Nat
        BY <1>2, CubeNat
      <4> HIDE DEF y, X
      <4> QED
        BY <3>1, <4>1, CubeNat
    <3>6. R * Cubed(y) <= Cubed(2 * X + a)
      BY <2>4 DEF R
    <3> HIDE DEF c, X, y
    <3>7. (4 * (R * z)) * c <= (125 * (a * x)) * c
      <4> DEFINE m == R * Cubed(y)
                 n == Cubed(2 * X + a)
                 o == 125 * (a * X * X)
      <4>1. m \in Nat /\ n \in Nat /\ o \in Nat /\ m <= n /\ 4 * n <= o
        BY <1>2, <2>3, <3>5, <3>6
      <4> HIDE DEF m, n, o
      <4>2. 4 * m <= o
        BY <4>1
      <4> QED
        BY <3>3, <3>4, <4>2 DEF m, o
    <3>8. 4 * (R * z) \in Nat /\ 125 * (a * x) \in Nat
      BY <1>1, <3>1
    <3> QED
      BY <3>2, <3>7, <3>8, CancelFactor DEF R
  <2>6. 1073741824 * Cubed(K) <= 39651821 * Cubed(r)
    <3> HIDE DEF r
    <3>1. Cubed(1024 * K) <= Cubed(341 * r)
      BY <1>1, <1>5, CubeFacts
    <3>2. Cubed(1024 * K) = 1073741824 * Cubed(K) /\ Cubed(341 * r) = 39651821 * Cubed(r)
      BY <1>1 DEF Cubed
    <3> QED
      BY <3>1, <3>2
  <2> DEFINE k == Cubed(K)
             R == Cubed(r)
  <2>7. k \in Nat /\ R \in Nat
    BY <1>3
  <2> HIDE DEF k, R, r, X, y
  <2>8. 1073741824 * k * z <= 39651821 * (R * z)
    <3>1. (1073741824 * k) * z <= (39651821 * R) * z
      BY <1>1, <2>6, <2>7 DEF k, R
    <3> QED
      BY <1>1, <2>7, <3>1
  <2>9. (8000 * k) * (4294967296 * z) <= (9261 * a) * (4294967296 * z)
    <3> DEFINE p == k * z
               q == R * z
               o == a * x
               m == a * z
    <3>1. p \in Nat /\ q \in Nat /\ o \in Nat /\ m \in Nat /\ o = m + a /\ 511 * a <= m
      BY <1>1, <2>7
    <3>2. 1073741824 * p <= 39651821 * q /\ 4 * q <= 125 * o
      BY <1>1, <2>5, <2>7, <2>8 DEF R
    <3>3. (8000 * k) * (4294967296 * z) = 34359738368000 * p
      BY <1>1, <2>7
    <3>4. (9261 * a) * (4294967296 * z) = 39775692128256 * m
      BY <1>1, <2>7
    <3> HIDE DEF p, q, o, m
    <3>5. 34359738368000 * p <= 39775692128256 * m
      BY <3>1, <3>2
    <3> QED
      BY <3>3, <3>4, <3>5
  <2>10. 8000 * k \in Nat /\ 9261 * a \in Nat /\ 4294967296 * z \in Nat /\ 4294967296 * z >= 1
    BY <1>1, <2>7
  <2>11. 8000 * k <= 9261 * a
    BY <2>9, <2>10, CancelFactor
  <2> QED
    BY <2>11 DEF k
<1> QED
  BY <1>6, <1>7

(* For every 64-bit argument from 2^26 on (those of bictcp_update are all  *)
(* beyond 2^31) cubic_root is within 5% of the true root, in spite of the  *)
(* rounding of fls64 (bpfcubic.bpf.c:85-115, 245-277).                     *)
THEOREM RootWithinFivePercent ==
  \A a \in Nat : Bit[26] <= a /\ a < Bit[64] =>
    /\ 6859 * a <= 8000 * Cubed(cubic_root(a))
    /\ 8000 * Cubed(cubic_root(a)) <= 9261 * a
<1> TAKE a \in Nat
<1> DEFINE B == Bit[Third(a)]
           x == Guess(a)
           s == Leading(a)
           Q == a \div (x * (x - 1))
           K == cubic_root(a)
<1> SUFFICES ASSUME Bit[26] <= a, a < Bit[64]
             PROVE  6859 * a <= 8000 * Cubed(K) /\ 8000 * Cubed(K) <= 9261 * a
  OBVIOUS
<1>1. a >= 64
  <2>1. Bit[6] <= Bit[26] /\ Bit[26] \in Nat
    BY BitMonotone, BitPositive
  <2> QED
    BY <2>1, BitValues
<1>2. Third(a) \in Nat /\ Third(a) >= 8 /\ B \in Nat /\ LookedUp(a, B, s, x)
  BY <1>1, GuessFacts
<1>3. B >= 256
  <2>1. Bit[8] <= Bit[Third(a)]
    BY <1>2, BitMonotone
  <2> QED
    BY <2>1, BitValues
<1>4. K = (Refined(a) * 341) \div 1024 /\ Refined(a) = 2 * x + Q
  <2>1. ~(s >= 64)
    BY <1>2 DEF LookedUp
  <2>2. ~(a < 64)
    BY <1>1
  <2> QED
    BY <2>1, <2>2 DEF cubic_root, Refined
<1> HIDE DEF B, x, s, K
<1>5. /\ s \in 4..63 /\ s * (B * B * B) <= a /\ a < (s + 1) * (B * B * B)
      /\ x \in Nat /\ x >= 512
  BY <1>2, <1>3 DEF LookedUp
<1>6. PICK g \in Nat : /\ Cubed(g) <= 524288 * s
                       /\ 2621440 * (s + 1) <= 11 * Cubed(g)
                       /\ 64 * x <= g * B /\ g * B < 64 * x + 64
  BY <1>2 DEF LookedUp
<1> DEFINE C == Cubed(B)
           G == Cubed(g)
<1>7. /\ C \in Nat /\ G \in Nat
      /\ s * C <= a /\ a < (s + 1) * C
      /\ Cubed(g * B) = G * C /\ g * B \in Nat
  <2>1. C \in Nat /\ G \in Nat /\ Cubed(g * B) = G * C
    BY <1>2, CubeFacts
  <2>2. C = B * B * B
    BY DEF Cubed
  <2> HIDE DEF C, G
  <2> QED
    BY <1>2, <1>5, <2>1, <2>2
<1> HIDE DEF C, G
<1>8. Cubed(x) <= 2 * a
  <2>1. Cubed(64 * x) <= Cubed(g * B) /\ Cubed(64 * x) = 262144 * Cubed(x)
    <3>1. 64 * x \in Nat
      BY <1>5
    <3>2. Cubed(64 * x) = 262144 * Cubed(x)
      BY <1>5 DEF Cubed
    <3> QED
      BY <1>6, <1>7, <3>1, <3>2, CubeFacts
  <2>2. G * C <= (524288 * s) * C
    BY <1>5, <1>6, <1>7 DEF G
  <2>3. (524288 * s) * C = 524288 * (s * C) /\ s * C \in Nat
    BY <1>5, <1>7
  <2>4. Cubed(x) \in Nat /\ G * C \in Nat
    BY <1>5, <1>7, CubeNat
  <2> QED
    BY <1>7, <2>1, <2>2, <2>3, <2>4
<1>9. 10 * a <= 11 * Cubed(x + 1)
  <2>1. g * B <= 64 * (x + 1) /\ 64 * (x + 1) \in Nat
    BY <1>5, <1>6, <1>7
  <2>2. Cubed(g * B) <= Cubed(64 * (x + 1))
    BY <1>7, <2>1, CubeFacts
  <2>3. Cubed(64 * (x + 1)) = 262144 * Cubed(x + 1)
    BY <1>5 DEF Cubed
  <2>4. (2621440 * (s + 1)) * C <= (11 * G) * C
    BY <1>5, <1>6, <1>7 DEF G
  <2> DEFINE m == (s + 1) * C
             n == G * C
             o == Cubed(x + 1)
  <2>5. m \in Nat /\ n \in Nat /\ o \in Nat /\ a < m
    BY <1>5, <1>7, CubeNat
  <2>6. (2621440 * (s + 1)) * C = 2621440 * m /\ (11 * G) * C = 11 * n
    BY <1>5, <1>7
  <2>7. 2621440 * m <= 11 * n /\ n <= 262144 * o
    BY <1>7, <2>2, <2>3, <2>4, <2>6
  <2> HIDE DEF m, n, o
  <2>8. 10 * a <= 11 * o
    BY <2>5, <2>7
  <2> QED
    BY <2>8 DEF o
<1>10. x * (x - 1) \in Nat /\ x * (x - 1) >= 1
  <2>1. x - 1 \in Nat /\ x - 1 >= 1 /\ x >= 1
    BY <1>5
  <2> QED
    BY <1>5, <2>1
<1>11. /\ Q \in Nat /\ Q * (x * (x - 1)) <= a
       /\ a < (Q + 1) * (x * (x - 1))
  <2> DEFINE y == x * (x - 1)
  <2>1. y \in Nat /\ y >= 1
    BY <1>10
  <2> HIDE DEF y
  <2> DEFINE q == a \div y
  <2>2. q \in Nat /\ q * y <= a /\ a < q * y + y
    BY <2>1, DivBounds
  <2> HIDE DEF q
  <2>3. a < (q + 1) * y
    BY <2>1, <2>2
  <2> QED
    BY <2>2, <2>3 DEF q, y
<1> HIDE DEF Q
<1> DEFINE r == (2 * x + Q) * 341
<1>12. r \in Nat /\ K = r \div 1024
  BY <1>4, <1>5, <1>11
<1> HIDE DEF r
<1>13. K \in Nat /\ K * 1024 <= r /\ r < K * 1024 + 1024
  BY <1>12, DivBounds
<1>14. 1024 * K <= (2 * x + Q) * 341 /\ (2 * x + Q) * 341 < 1024 * K + 1024
  BY <1>13 DEF r
<1> QED
  BY <1>5, <1>8, <1>9, <1>11, <1>13, <1>14, NewtonClose

LEMMA RootType ==
  ASSUME NEW a \in Nat, a < Bit[64]
  PROVE  cubic_root(a) \in Nat
<1>1. CASE a < 64
  <2>1. a + 1 \in 1..64
    BY <1>1
  <2> DEFINE t == v[a + 1] + 35
  <2>0. v[a + 1] \in 0..254
    BY <2>1, Table
  <2>2. t \in Nat
    BY <2>0
  <2>3. cubic_root(a) = t \div 64
    BY <1>1 DEF cubic_root
  <2> HIDE DEF t
  <2> QED
    BY <2>2, <2>3, DivBounds
<1>2. CASE a >= 64
  <2> DEFINE B == Bit[Third(a)]
             c == Leading(a) + 1
  <2>1. B \in Nat /\ B >= 2 /\ LookedUp(a, B, Leading(a), Guess(a))
    BY <1>2, GuessFacts
  <2>2. c \in Nat /\ c <= 64 /\ Leading(a) + 1 <= c /\ ~(Leading(a) >= 64)
    BY <2>1 DEF LookedUp
  <2> HIDE DEF B, c
  <2>3. Refined(a) \in Nat
    BY <2>1, <2>2, RefinedFacts
  <2>4. Refined(a) * 341 \in Nat
    BY <2>3
  <2>5. cubic_root(a) = (Refined(a) * 341) \div 1024
    BY <1>2, <2>2 DEF cubic_root
  <2> QED
    BY <2>4, <2>5, DivBounds
<1> QED
  BY <1>1, <1>2

----------------------------------------------------------------------------
(* Below, the digits of Wide.  The number that those of w stand for.       *)
Horner(d, n) == d + Radix * n

Value(w) ==
  Horner(w[1], Horner(w[2], Horner(w[3], Horner(w[4],
  Horner(w[5], Horner(w[6], Horner(w[7], w[8])))))))

LEMMA WideSet == Wide = [1..8 -> 0..1023]
BY DEF Wide, Limbs, Radix

LEMMA WideDigits ==
  ASSUME NEW w \in Wide
  PROVE  /\ \A i \in 1..8 : w[i] \in Nat /\ w[i] < 1024
         /\ Value(w) \in Nat
<1> DEFINE D == 0..1023
           Small(d) == d \in Nat /\ d < 1024
<1>1. w \in [1..8 -> D]
  BY WideSet
<1>2. \A i \in 1..8 : w[i] \in Nat /\ w[i] < 1024
  <2>1. \A d \in D : Small(d)
    OBVIOUS
  <2> HIDE DEF D, Small
  <2>2. \A i \in 1..8 : w[i] \in D
    BY <1>1
  <2>3. \A i \in 1..8 : Small(w[i])
    BY <2>1, <2>2, Zenon
  <2> QED
    BY <2>3 DEF Small
<1> HIDE DEF D, Small
<1>3. \A d, n \in Nat : Horner(d, n) \in Nat
  BY DEF Horner, Radix
<1>4. Value(w) \in Nat
  <2>1. /\ w[1] \in Nat /\ w[2] \in Nat /\ w[3] \in Nat /\ w[4] \in Nat
        /\ w[5] \in Nat /\ w[6] \in Nat /\ w[7] \in Nat /\ w[8] \in Nat
    BY <1>2
  <2> DEFINE a7 == Horner(w[7], w[8]) a6 == Horner(w[6], a7)
             a5 == Horner(w[5], a6)   a4 == Horner(w[4], a5)
             a3 == Horner(w[3], a4)   a2 == Horner(w[2], a3)
  <2>2. a7 \in Nat BY <1>3, <2>1
  <2> HIDE DEF a7
  <2>3. a6 \in Nat BY <1>3, <2>1, <2>2
  <2> HIDE DEF a6
  <2>4. a5 \in Nat BY <1>3, <2>1, <2>3
  <2> HIDE DEF a5
  <2>5. a4 \in Nat BY <1>3, <2>1, <2>4
  <2> HIDE DEF a4
  <2>6. a3 \in Nat BY <1>3, <2>1, <2>5
  <2> HIDE DEF a3
  <2>7. a2 \in Nat BY <1>3, <2>1, <2>6
  <2> HIDE DEF a2
  <2>8. Horner(w[1], a2) \in Nat BY <1>3, <2>1, <2>7
  <2> QED
    BY <2>8 DEF Value, a2, a3, a4, a5, a6, a7
<1> QED
  BY <1>2, <1>4

(* Eight steps along the digits, each from what the one before left.       *)
LEMMA ChainExists ==
  ASSUME NEW N \in [1..8 -> [Nat -> Nat]]
  PROVE  \E h \in [0..8 -> Nat] : h[0] = 0 /\ \A i \in 1..8 : h[i] = N[i][h[i - 1]]
<1> DEFINE c1 == N[1][0]  c2 == N[2][c1] c3 == N[3][c2] c4 == N[4][c3]
           c5 == N[5][c4] c6 == N[6][c5] c7 == N[7][c6] c8 == N[8][c7]
           h  == [i \in 0..8 |-> IF i = 0 THEN 0 ELSE IF i = 1 THEN c1
                   ELSE IF i = 2 THEN c2 ELSE IF i = 3 THEN c3
                   ELSE IF i = 4 THEN c4 ELSE IF i = 5 THEN c5
                   ELSE IF i = 6 THEN c6 ELSE IF i = 7 THEN c7 ELSE c8]
<1>1. ASSUME NEW i \in 1..8, NEW c \in Nat PROVE N[i][c] \in Nat
  OBVIOUS
<1>2. /\ c1 \in Nat /\ c2 \in Nat /\ c3 \in Nat /\ c4 \in Nat
      /\ c5 \in Nat /\ c6 \in Nat /\ c7 \in Nat /\ c8 \in Nat
  <2>1. c1 \in Nat BY <1>1
  <2> HIDE DEF c1
  <2>2. c2 \in Nat BY <1>1, <2>1
  <2> HIDE DEF c2
  <2>3. c3 \in Nat BY <1>1, <2>2
  <2> HIDE DEF c3
  <2>4. c4 \in Nat BY <1>1, <2>3
  <2> HIDE DEF c4
  <2>5. c5 \in Nat BY <1>1, <2>4
  <2> HIDE DEF c5
  <2>6. c6 \in Nat BY <1>1, <2>5
  <2> HIDE DEF c6
  <2>7. c7 \in Nat BY <1>1, <2>6
  <2> HIDE DEF c7
  <2>8. c8 \in Nat BY <1>1, <2>7
  <2> QED
    BY <2>1, <2>2, <2>3, <2>4, <2>5, <2>6, <2>7, <2>8
<1>3. /\ c1 = N[1][0]  /\ c2 = N[2][c1] /\ c3 = N[3][c2] /\ c4 = N[4][c3]
      /\ c5 = N[5][c4] /\ c6 = N[6][c5] /\ c7 = N[7][c6] /\ c8 = N[8][c7]
  OBVIOUS
<1> HIDE DEF c1, c2, c3, c4, c5, c6, c7, c8
<1>4. h \in [0..8 -> Nat] /\ h[0] = 0
  BY <1>2
<1>5. /\ h[1] = c1 /\ h[2] = c2 /\ h[3] = c3 /\ h[4] = c4
      /\ h[5] = c5 /\ h[6] = c6 /\ h[7] = c7 /\ h[8] = c8
  OBVIOUS
<1> HIDE DEF h
<1>6. ASSUME NEW i \in 1..8 PROVE h[i] = N[i][h[i - 1]]
  <2>1. i \in {1, 2, 3, 4, 5, 6, 7, 8}
    OBVIOUS
  <2>2. /\ 1 - 1 = 0 /\ 2 - 1 = 1 /\ 3 - 1 = 2 /\ 4 - 1 = 3
        /\ 5 - 1 = 4 /\ 6 - 1 = 5 /\ 7 - 1 = 6 /\ 8 - 1 = 7
    OBVIOUS
  <2> QED
    BY <1>3, <1>4, <1>5, <2>1, <2>2
<1> QED
  BY <1>4, <1>6

(* The recursive definition of the carries defines what it says.           *)
LEMMA CarriesDefined ==
  ASSUME NEW w \in Wide, NEW k \in Nat
  PROVE  LET c == Carries(w, k)
         IN  /\ c[0] = 0
             /\ \A i \in 1..8 : /\ c[i - 1] \in Nat /\ c[i] \in Nat
                                /\ c[i] = (w[i] * k + c[i - 1]) \div 1024
<1> DEFINE next(i, d) == (w[i] * k + d) \div 1024
           N == [i \in 1..8 |-> [d \in Nat |-> next(i, d)]]
<1>1. ASSUME NEW i \in 1..8, NEW d \in Nat PROVE next(i, d) \in Nat
  <2> DEFINE a == w[i] * k + d
  <2>1. a \in Nat
    BY WideDigits
  <2> HIDE DEF a
  <2>2. a \div 1024 \in Nat
    BY <2>1, DivBounds
  <2> QED
    BY <2>2 DEF a
<1> DEFINE c == Carries(w, k)
           Right(g) == g = [i \in 0..8 |-> IF i = 0 THEN 0
                                           ELSE next(i, g[i - 1])]
<1>2. c = CHOOSE g : Right(g)
  BY DEF Carries, Limbs, Radix
<1>3. \A i \in 1..8, d \in Nat : next(i, d) = (w[i] * k + d) \div 1024
  OBVIOUS
<1> HIDE DEF c, next
<1>4. N \in [1..8 -> [Nat -> Nat]]
  BY <1>1
<1>5. \A i \in 1..8, d \in Nat : N[i][d] = next(i, d)
  OBVIOUS
<1> HIDE DEF N
<1>6. PICK h \in [0..8 -> Nat] : h[0] = 0 /\ \A i \in 1..8 : h[i] = N[i][h[i - 1]]
  BY <1>4, ChainExists
<1>7. Right(h)
  <2>1. ASSUME NEW i \in 0..8, i # 0 PROVE h[i] = next(i, h[i - 1])
    <3>1. i \in 1..8 /\ i - 1 \in 0..8
      BY <2>1
    <3>2. h[i - 1] \in Nat /\ h[i] = N[i][h[i - 1]]
      BY <3>1, <1>6
    <3> QED
      BY <3>1, <3>2, <1>5
  <2> QED
    BY <2>1, <1>6
<1> HIDE DEF Right
<1>8. Right(c)
  BY <1>2, <1>7
<1>9. c = [i \in 0..8 |-> IF i = 0 THEN 0 ELSE next(i, c[i - 1])]
  BY <1>8 DEF Right
<1>10. c[0] = 0
  BY <1>9
<1>11. ASSUME NEW i \in 1..8 PROVE c[i] = next(i, c[i - 1])
  BY <1>9
<1>12. ASSUME NEW i \in 1..8, c[i - 1] \in Nat PROVE c[i] \in Nat
  BY <1>11, <1>12, <1>1
<1>13. \A i \in 0..8 : c[i] \in Nat
  <2>1. c[1] \in Nat BY <1>10, <1>12
  <2>2. c[2] \in Nat BY <2>1, <1>12
  <2>3. c[3] \in Nat BY <2>2, <1>12
  <2>4. c[4] \in Nat BY <2>3, <1>12
  <2>5. c[5] \in Nat BY <2>4, <1>12
  <2>6. c[6] \in Nat BY <2>5, <1>12
  <2>7. c[7] \in Nat BY <2>6, <1>12
  <2>8. c[8] \in Nat BY <2>7, <1>12
  <2> QED
    BY <1>10, <2>1, <2>2, <2>3, <2>4, <2>5, <2>6, <2>7, <2>8
<1>14. ASSUME NEW i \in 1..8
       PROVE  /\ c[i - 1] \in Nat /\ c[i] \in Nat
              /\ c[i] = (w[i] * k + c[i - 1]) \div 1024
  <2>1. c[i - 1] \in Nat /\ c[i] \in Nat
    BY <1>13
  <2> QED
    BY <2>1, <1>3, <1>11
<1> QED
  BY <1>10, <1>14 DEF c

(* The remainders of a division likewise.                                  *)
LEMMA RemaindersDefined ==
  ASSUME NEW w \in Wide, NEW k \in Nat, k >= 1
  PROVE  LET r == Remainders(w, k)
         IN  /\ r[9] = 0
             /\ \A i \in 1..8 : /\ r[i + 1] \in 0..(k - 1) /\ r[i] \in 0..(k - 1)
                                /\ r[i] = (r[i + 1] * 1024 + w[i]) % k
<1> DEFINE next(i, d) == (d * 1024 + w[i]) % k
           N == [i \in 1..8 |-> [d \in Nat |-> next(9 - i, d)]]
<1>1. ASSUME NEW i \in 1..8, NEW d \in Nat PROVE next(i, d) \in 0..(k - 1)
  <2> DEFINE a == d * 1024 + w[i]
  <2>1. a \in Nat
    BY WideDigits
  <2> HIDE DEF a
  <2>2. a % k \in 0..(k - 1)
    BY <2>1
  <2> QED
    BY <2>2 DEF a
<1> DEFINE c == Remainders(w, k)
           Right(g) == g = [i \in 1..9 |-> IF i > 8 THEN 0
                                           ELSE next(i, g[i + 1])]
<1>2. c = CHOOSE g : Right(g)
  BY DEF Remainders, Limbs, Radix
<1>3. \A i \in 1..8, d \in Nat : next(i, d) = (d * 1024 + w[i]) % k
  OBVIOUS
<1> HIDE DEF c, next
<1>4. N \in [1..8 -> [Nat -> Nat]]
  <2>1. ASSUME NEW i \in 1..8, NEW d \in Nat PROVE next(9 - i, d) \in Nat
    <3>1. 9 - i \in 1..8
      OBVIOUS
    <3>2. next(9 - i, d) \in 0..(k - 1)
      BY <3>1, <1>1
    <3> QED
      BY <3>2
  <2> QED
    BY <2>1
<1>5. \A i \in 1..8, d \in Nat : N[i][d] = next(9 - i, d)
  OBVIOUS
<1> HIDE DEF N
<1>6. PICK h \in [0..8 -> Nat] : h[0] = 0 /\ \A i \in 1..8 : h[i] = N[i][h[i - 1]]
  BY <1>4, ChainExists
<1> DEFINE g == [i \in 1..9 |-> h[9 - i]]
<1>0. g \in [1..9 -> Nat] /\ \A i \in 1..9 : g[i] = h[9 - i]
  BY <1>6
<1> HIDE DEF g
<1>7. Right(g)
  <2>1. ASSUME NEW i \in 1..9, ~(i > 8) PROVE g[i] = next(i, g[i + 1])
    <3> DEFINE j == 9 - i
    <3>1. j \in 1..8 /\ i \in 1..8 /\ i + 1 \in 1..9 /\ j - 1 = 9 - (i + 1) /\ 9 - j = i
      BY <2>1
    <3>2. g[i] = h[j] /\ g[i + 1] = h[j - 1] /\ h[j - 1] \in Nat
      BY <3>1, <1>6, <1>0
    <3> HIDE DEF j
    <3>3. h[j] = N[j][h[j - 1]]
      BY <3>1, <1>6
    <3>4. N[j][h[j - 1]] = next(9 - j, h[j - 1])
      BY <3>1, <3>2, <1>5
    <3> QED
      BY <3>1, <3>2, <3>3, <3>4
  <2>2. g[9] = 0
    BY <1>6, <1>0
  <2>3. ASSUME NEW i \in 1..9, i > 8 PROVE g[i] = 0
    <3>1. i = 9
      BY <2>3
    <3> QED
      BY <2>2, <3>1
  <2> QED
    BY <2>1, <2>3, <1>0
<1> HIDE DEF Right
<1>8. Right(c)
  BY <1>2, <1>7
<1>9. c = [i \in 1..9 |-> IF i > 8 THEN 0 ELSE next(i, c[i + 1])]
  BY <1>8 DEF Right
<1>10. c[9] = 0
  BY <1>9
<1>11. ASSUME NEW i \in 1..8 PROVE c[i] = next(i, c[i + 1])
  BY <1>9
<1>12. ASSUME NEW i \in 1..8, c[i + 1] \in 0..(k - 1) PROVE c[i] \in 0..(k - 1)
  <2>1. c[i + 1] \in Nat
    BY <1>12
  <2> QED
    BY <1>11, <2>1, <1>1
<1>13. \A i \in 1..9 : c[i] \in 0..(k - 1)
  <2>9. c[9] \in 0..(k - 1) BY <1>10
  <2>8. c[8] \in 0..(k - 1) BY <2>9, <1>12
  <2>7. c[7] \in 0..(k - 1) BY <2>8, <1>12
  <2>6. c[6] \in 0..(k - 1) BY <2>7, <1>12
  <2>5. c[5] \in 0..(k - 1) BY <2>6, <1>12
  <2>4. c[4] \in 0..(k - 1) BY <2>5, <1>12
  <2>3. c[3] \in 0..(k - 1) BY <2>4, <1>12
  <2>2. c[2] \in 0..(k - 1) BY <2>3, <1>12
  <2>1. c[1] \in 0..(k - 1) BY <2>2, <1>12
  <2> QED
    BY <2>1, <2>2, <2>3, <2>4, <2>5, <2>6, <2>7, <2>8, <2>9
<1>14. ASSUME NEW i \in 1..8
       PROVE  /\ c[i + 1] \in 0..(k - 1) /\ c[i] \in 0..(k - 1)
              /\ c[i] = (c[i + 1] * 1024 + w[i]) % k
  <2>1. c[i + 1] \in 0..(k - 1) /\ c[i] \in 0..(k - 1)
    BY <1>13
  <2>2. c[i + 1] \in Nat
    BY <2>1
  <2>3. next(i, c[i + 1]) = (c[i + 1] * 1024 + w[i]) % k
    BY <2>2, <1>3
  <2> QED
    BY <2>1, <2>3, <1>11
<1> QED
  BY <1>10, <1>14 DEF c

(* From the highest digit down to the lowest.                              *)
Descends(S) == 9 \in S /\ \A i \in 1..8 : i + 1 \in S => i \in S

LEMMA DigitsDown == ASSUME NEW S, Descends(S) PROVE 1..9 \subseteq S
<1> DEFINE T == {n \in Nat : n <= 8 => 9 - n \in S}
<1>1. 0 \in T
  <2>1. 9 \in S
    BY Zenon DEF Descends
  <2> QED
    BY <2>1
<1>2. ASSUME NEW n \in Nat, n \in T PROVE n + 1 \in T
  <2>1. SUFFICES ASSUME n + 1 <= 8 PROVE 9 - (n + 1) \in S
    OBVIOUS
  <2> DEFINE i == 9 - (n + 1)
  <2>2. i \in 1..8 /\ i + 1 = 9 - n
    BY <2>1
  <2>3. 9 - n \in S
    BY <1>2, <2>1
  <2> HIDE DEF i
  <2>4. i \in S
    BY <2>2, <2>3, Zenon DEF Descends
  <2> QED
    BY <2>4 DEF i
<1>3. Nat \subseteq T
  <2> HIDE DEF T
  <2> QED
    BY <1>1, <1>2, Induction
<1>4. ASSUME NEW i \in 1..9 PROVE i \in S
  <2>1. 9 - i \in Nat /\ 9 - i <= 8 /\ 9 - (9 - i) = i
    OBVIOUS
  <2> QED
    BY <1>3, <2>1
<1> QED
  BY <1>4

(* t[i] is what the digits of w from i up stand for.                       *)
TailsOf(t, w) ==
  /\ t \in [1..9 -> Nat] /\ t[9] = 0
  /\ \A i \in 1..8 : t[i] = w[i] + 1024 * t[i + 1]
  /\ t[1] = Value(w)

LEMMA TailsExist == ASSUME NEW w \in Wide PROVE \E t : TailsOf(t, w)
<1> DEFINE t8 == w[8]             t7 == Horner(w[7], t8) t6 == Horner(w[6], t7)
           t5 == Horner(w[5], t6) t4 == Horner(w[4], t5) t3 == Horner(w[3], t4)
           t2 == Horner(w[2], t3) t1 == Horner(w[1], t2)
           t  == [i \in 1..9 |-> IF i = 9 THEN 0 ELSE IF i = 8 THEN t8
                   ELSE IF i = 7 THEN t7 ELSE IF i = 6 THEN t6
                   ELSE IF i = 5 THEN t5 ELSE IF i = 4 THEN t4
                   ELSE IF i = 3 THEN t3 ELSE IF i = 2 THEN t2 ELSE t1]
<1>1. Value(w) = t1
  BY DEF Value
<1>2. \A d, n : Horner(d, n) = d + 1024 * n
  BY DEF Horner, Radix
<1>3. /\ w[1] \in Nat /\ w[2] \in Nat /\ w[3] \in Nat /\ w[4] \in Nat
      /\ w[5] \in Nat /\ w[6] \in Nat /\ w[7] \in Nat /\ w[8] \in Nat
  BY WideDigits
<1>4. /\ t8 \in Nat /\ t7 \in Nat /\ t6 \in Nat /\ t5 \in Nat
      /\ t4 \in Nat /\ t3 \in Nat /\ t2 \in Nat /\ t1 \in Nat
      /\ t8 = w[8] + 1024 * 0  /\ t7 = w[7] + 1024 * t8
      /\ t6 = w[6] + 1024 * t7 /\ t5 = w[5] + 1024 * t6
      /\ t4 = w[4] + 1024 * t5 /\ t3 = w[3] + 1024 * t4
      /\ t2 = w[2] + 1024 * t3 /\ t1 = w[1] + 1024 * t2
  <2>8. t8 \in Nat /\ t8 = w[8] + 1024 * 0
    BY <1>3
  <2> HIDE DEF t8
  <2>7. t7 \in Nat /\ t7 = w[7] + 1024 * t8
    BY <1>2, <1>3, <2>8
  <2> HIDE DEF t7
  <2>6. t6 \in Nat /\ t6 = w[6] + 1024 * t7
    BY <1>2, <1>3, <2>7
  <2> HIDE DEF t6
  <2>5. t5 \in Nat /\ t5 = w[5] + 1024 * t6
    BY <1>2, <1>3, <2>6
  <2> HIDE DEF t5
  <2>4. t4 \in Nat /\ t4 = w[4] + 1024 * t5
    BY <1>2, <1>3, <2>5
  <2> HIDE DEF t4
  <2>3. t3 \in Nat /\ t3 = w[3] + 1024 * t4
    BY <1>2, <1>3, <2>4
  <2> HIDE DEF t3
  <2>2. t2 \in Nat /\ t2 = w[2] + 1024 * t3
    BY <1>2, <1>3, <2>3
  <2> HIDE DEF t2
  <2>1. t1 \in Nat /\ t1 = w[1] + 1024 * t2
    BY <1>2, <1>3, <2>2
  <2> QED
    BY <2>1, <2>2, <2>3, <2>4, <2>5, <2>6, <2>7, <2>8
<1> HIDE DEF t1, t2, t3, t4, t5, t6, t7, t8
<1>5. /\ t[1] = t1 /\ t[2] = t2 /\ t[3] = t3 /\ t[4] = t4 /\ t[5] = t5
      /\ t[6] = t6 /\ t[7] = t7 /\ t[8] = t8 /\ t[9] = 0
  OBVIOUS
<1>6. t \in [1..9 -> Nat]
  BY <1>4
<1> HIDE DEF t
<1>7. ASSUME NEW i \in 1..8 PROVE t[i] = w[i] + 1024 * t[i + 1]
  <2>1. i \in {1, 2, 3, 4, 5, 6, 7, 8}
    OBVIOUS
  <2>2. /\ 1 + 1 = 2 /\ 2 + 1 = 3 /\ 3 + 1 = 4 /\ 4 + 1 = 5
        /\ 5 + 1 = 6 /\ 6 + 1 = 7 /\ 7 + 1 = 8 /\ 8 + 1 = 9
    OBVIOUS
  <2> QED
    BY <1>4, <1>5, <2>1, <2>2
<1>8. TailsOf(t, w)
  BY <1>1, <1>5, <1>6, <1>7 DEF TailsOf
<1> QED
  BY <1>8

(* What t[i] stands for is below the weight of the digit after the last.   *)
LEMMA BitTen == Bit[10] = 1024 /\ \A n \in Nat : Bit[n + 10] = 1024 * Bit[n]
<1>1. Bit[10] = 1024
  <2>1. Bit[5 + 5] = Bit[5] * Bit[5]
    BY BitSum
  <2> QED
    BY <2>1, BitValues
<1>2. ASSUME NEW n \in Nat PROVE Bit[n + 10] = 1024 * Bit[n]
  <2>1. Bit[n + 10] = Bit[n] * Bit[10] /\ Bit[n] \in Nat
    BY BitSum, BitPositive
  <2> QED
    BY <1>1, <2>1
<1> QED
  BY <1>1, <1>2

(* A digit, and the carry out of it.                                       *)
LEMMA DigitAndCarry ==
  ASSUME NEW a \in Nat
  PROVE  /\ a % 1024 \in 0..1023 /\ a \div 1024 \in Nat
         /\ a = (a % 1024) + 1024 * (a \div 1024)
OBVIOUS

LEMMA TimesDigit ==
  ASSUME NEW d \in Nat, NEW k \in Nat, NEW in \in Nat, NEW out \in Nat,
         NEW r \in Nat, NEW t \in Nat, NEW u \in Nat, NEW m \in Nat,
         d * k + in = r + 1024 * out, t * k + out = u + m
  PROVE  (d + 1024 * t) * k + in = (r + 1024 * u) + 1024 * m
<1> DEFINE dk == d * k  tk == t * k
<1>1. dk \in Nat /\ tk \in Nat
  OBVIOUS
<1>2. (d + 1024 * t) * k = dk + 1024 * tk
  OBVIOUS
<1>3. dk + in = r + 1024 * out /\ tk + out = u + m
  OBVIOUS
<1> HIDE DEF dk, tk
<1> QED
  BY <1>1, <1>2, <1>3

LEMMA TimesDigits ==
  ASSUME NEW w \in Wide, NEW k \in Nat
  PROVE  LET c == Carries(w, k)
             r == Times(w, k)
         IN  /\ r \in Wide /\ c[0] = 0
             /\ \A i \in 1..8 : /\ c[i - 1] \in Nat /\ c[i] \in Nat
                                /\ w[i] \in Nat /\ r[i] \in Nat
                                /\ w[i] * k + c[i - 1] = r[i] + 1024 * c[i]
<1> DEFINE c == Carries(w, k)
           r == Times(w, k)
<1>1. /\ c[0] = 0
      /\ \A i \in 1..8 : /\ c[i - 1] \in Nat /\ c[i] \in Nat
                         /\ c[i] = (w[i] * k + c[i - 1]) \div 1024
  BY CarriesDefined
<1>2. r = [i \in 1..8 |-> (w[i] * k + c[i - 1]) % 1024]
  BY DEF Times, Limbs, Radix
<1> HIDE DEF c, r
<1>3. ASSUME NEW i \in 1..8
      PROVE  /\ r[i] \in 0..1023
             /\ w[i] * k + c[i - 1] = r[i] + 1024 * c[i]
  <2> DEFINE a == w[i] * k + c[i - 1]
  <2>1. a \in Nat
    BY <1>1, WideDigits
  <2>2. r[i] = a % 1024 /\ c[i] = a \div 1024
    BY <1>1, <1>2
  <2> HIDE DEF a
  <2>3. a % 1024 \in 0..1023 /\ a = (a % 1024) + 1024 * (a \div 1024)
    BY <2>1, DigitAndCarry
  <2>4. r[i] \in 0..1023 /\ a = r[i] + 1024 * c[i]
    BY <2>2, <2>3
  <2> QED
    BY <2>4 DEF a
<1>4. r \in Wide
  <2> DEFINE digit(i) == (w[i] * k + c[i - 1]) % 1024
             D == 0..1023
  <2>1. \A i \in 1..8 : r[i] \in D
    BY <1>3
  <2>2. r = [i \in 1..8 |-> digit(i)]
    BY <1>2
  <2> HIDE DEF digit, D
  <2>3. r \in [1..8 -> D]
    BY <2>1, <2>2, Zenon
  <2> QED
    BY <2>3, WideSet DEF D
<1>5. ASSUME NEW i \in 1..8 PROVE w[i] \in Nat /\ r[i] \in Nat
  BY <1>4, WideDigits
<1> QED
  BY <1>1, <1>3, <1>4, <1>5 DEF c, r

(* Digit by digit: the digits of w from i up, times k and with the carry   *)
(* from below, are those of the product and a carry out of the last.       *)
LEMMA TimesValue ==
  ASSUME NEW w \in Wide, NEW k \in Nat, Value(w) * k < Bit[80]
  PROVE  Times(w, k) \in Wide /\ Value(Times(w, k)) = Value(w) * k
<1> DEFINE c == Carries(w, k)
           r == Times(w, k)
<1>1. /\ r \in Wide /\ c[0] = 0
      /\ \A i \in 1..8 : /\ c[i - 1] \in Nat /\ c[i] \in Nat
                         /\ w[i] \in Nat /\ r[i] \in Nat
                         /\ w[i] * k + c[i - 1] = r[i] + 1024 * c[i]
  BY TimesDigits
<1> HIDE DEF c, r
<1>4. r \in Wide
  BY <1>1
<1>5. PICK t : TailsOf(t, w)
  BY TailsExist
<1>6. PICK u : TailsOf(u, r)
  BY <1>4, TailsExist
<1> DEFINE weight(i) == Bit[10 * (9 - i)] * c[8]
           S == {i \in 1..9 : c[i - 1] \in Nat /\ t[i] * k + c[i - 1] = u[i] + weight(i)}
<1>7. \A i \in 1..9 : weight(i) \in Nat
  <2>1. ASSUME NEW i \in 1..9 PROVE weight(i) \in Nat
    <3>1. 10 * (9 - i) \in Nat /\ c[8] \in Nat
      BY <1>1
    <3>2. Bit[10 * (9 - i)] \in Nat
      BY <3>1, BitPositive
    <3> QED
      BY <3>1, <3>2
  <2> QED
    BY <2>1
<1>8. \A i \in 1..8 : weight(i) = 1024 * weight(i + 1)
  <2>1. ASSUME NEW i \in 1..8 PROVE weight(i) = 1024 * weight(i + 1)
    <3> DEFINE n == 10 * (9 - (i + 1))
    <3>1. n \in Nat /\ 10 * (9 - i) = n + 10 /\ c[8] \in Nat
      BY <1>1
    <3>2. weight(i + 1) = Bit[n] * c[8] /\ weight(i) = Bit[n + 10] * c[8]
      BY <3>1
    <3> HIDE DEF n, weight
    <3>3. Bit[n + 10] = 1024 * Bit[n] /\ Bit[n] \in Nat
      BY <3>1, BitTen, BitPositive
    <3> DEFINE b == Bit[n]
    <3>4. (1024 * b) * c[8] = 1024 * (b * c[8])
      BY <3>1, <3>3
    <3> QED
      BY <3>2, <3>3, <3>4
  <2> QED
    BY <2>1
<1>9. Bit[0] * c[8] = c[8] /\ weight(9) = c[8]
  <2>1. 10 * (9 - 9) = 0 /\ Bit[0] = 1 /\ c[8] \in Nat
    BY <1>1, BitValues
  <2> QED
    BY <2>1
<1>10. weight(1) = Bit[80] * c[8]
  <2>1. 10 * (9 - 1) = 80
    OBVIOUS
  <2> QED
    BY <2>1
<1> HIDE DEF weight
<1>11. 9 \in S
  <2>1. t[9] = 0 /\ u[9] = 0 /\ 9 - 1 = 8 /\ c[8] \in Nat
    BY <1>1, <1>5, <1>6 DEF TailsOf
  <2> QED
    BY <2>1, <1>9
<1>12. ASSUME NEW i \in 1..8, i + 1 \in S PROVE i \in S
  <2> DEFINE j == i + 1
  <2>1. j \in 1..9 /\ j - 1 = i
    OBVIOUS
  <2>2. t[j] * k + c[i] = u[j] + weight(j)
    BY <1>12, <2>1
  <2>3. t[j] \in Nat /\ u[j] \in Nat /\ weight(j) \in Nat
    BY <2>1, <1>5, <1>6, <1>7 DEF TailsOf
  <2>4. /\ t[i] = w[i] + 1024 * t[j] /\ u[i] = r[i] + 1024 * u[j]
        /\ weight(i) = 1024 * weight(j)
    BY <1>5, <1>6, <1>8 DEF TailsOf
  <2>5. /\ w[i] \in Nat /\ r[i] \in Nat /\ c[i] \in Nat /\ c[i - 1] \in Nat
        /\ w[i] * k + c[i - 1] = r[i] + 1024 * c[i]
    BY <1>1
  <2> HIDE DEF j, S
  <2> DEFINE d == w[i]  in == c[i - 1]  out == c[i]  e == r[i]
             tj == t[j]  uj == u[j]  m == weight(j)
  <2>6. /\ d \in Nat /\ in \in Nat /\ out \in Nat /\ e \in Nat
        /\ tj \in Nat /\ uj \in Nat /\ m \in Nat
        /\ d * k + in = e + 1024 * out /\ tj * k + out = uj + m
    BY <2>2, <2>3, <2>5
  <2>7. t[i] * k + c[i - 1] = (d + 1024 * tj) * k + in
    BY <2>4
  <2>8. u[i] + weight(i) = (e + 1024 * uj) + 1024 * m
    BY <2>4
  <2> HIDE DEF d, in, out, e, tj, uj, m
  <2>9. (d + 1024 * tj) * k + in = (e + 1024 * uj) + 1024 * m
    BY <2>6, TimesDigit
  <2> QED
    BY <2>5, <2>7, <2>8, <2>9 DEF S
<1>13. 1 \in S
  <2>1. Descends(S)
    BY <1>11, <1>12 DEF Descends
  <2> HIDE DEF S
  <2> QED
    BY <2>1, DigitsDown
<1>14. Value(w) * k + 0 = Value(r) + Bit[80] * c[8]
  BY <1>1, <1>5, <1>6, <1>10, <1>13 DEF TailsOf
<1>15. c[8] = 0
  <2> DEFINE x == Value(w) * k  b == Bit[80]  e == c[8]
  <2>1. x \in Nat /\ Value(r) \in Nat /\ b \in Nat /\ e \in Nat
    BY <1>1, <1>4, WideDigits, BitPositive
  <2>2. x = Value(r) + b * e /\ x < b
    BY <1>14, <2>1
  <2> HIDE DEF x, b, e
  <2>3. CASE e >= 1
    <3>1. b * e >= b * 1
      BY <2>1, <2>3, MulMono
    <3> DEFINE be == b * e
    <3>2. be \in Nat /\ be >= b
      BY <2>1, <3>1
    <3> HIDE DEF be
    <3> QED
      BY <2>1, <2>2, <3>2 DEF be
  <2> QED
    BY <2>1, <2>3 DEF e
<1>16. Value(w) * k = Value(r)
  <2>1. Value(w) * k \in Nat /\ Value(r) \in Nat /\ Bit[80] * 0 = 0
    BY <1>4, WideDigits, BitPositive
  <2> QED
    BY <1>14, <1>15, <2>1
<1> QED
  BY <1>4, <1>16 DEF r

(* A quotient and a remainder determine each other.                        *)
LEMMA DivUnique ==
  ASSUME NEW q \in Nat, NEW k \in Nat, k >= 1, NEW r \in 0..(k - 1)
  PROVE  (k * q + r) \div k = q
<1> DEFINE a == k * q + r
           p == a \div k
<1>1. a \in Nat
  OBVIOUS
<1> HIDE DEF a
<1>2. p \in Nat /\ p * k <= a /\ a < p * k + k
  BY <1>1, DivBounds
<1> HIDE DEF p
<1>3. a = k * q + r
  BY DEF a
<1>4. ~(p < q)
  <2>1. SUFFICES ASSUME p + 1 <= q PROVE FALSE
    BY <1>2
  <2>2. k * (p + 1) <= k * q
    BY <1>2, <2>1, MulMono
  <2>3. k * (p + 1) = p * k + k
    BY <1>2
  <2> DEFINE x == p * k  y == k * q
  <2>4. x \in Nat /\ y \in Nat
    BY <1>2
  <2>5. x + k <= y /\ a = y + r /\ a < x + k
    BY <1>2, <1>3, <2>2, <2>3
  <2> HIDE DEF x, y
  <2> QED
    BY <2>4, <2>5
<1>5. ~(q < p)
  <2>1. SUFFICES ASSUME q + 1 <= p PROVE FALSE
    BY <1>2
  <2>2. k * (q + 1) <= k * p
    BY <1>2, <2>1, MulMono
  <2>3. k * (q + 1) = k * q + k /\ k * p = p * k
    BY <1>2
  <2> DEFINE x == p * k  y == k * q
  <2>4. x \in Nat /\ y \in Nat
    BY <1>2
  <2>5. y + k <= x /\ a = y + r /\ x <= a
    BY <1>2, <1>3, <2>2, <2>3
  <2> HIDE DEF x, y
  <2> QED
    BY <2>4, <2>5
<1> QED
  BY <1>2, <1>4, <1>5 DEF p, a

LEMMA DivMod ==
  ASSUME NEW a \in Nat, NEW k \in Nat, k >= 1
  PROVE  /\ a \div k \in Nat /\ a % k \in 0..(k - 1)
         /\ a = k * (a \div k) + (a % k)
<1>1. a \div k \in Nat /\ a % k \in 0..(k - 1)
  BY DivBounds
<1>2. a % k = a - (a \div k) * k
  OBVIOUS
<1> DEFINE q == a \div k  m == a % k
<1>3. q \in Nat /\ m \in Nat /\ m = a - q * k
  BY <1>1, <1>2
<1> HIDE DEF q, m
<1>4. a = k * q + m
  BY <1>3
<1>5. a = k * (a \div k) + (a % k)
  BY <1>4 DEF q, m
<1> QED
  BY <1>1, <1>5

LEMMA OverDigits ==
  ASSUME NEW w \in Wide, NEW k \in Nat, k >= 1
  PROVE  LET m == Remainders(w, k)
             q == Over(w, k)
         IN  /\ q \in Wide /\ m[9] = 0 /\ m[1] \in 0..(k - 1)
             /\ \A i \in 1..8 : /\ m[i] \in Nat /\ m[i + 1] \in Nat
                                /\ w[i] \in Nat /\ q[i] \in Nat
                                /\ m[i + 1] * 1024 + w[i] = k * q[i] + m[i]
<1> DEFINE m == Remainders(w, k)
           q == Over(w, k)
           digit(i) == (m[i + 1] * 1024 + w[i]) \div k
           D == 0..1023
<1>1. /\ m[9] = 0
      /\ \A i \in 1..8 : /\ m[i + 1] \in 0..(k - 1) /\ m[i] \in 0..(k - 1)
                         /\ m[i] = (m[i + 1] * 1024 + w[i]) % k
  BY RemaindersDefined
<1>2. q = [i \in 1..8 |-> digit(i)]
  BY DEF Over, Limbs, Radix
<1> HIDE DEF m, q
<1>3. ASSUME NEW i \in 1..8
      PROVE  /\ digit(i) \in D
             /\ m[i + 1] * 1024 + w[i] = k * digit(i) + m[i]
  <2> DEFINE a == m[i + 1] * 1024 + w[i]
             p == a \div k
  <2>1. m[i + 1] \in 0..(k - 1) /\ w[i] \in Nat /\ w[i] < 1024
    BY <1>1, WideDigits
  <2>2. a \in Nat /\ a < 1024 * k
    BY <2>1
  <2>3. m[i] = a % k
    BY <1>1
  <2>4. digit(i) = p
    OBVIOUS
  <2> HIDE DEF a
  <2>5. p \in Nat /\ a = k * p + (a % k) /\ a % k \in 0..(k - 1)
    BY <2>2, DivMod
  <2> HIDE DEF p
  <2>6. p < 1024
    <3>1. SUFFICES ASSUME 1024 <= p PROVE FALSE
      BY <2>5
    <3>2. k * 1024 <= k * p
      BY <2>5, <3>1, MulMono
    <3> DEFINE x == k * p
    <3> DEFINE z == a % k
    <3>3. x \in Nat /\ z \in Nat
      BY <2>5
    <3>4. 1024 * k <= x /\ a = x + z
      BY <2>5, <3>2
    <3> HIDE DEF x, z
    <3> QED
      BY <2>2, <3>3, <3>4
  <2>7. p \in D
    BY <2>5, <2>6
  <2> HIDE DEF digit, D
  <2>8. a = k * digit(i) + m[i]
    BY <2>3, <2>4, <2>5
  <2>9. digit(i) \in D
    BY <2>4, <2>7
  <2> QED
    BY <2>8, <2>9 DEF a
<1>4. \A i \in 1..8 : q[i] = digit(i)
  BY <1>2
<1> HIDE DEF digit, D
<1>5. q \in Wide
  <2>1. \A i \in 1..8 : digit(i) \in D
    BY <1>3
  <2>2. q \in [1..8 -> D]
    BY <1>2, <2>1, Zenon
  <2> QED
    BY <2>2, WideSet DEF D
<1>6. ASSUME NEW i \in 1..8
      PROVE  /\ m[i] \in Nat /\ m[i + 1] \in Nat /\ w[i] \in Nat /\ q[i] \in Nat
             /\ m[i + 1] * 1024 + w[i] = k * q[i] + m[i]
  <2>1. m[i + 1] \in 0..(k - 1) /\ m[i] \in 0..(k - 1)
    BY <1>1
  <2>2. q[i] \in Nat /\ w[i] \in Nat
    BY <1>5, WideDigits
  <2>3. m[i + 1] * 1024 + w[i] = k * q[i] + m[i]
    BY <1>3, <1>4
  <2> QED
    BY <2>1, <2>2, <2>3
<1> QED
  BY <1>1, <1>5, <1>6 DEF m, q

LEMMA OverDigit ==
  ASSUME NEW d \in Nat, NEW k \in Nat, NEW above \in Nat, NEW left \in Nat,
         NEW q \in Nat, NEW t \in Nat, NEW u \in Nat,
         above * 1024 + d = k * q + left, t = k * u + above
  PROVE  d + 1024 * t = k * (q + 1024 * u) + left
<1> DEFINE kq == k * q  ku == k * u
<1>1. kq \in Nat /\ ku \in Nat
  OBVIOUS
<1>2. k * (q + 1024 * u) = kq + 1024 * ku
  OBVIOUS
<1>3. above * 1024 + d = kq + left /\ t = ku + above
  OBVIOUS
<1> HIDE DEF kq, ku
<1> QED
  BY <1>1, <1>2, <1>3

(* The digits of w from i up are k times those of the quotient, and what   *)
(* is left.                                                                *)
LEMMA OverValue ==
  ASSUME NEW w \in Wide, NEW k \in Nat, k >= 1
  PROVE  Over(w, k) \in Wide /\ Value(Over(w, k)) = Value(w) \div k
<1> DEFINE m == Remainders(w, k)
           q == Over(w, k)
<1>1. /\ q \in Wide /\ m[9] = 0 /\ m[1] \in 0..(k - 1)
      /\ \A i \in 1..8 : /\ m[i] \in Nat /\ m[i + 1] \in Nat
                         /\ w[i] \in Nat /\ q[i] \in Nat
                         /\ m[i + 1] * 1024 + w[i] = k * q[i] + m[i]
  BY OverDigits
<1> HIDE DEF m, q
<1>2. PICK t : TailsOf(t, w)
  BY TailsExist
<1>3. PICK u : TailsOf(u, q)
  BY <1>1, TailsExist
<1> DEFINE S == {i \in 1..9 : t[i] = k * u[i] + m[i]}
<1>4. 9 \in S
  <2>1. t[9] = 0 /\ u[9] = 0
    BY <1>2, <1>3 DEF TailsOf
  <2>2. k * 0 + 0 = 0
    OBVIOUS
  <2>3. m[9] = 0
    BY <1>1
  <2> QED
    BY <2>1, <2>2, <2>3
<1>5. ASSUME NEW i \in 1..8, i + 1 \in S PROVE i \in S
  <2> DEFINE j == i + 1
  <2>1. j \in 1..9
    OBVIOUS
  <2>2. t[j] = k * u[j] + m[j]
    BY <1>5
  <2>3. t[j] \in Nat /\ u[j] \in Nat
    BY <2>1, <1>2, <1>3 DEF TailsOf
  <2>4. t[i] = w[i] + 1024 * t[j] /\ u[i] = q[i] + 1024 * u[j]
    BY <1>2, <1>3 DEF TailsOf
  <2>5. /\ m[i] \in Nat /\ m[j] \in Nat /\ w[i] \in Nat /\ q[i] \in Nat
        /\ m[j] * 1024 + w[i] = k * q[i] + m[i]
    BY <1>1
  <2> HIDE DEF j, S
  <2> DEFINE d == w[i]  above == m[j]  left == m[i]  e == q[i]
             tj == t[j]  uj == u[j]
  <2>6. /\ d \in Nat /\ above \in Nat /\ left \in Nat /\ e \in Nat
        /\ tj \in Nat /\ uj \in Nat
        /\ above * 1024 + d = k * e + left /\ tj = k * uj + above
    BY <2>2, <2>3, <2>5
  <2>7. t[i] = d + 1024 * tj /\ k * u[i] + m[i] = k * (e + 1024 * uj) + left
    BY <2>4
  <2> HIDE DEF d, above, left, e, tj, uj
  <2>8. d + 1024 * tj = k * (e + 1024 * uj) + left
    BY <2>6, OverDigit
  <2> QED
    BY <2>7, <2>8 DEF S
<1>6. 1 \in S
  <2>1. Descends(S)
    BY <1>4, <1>5 DEF Descends
  <2> HIDE DEF S
  <2> QED
    BY <2>1, DigitsDown
<1>7. Value(w) = k * Value(q) + m[1]
  BY <1>2, <1>3, <1>6 DEF TailsOf
<1>8. Value(q) \in Nat
  BY <1>1, WideDigits
<1> DEFINE y == Value(q)  r == m[1]
<1> HIDE DEF y, r
<1>9. y \in Nat /\ r \in 0..(k - 1) /\ Value(w) = k * y + r
  BY <1>1, <1>7, <1>8 DEF y, r
<1>10. (k * y + r) \div k = y
  BY <1>9, DivUnique
<1> QED
  BY <1>1, <1>9, <1>10 DEF q, y

(* The digits below the n-th stand for less than one unit of it.           *)
LEMMA Split ==
  ASSUME NEW w \in Wide, NEW t, TailsOf(t, w)
  PROVE  \A n \in Nat : n <= 8 =>
           \E low \in Nat : /\ low < Bit[10 * n]
                            /\ Value(w) = low + Bit[10 * n] * t[n + 1]
<1> DEFINE Holds(n) == \E low \in Nat : /\ low < Bit[10 * n]
                                        /\ Value(w) = low + Bit[10 * n] * t[n + 1]
           T == {n \in Nat : n <= 8 => Holds(n)}
<1>1. \A i \in 1..9 : t[i] \in Nat
  BY DEF TailsOf
<1>2. 0 \in T
  <2>1. /\ 10 * 0 = 0 /\ 0 + 1 = 1 /\ Bit[0] = 1 /\ t[1] = Value(w)
        /\ t[1] \in Nat
    BY <1>1, BitValues DEF TailsOf
  <2>2. 0 < Bit[10 * 0] /\ Value(w) = 0 + Bit[10 * 0] * t[0 + 1]
    BY <2>1
  <2>3. Holds(0)
    BY <2>2
  <2> HIDE DEF Holds
  <2> QED
    BY <2>3
<1>3. ASSUME NEW n \in Nat, n \in T PROVE n + 1 \in T
  <2>1. SUFFICES ASSUME n + 1 <= 8 PROVE Holds(n + 1)
    OBVIOUS
  <2>2. PICK low \in Nat : /\ low < Bit[10 * n]
                           /\ Value(w) = low + Bit[10 * n] * t[n + 1]
    BY <1>3, <2>1
  <2> DEFINE i == n + 1
             B == Bit[10 * n]
             next == low + B * w[i]
  <2>3. i \in 1..8 /\ i + 1 \in 1..9 /\ 10 * i = 10 * n + 10 /\ 10 * n \in Nat
    BY <2>1
  <2>4. B \in Nat /\ B >= 1 /\ Bit[10 * i] = 1024 * B
    BY <2>3, BitTen, BitPositive
  <2>5. /\ t[i] = w[i] + 1024 * t[i + 1] /\ t[i + 1] \in Nat
        /\ w[i] \in Nat /\ w[i] < 1024
    <3>1. \A j \in 1..8 : t[j] = w[j] + 1024 * t[j + 1]
      BY Zenon DEF TailsOf
    <3> HIDE DEF i
    <3>2. t[i] = w[i] + 1024 * t[i + 1]
      BY <2>3, <3>1
    <3> QED
      BY <2>3, <1>1, <3>2, WideDigits
  <2>6. low < B /\ Value(w) = low + B * t[i]
    BY <2>2
  <2> HIDE DEF i, B
  <2> DEFINE d == w[i]  u == t[i + 1]
  <2>7. /\ d \in Nat /\ d + 1 <= 1024 /\ u \in Nat
        /\ low < B /\ Value(w) = low + B * (d + 1024 * u)
    BY <2>5, <2>6
  <2>0. next = low + B * d
    OBVIOUS
  <2> HIDE DEF d, u, next
  <2>8. next \in Nat /\ next < 1024 * B
    <3>1. B * (d + 1) <= B * 1024
      BY <2>4, <2>7, MulMono
    <3> DEFINE x == B * d
    <3>2. x \in Nat /\ x + B <= 1024 * B /\ next = low + x
      BY <2>0, <2>4, <2>7, <3>1
    <3> HIDE DEF x
    <3> QED
      BY <2>4, <2>7, <3>2
  <2>9. Value(w) = next + (1024 * B) * u
    <3>1. B * (d + 1024 * u) = B * d + (1024 * B) * u
      BY <2>4, <2>7
    <3> DEFINE x == B * d  y == (1024 * B) * u
    <3>2. x \in Nat /\ y \in Nat /\ Value(w) = low + (x + y) /\ next = low + x
      BY <2>0, <2>4, <2>7, <3>1
    <3> HIDE DEF x, y
    <3>3. Value(w) = next + y
      BY <2>7, <3>2
    <3> QED
      BY <3>3 DEF y
  <2>10. next < Bit[10 * i] /\ Value(w) = next + Bit[10 * i] * t[i + 1]
    BY <2>4, <2>8, <2>9 DEF u
  <2>11. Holds(i)
    BY <2>8, <2>10
  <2> QED
    BY <2>11 DEF i
<1>4. Nat \subseteq T
  <2> HIDE DEF T
  <2> QED
    BY <1>2, <1>3, Induction
<1>5. \A n \in Nat : n <= 8 => Holds(n)
  <2> HIDE DEF Holds
  <2> QED
    BY <1>4
<1> QED
  BY <1>5

(* So the digits from the n-th up are a quotient.                          *)
LEMMA TailIsQuotient ==
  ASSUME NEW w \in Wide, NEW t, TailsOf(t, w), NEW n \in 0..8
  PROVE  t[n + 1] = Value(w) \div Bit[10 * n]
<1> DEFINE B == Bit[10 * n]  q == t[n + 1]
<1>1. B \in Nat /\ B >= 1 /\ q \in Nat
  BY BitPositive DEF TailsOf
<1>2. PICK low \in Nat : low < B /\ Value(w) = low + B * q
  BY Split
<1> HIDE DEF B, q
<1>3. low \in 0..(B - 1) /\ low + B * q = B * q + low
  BY <1>1, <1>2
<1>4. (B * q + low) \div B = q
  BY <1>1, <1>3, DivUnique
<1> QED
  BY <1>2, <1>3, <1>4 DEF B, q

LEMMA WideBelow == ASSUME NEW w \in Wide PROVE Value(w) < Bit[80]
<1>1. PICK t : TailsOf(t, w)
  BY TailsExist
<1>2. PICK low \in Nat : /\ low < Bit[10 * 8]
                         /\ Value(w) = low + Bit[10 * 8] * t[8 + 1]
  BY <1>1, Split
<1>3. 10 * 8 = 80 /\ 8 + 1 = 9 /\ t[9] = 0 /\ Bit[80] \in Nat
  BY <1>1, BitPositive DEF TailsOf
<1> QED
  BY <1>2, <1>3

LEMMA SkipValue ==
  ASSUME NEW w \in Wide, NEW n \in 0..8
  PROVE  Skip(w, n) \in Wide /\ Value(Skip(w, n)) = Value(w) \div Bit[10 * n]
<1> DEFINE s == Skip(w, n)
<1>1. s = [i \in 1..8 |-> IF i + n > 8 THEN 0 ELSE w[i + n]]
  BY DEF Skip, Limbs
<1> HIDE DEF s
<1>2. s \in Wide
  <2>1. \A i \in 1..8 : i + n \in 1..8 => w[i + n] \in 0..1023
    BY WideSet
  <2>2. ASSUME NEW i \in 1..8 PROVE s[i] \in 0..1023
    <3>1. CASE i + n > 8
      BY <1>1, <3>1
    <3>2. CASE ~(i + n > 8)
      <4>1. i + n \in 1..8
        BY <3>2
      <4> QED
        BY <1>1, <2>1, <3>2, <4>1
    <3> QED
      BY <3>1, <3>2
  <2>3. s \in [1..8 -> 0..1023]
    BY <1>1, <2>2
  <2> QED
    BY <2>3, WideSet
<1>3. PICK t : TailsOf(t, w)
  BY TailsExist
<1>4. PICK u : TailsOf(u, s)
  BY <1>2, TailsExist
<1> DEFINE S == {i \in 1..9 : u[i] = IF i + n > 8 THEN 0 ELSE t[i + n]}
<1>5. 9 \in S
  BY <1>4 DEF TailsOf
<1>6. ASSUME NEW i \in 1..8, i + 1 \in S PROVE i \in S
  <2> DEFINE j == i + 1
  <2>1. j \in 1..9 /\ u[i] = s[i] + 1024 * u[j]
    BY <1>4 DEF TailsOf
  <2>2. u[j] = IF j + n > 8 THEN 0 ELSE t[j + n]
    BY <1>6
  <2>3. s[i] = IF i + n > 8 THEN 0 ELSE w[i + n]
    BY <1>1
  <2>4. CASE i + n > 8
    BY <2>1, <2>2, <2>3, <2>4
  <2>5. CASE ~(i + n > 8)
    <3> DEFINE k == i + n
    <3>1. k \in 1..8 /\ j + n = k + 1
      BY <2>5
    <3>2. t[k] = w[k] + 1024 * t[k + 1] /\ t[9] = 0
      BY <1>3, <3>1 DEF TailsOf
    <3>3. u[j] = t[k + 1]
      <4>1. CASE k = 8
        BY <2>2, <3>1, <3>2, <4>1
      <4>2. CASE k # 8
        BY <2>2, <3>1, <4>2
      <4> QED
        BY <4>1, <4>2
    <3> HIDE DEF S, j
    <3>4. u[i] = t[k]
      BY <2>1, <2>3, <2>5, <3>2, <3>3
    <3> QED
      BY <2>5, <3>4 DEF S
  <2> QED
    BY <2>4, <2>5
<1>7. 1 \in S
  <2>1. Descends(S)
    BY <1>5, <1>6 DEF Descends
  <2> HIDE DEF S
  <2> QED
    BY <2>1, DigitsDown
<1>8. Value(s) = t[n + 1]
  <2>1. u[1] = IF 1 + n > 8 THEN 0 ELSE t[1 + n]
    BY <1>7
  <2>2. u[1] = Value(s) /\ t[9] = 0
    BY <1>3, <1>4 DEF TailsOf
  <2>3. CASE n = 8
    BY <2>1, <2>2, <2>3
  <2>4. CASE n # 8
    <3>1. ~(1 + n > 8) /\ 1 + n = n + 1
      BY <2>4
    <3> QED
      BY <2>1, <2>2, <3>1
  <2> QED
    BY <2>3, <2>4
<1> QED
  BY <1>2, <1>3, <1>8, TailIsQuotient DEF s

(* Dividing twice is dividing by the product.                              *)
LEMMA DivDiv ==
  ASSUME NEW a \in Nat, NEW m \in Nat, m >= 1, NEW n \in Nat, n >= 1
  PROVE  (a \div m) \div n = a \div (m * n)
<1> DEFINE p == a \div m  r == a % m
<1>1. p \in Nat /\ r \in 0..(m - 1) /\ a = m * p + r
  BY DivMod
<1> DEFINE q == p \div n  s == p % n
<1> HIDE DEF p, r
<1>2. q \in Nat /\ s \in 0..(n - 1) /\ p = n * q + s
  BY <1>1, DivMod
<1> HIDE DEF q, s
<1> DEFINE k == m * n  z == m * s + r
<1>3. k \in Nat /\ k >= 1
  <2>1. m * 1 <= m * n
    BY MulMono
  <2> QED
    BY <2>1
<1>4. z \in 0..(k - 1)
  <2>1. m * (s + 1) <= m * n
    BY <1>2, MulMono
  <2> DEFINE ms == m * s
  <2>2. ms \in Nat /\ ms + m <= k /\ z = ms + r
    BY <1>1, <1>2, <2>1
  <2> HIDE DEF ms, k, z
  <2> QED
    BY <1>1, <1>3, <2>2
<1>5. a = k * q + z
  <2>1. m * (n * q + s) = (m * n) * q + m * s
    BY <1>1, <1>2
  <2> DEFINE x == (m * n) * q  y == m * s
  <2>2. x \in Nat /\ y \in Nat /\ a = (x + y) + r
    BY <1>1, <1>2, <2>1
  <2>3. k * q + z = x + (y + r)
    OBVIOUS
  <2> HIDE DEF x, y, k, z
  <2> QED
    BY <1>1, <2>2, <2>3
<1> HIDE DEF k, z
<1>6. (k * q + z) \div k = q
  BY <1>2, <1>3, <1>4, DivUnique
<1>7. a \div k = q
  BY <1>5, <1>6
<1> QED
  BY <1>7 DEF k, q, p

LEMMA ShiftValue ==
  ASSUME NEW w \in Wide, NEW p \in Nat, p < 90
  PROVE  /\ ShiftRight(w, p) \in Wide
         /\ Value(ShiftRight(w, p)) = Value(w) \div Bit[p]
<1> DEFINE n == p \div 10  r == p % 10
<1>1. n \in 0..8 /\ r \in Nat /\ p = 10 * n + r
  OBVIOUS
<1>2. ShiftRight(w, p) = Over(Skip(w, n), Bit[r])
  BY DEF ShiftRight
<1> HIDE DEF n, r
<1> DEFINE A == Bit[10 * n]  B == Bit[r]  s == Skip(w, n)
<1>3. A \in Nat /\ A >= 1 /\ B \in Nat /\ B >= 1 /\ Bit[p] = A * B
  <2>1. 10 * n \in Nat
    BY <1>1
  <2> QED
    BY <1>1, <2>1, BitPositive, BitSum
<1>4. s \in Wide /\ Value(s) = Value(w) \div A
  BY <1>1, SkipValue
<1>5. Value(w) \in Nat
  BY WideDigits
<1> HIDE DEF A, B, s
<1>6. Over(s, B) \in Wide /\ Value(Over(s, B)) = Value(s) \div B
  BY <1>3, <1>4, OverValue
<1>7. (Value(w) \div A) \div B = Value(w) \div (A * B)
  BY <1>3, <1>5, DivDiv
<1> QED
  BY <1>2, <1>3, <1>4, <1>6, <1>7 DEF s, B

LEMMA BelowValue ==
  ASSUME NEW w \in Wide, NEW u \in Wide, Below(w, u)
  PROVE  Value(w) < Value(u)
<1>1. PICK i \in 1..8 : w[i] < u[i] /\ \A j \in (i + 1)..8 : w[j] = u[j]
  BY DEF Below, Limbs
<1>2. PICK t : TailsOf(t, w)
  BY TailsExist
<1>3. PICK s : TailsOf(s, u)
  BY TailsExist
<1>4. \A j \in 1..9 : t[j] \in Nat /\ s[j] \in Nat
  BY <1>2, <1>3 DEF TailsOf
<1> DEFINE S == {j \in 1..9 : j > i => t[j] = s[j]}
<1>5. 9 \in S
  BY <1>2, <1>3 DEF TailsOf
<1>6. ASSUME NEW j \in 1..8, j + 1 \in S PROVE j \in S
  <2>1. SUFFICES ASSUME j > i PROVE t[j] = s[j]
    OBVIOUS
  <2>2. t[j + 1] = s[j + 1]
    BY <1>6, <2>1
  <2>3. w[j] = u[j]
    BY <1>1, <2>1
  <2>4. t[j] = w[j] + 1024 * t[j + 1] /\ s[j] = u[j] + 1024 * s[j + 1]
    BY <1>2, <1>3 DEF TailsOf
  <2> QED
    BY <2>2, <2>3, <2>4
<1>7. t[i + 1] = s[i + 1]
  <2>1. Descends(S)
    BY <1>5, <1>6 DEF Descends
  <2> HIDE DEF S
  <2>2. i + 1 \in S
    BY <2>1, DigitsDown
  <2> QED
    BY <2>2 DEF S
<1>8. t[i] + 1 <= s[i]
  <2>1. t[i] = w[i] + 1024 * t[i + 1] /\ s[i] = u[i] + 1024 * s[i + 1]
    BY <1>2, <1>3 DEF TailsOf
  <2>2. w[i] \in Nat /\ u[i] \in Nat /\ t[i + 1] \in Nat
    BY <1>4, WideDigits
  <2> QED
    BY <1>1, <1>7, <2>1, <2>2
<1> DEFINE n == i - 1
           B == Bit[10 * n]
<1>9. n \in Nat /\ n <= 8 /\ n + 1 = i /\ 10 * n \in Nat
  OBVIOUS
<1> HIDE DEF n
<1>10. B \in Nat
  BY <1>9, BitPositive
<1>11. \E low \in Nat : low < B /\ Value(w) = low + B * t[i]
  BY <1>2, <1>9, Split
<1>12. \E low \in Nat : low < B /\ Value(u) = low + B * s[i]
  BY <1>3, <1>9, Split
<1> HIDE DEF B
<1>13. PICK x \in Nat : x < B /\ Value(w) = x + B * t[i]
  BY <1>11
<1>14. PICK y \in Nat : y < B /\ Value(u) = y + B * s[i]
  BY <1>12
<1> DEFINE ti == t[i]  si == s[i]
<1>15. /\ ti \in Nat /\ si \in Nat /\ ti + 1 <= si
       /\ Value(w) = x + B * ti /\ Value(u) = y + B * si
  BY <1>4, <1>8, <1>13, <1>14
<1> HIDE DEF ti, si
<1>16. B * (ti + 1) <= B * si
  BY <1>10, <1>15, MulMono
<1> DEFINE bt == B * ti  bs == B * si
<1>17. /\ bt \in Nat /\ bs \in Nat /\ bt + B <= bs
       /\ Value(w) = x + bt /\ Value(u) = y + bs
  BY <1>10, <1>15, <1>16
<1> HIDE DEF bt, bs
<1> QED
  BY <1>10, <1>13, <1>14, <1>17

(* Two wide numbers that are not the same differ in a highest digit.       *)
LEMMA Trichotomy ==
  ASSUME NEW w \in Wide, NEW u \in Wide
  PROVE  w = u \/ Below(w, u) \/ Below(u, w)
<1> SUFFICES ASSUME ~Below(w, u), ~Below(u, w) PROVE w = u
  OBVIOUS
<1> DEFINE S == {i \in 1..9 : \A j \in i..8 : w[j] = u[j]}
<1>1. 9 \in S
  OBVIOUS
<1>2. ASSUME NEW i \in 1..8, i + 1 \in S PROVE i \in S
  <2>1. \A j \in (i + 1)..8 : w[j] = u[j]
    BY <1>2
  <2>2. ~(w[i] < u[i]) /\ ~(u[i] < w[i])
    BY <2>1 DEF Below, Limbs
  <2>3. w[i] \in Nat /\ u[i] \in Nat
    BY WideDigits
  <2>4. w[i] = u[i]
    BY <2>2, <2>3
  <2>5. ASSUME NEW j \in i..8 PROVE w[j] = u[j]
    <3>1. CASE j = i
      BY <2>4, <3>1
    <3>2. CASE j # i
      BY <2>1, <3>2
    <3> QED
      BY <3>1, <3>2
  <2> QED
    BY <2>5
<1>3. 1 \in S
  <2>1. Descends(S)
    BY <1>1, <1>2 DEF Descends
  <2> HIDE DEF S
  <2> QED
    BY <2>1, DigitsDown
<1>4. \A j \in 1..8 : w[j] = u[j]
  BY <1>3
<1> DEFINE D == 0..1023
<1>5. w \in [1..8 -> D] /\ u \in [1..8 -> D]
  BY WideSet
<1> HIDE DEF D
<1> QED
  BY <1>4, <1>5

LEMMA AtMostValue ==
  ASSUME NEW w \in Wide, NEW u \in Wide
  PROVE  AtMost(w, u) <=> Value(w) <= Value(u)
<1>1. Value(w) \in Nat /\ Value(u) \in Nat
  BY WideDigits
<1>2. AtMost(w, u) <=> (w = u \/ Below(w, u))
  BY DEF AtMost
<1>3. CASE w = u
  BY <1>1, <1>2, <1>3
<1>4. CASE Below(w, u)
  BY <1>1, <1>2, <1>4, BelowValue
<1>5. CASE w # u /\ ~Below(w, u)
  <2>1. Below(u, w)
    BY <1>5, Trichotomy
  <2>2. Value(u) < Value(w)
    BY <2>1, BelowValue
  <2> QED
    BY <1>1, <1>2, <1>5, <2>2
<1> QED
  BY <1>3, <1>4, <1>5

LEMMA TailStep ==
  ASSUME NEW w, NEW t, TailsOf(t, w), NEW i \in 1..8
  PROVE  t[i] = w[i] + 1024 * t[i + 1]
BY DEF TailsOf

(* A tail of zero digits.                                                  *)
ZeroFrom(w, i) == \A j \in i..8 : w[j] = 0

LEMMA ZeroTail ==
  ASSUME NEW w \in Wide, NEW t, TailsOf(t, w), NEW i \in 1..9, ZeroFrom(w, i)
  PROVE  t[i] = 0
<1> DEFINE S == {j \in 1..9 : j >= i => t[j] = 0}
<1>1. 9 \in S
  BY DEF TailsOf
<1>2. ASSUME NEW j \in 1..8, j + 1 \in S PROVE j \in S
  <2>1. SUFFICES ASSUME j >= i PROVE t[j] = 0
    OBVIOUS
  <2>2. t[j + 1] = 0 /\ w[j] = 0
    BY <1>2, <2>1 DEF ZeroFrom
  <2>3. t[j] = w[j] + 1024 * t[j + 1]
    BY TailStep
  <2> QED
    BY <2>2, <2>3
<1>3. Descends(S)
  BY <1>1, <1>2 DEF Descends
<1> HIDE DEF S
<1>4. i \in S
  BY <1>3, DigitsDown
<1> QED
  BY <1>4 DEF S

LEMMA BitThirty ==
  /\ Bit[10] = 1024 /\ Bit[20] = 1024 * 1024 /\ Bit[30] = 1024 * (1024 * 1024)
<1>1. /\ 10 + 10 = 20 /\ 20 + 10 = 30 /\ 10 \in Nat /\ 20 \in Nat
  OBVIOUS
<1>2. Bit[10 + 10] = 1024 * Bit[10] /\ Bit[20 + 10] = 1024 * Bit[20]
  BY <1>1, BitTen
<1> QED
  BY <1>1, <1>2, BitTen

LEMMA ToNatValue ==
  ASSUME NEW w \in Wide, Value(w) < Bit[30]
  PROVE  ToNat(w) = Value(w)
<1>1. PICK t : TailsOf(t, w)
  BY TailsExist
<1>2. \A i \in 1..9 : t[i] \in Nat
  BY <1>1 DEF TailsOf
<1>3. PICK low \in Nat : /\ low < Bit[10 * 3]
                         /\ Value(w) = low + Bit[10 * 3] * t[3 + 1]
  BY <1>1, Split
<1> DEFINE B == Bit[30]  q == t[4]
<1>4. B \in Nat /\ q \in Nat /\ Value(w) = low + B * q /\ Value(w) < B
  <2>1. 10 * 3 = 30 /\ 3 + 1 = 4
    OBVIOUS
  <2> QED
    BY <1>2, <1>3, <2>1, BitPositive
<1> HIDE DEF B, q
<1>5. q = 0
  <2>1. SUFFICES ASSUME 1 <= q PROVE FALSE
    BY <1>4
  <2>2. B * 1 <= B * q
    BY <1>4, <2>1, MulMono
  <2> DEFINE x == B * q
  <2>3. x \in Nat /\ B <= x /\ Value(w) = low + x /\ Value(w) < B
    BY <1>4, <2>2
  <2> HIDE DEF x
  <2> QED
    BY <1>4, <2>3
<1>6. /\ 1 \in 1..8 /\ 2 \in 1..8 /\ 3 \in 1..8
      /\ 1 + 1 = 2 /\ 2 + 1 = 3 /\ 3 + 1 = 4
  OBVIOUS
<1>7. /\ t[1] = w[1] + 1024 * t[2] /\ t[2] = w[2] + 1024 * t[3]
      /\ t[3] = w[3] + 1024 * t[4] /\ t[1] = Value(w)
  <2>1. t[1] = Value(w)
    BY <1>1 DEF TailsOf
  <2> QED
    BY <1>1, <1>6, <2>1, TailStep
<1>8. /\ w[1] \in Nat /\ w[2] \in Nat /\ w[3] \in Nat
      /\ t[1] \in Nat /\ t[2] \in Nat /\ t[3] \in Nat /\ t[4] = 0
  BY <1>2, <1>5, <1>6, WideDigits DEF q
<1>9. ToNat(w) = w[1] + 1024 * w[2] + 1024 * 1024 * w[3]
  BY DEF ToNat, Radix
<1> QED
  BY <1>7, <1>8, <1>9

LEMMA ToWideValue ==
  ASSUME NEW n \in Nat, n < Bit[30]
  PROVE  ToWide(n) \in Wide /\ Value(ToWide(n)) = n
<1> DEFINE w == ToWide(n)
           a == n \div 1024
           b == a \div 1024
<1>1. a \in Nat /\ n % 1024 \in 0..1023 /\ n = (n % 1024) + 1024 * a
  BY DigitAndCarry
<1>2. b \in Nat /\ a % 1024 \in 0..1023 /\ a = (a % 1024) + 1024 * b
  BY <1>1, DigitAndCarry
<1>3. b = n \div (1024 * 1024)
  BY DivDiv
<1>4. b < 1024
  BY <1>1, <1>2, BitThirty
<1>5. n \div 1 = n
  OBVIOUS
<1>6. w = [i \in 1..8 |-> IF i > 3 THEN 0
                          ELSE (n \div Bit[10 * (i - 1)]) % 1024]
  BY DEF ToWide, Limbs, Radix
<1> HIDE DEF w
<1>7. /\ w[1] = n % 1024 /\ w[2] = a % 1024 /\ w[3] = b
      /\ \A i \in 4..8 : w[i] = 0
  <2>1. /\ 10 * (1 - 1) = 0 /\ 10 * (2 - 1) = 10 /\ 10 * (3 - 1) = 20
    OBVIOUS
  <2>2. Bit[0] = 1 /\ Bit[10] = 1024 /\ Bit[20] = 1024 * 1024
    BY BitThirty, BitValues
  <2>3. b % 1024 = b
    BY <1>2, <1>4
  <2>4. w[1] = (n \div Bit[0]) % 1024
    BY <1>6, <2>1
  <2>5. w[2] = (n \div Bit[10]) % 1024
    BY <1>6, <2>1
  <2>6. w[3] = (n \div Bit[20]) % 1024
    BY <1>6, <2>1
  <2>7. \A i \in 4..8 : w[i] = 0
    BY <1>6
  <2> HIDE DEF a
  <2>8. w[3] = b % 1024
    BY <1>3, <2>2, <2>6
  <2> HIDE DEF b
  <2> QED
    BY <1>5, <2>2, <2>3, <2>4, <2>5, <2>7, <2>8 DEF a
<1> HIDE DEF a, b
<1>8. w \in Wide
  <2>1. ASSUME NEW i \in 1..8 PROVE w[i] \in 0..1023
    <3>1. i = 1 \/ i = 2 \/ i = 3 \/ i \in 4..8
      OBVIOUS
    <3>2. b \in 0..1023
      BY <1>2, <1>4
    <3>3. /\ w[1] \in 0..1023 /\ w[2] \in 0..1023 /\ w[3] \in 0..1023
          /\ \A j \in 4..8 : w[j] \in 0..1023
      BY <1>1, <1>2, <1>7, <3>2
    <3> QED
      BY <3>1, <3>3
  <2> DEFINE D == 0..1023
             digit(i) == IF i > 3 THEN 0 ELSE (n \div Bit[10 * (i - 1)]) % 1024
  <2>2. w = [i \in 1..8 |-> digit(i)] /\ \A i \in 1..8 : w[i] \in D
    BY <1>6, <2>1
  <2> HIDE DEF D, digit
  <2>3. w \in [1..8 -> D]
    BY <2>2, Zenon
  <2> QED
    BY <2>3, WideSet DEF D
<1>9. PICK t : TailsOf(t, w)
  BY <1>8, TailsExist
<1>10. t[4] = 0
  <2>1. ZeroFrom(w, 4)
    BY <1>7 DEF ZeroFrom
  <2>2. 4 \in 1..9
    OBVIOUS
  <2> QED
    BY <1>8, <1>9, <2>1, <2>2, ZeroTail
<1>11. /\ 1 \in 1..8 /\ 2 \in 1..8 /\ 3 \in 1..8
       /\ 1 + 1 = 2 /\ 2 + 1 = 3 /\ 3 + 1 = 4
  OBVIOUS
<1>12. /\ t[1] = w[1] + 1024 * t[2] /\ t[2] = w[2] + 1024 * t[3]
       /\ t[3] = w[3] + 1024 * t[4] /\ t[1] = Value(w)
  <2>1. t[1] = Value(w)
    BY <1>9 DEF TailsOf
  <2> QED
    BY <1>9, <1>11, <2>1, TailStep
<1>13. Value(w) = n
  <2>1. t[3] = b
    BY <1>2, <1>7, <1>10, <1>12
  <2>2. t[2] = a
    BY <1>2, <1>7, <1>12, <2>1
  <2>3. t[1] = n
    BY <1>1, <1>7, <1>12, <2>2
  <2> QED
    BY <1>12, <2>3
<1> QED
  BY <1>8, <1>13 DEF w

LEMMA PowerValue ==
  ASSUME NEW p \in Nat, p < 80
  PROVE  PowerOfTwo(p) \in Wide /\ Value(PowerOfTwo(p)) = Bit[p]
<1> DEFINE w == PowerOfTwo(p)
           n == p \div 10 + 1
           r == p % 10
           digit(i) == IF i = n THEN Bit[r] ELSE 0
<1>1. n \in 1..8 /\ r \in 0..9 /\ p = 10 * (n - 1) + r
  OBVIOUS
<1>2. w = [i \in 1..8 |-> digit(i)]
  BY DEF PowerOfTwo, Limbs
<1> HIDE DEF w, n, r
<1>3. Bit[r] \in 0..1023
  <2>1. Bit[r] <= Bit[9] /\ Bit[r] \in Nat
    BY <1>1, BitMonotone, BitPositive
  <2>2. Bit[4 + 5] = 512
    <3>1. Bit[4 + 5] = Bit[4] * Bit[5]
      BY BitSum
    <3> QED
      BY <3>1, BitValues
  <2>3. 4 + 5 = 9
    OBVIOUS
  <2> QED
    BY <2>1, <2>2, <2>3
<1>4. w \in Wide
  <2> DEFINE D == 0..1023
  <2>1. \A i \in 1..8 : digit(i) \in D
    BY <1>3
  <2> HIDE DEF digit, D
  <2>2. w \in [1..8 -> D]
    BY <1>2, <2>1, Zenon
  <2> QED
    BY <2>2, WideSet DEF D
<1>5. PICK t : TailsOf(t, w)
  BY <1>4, TailsExist
<1>6. t[n + 1] = 0
  <2>1. ZeroFrom(w, n + 1)
    BY <1>1, <1>2 DEF ZeroFrom
  <2>2. n + 1 \in 1..9
    BY <1>1
  <2> QED
    BY <1>4, <1>5, <2>1, <2>2, ZeroTail
<1>7. t[n] = Bit[r]
  <2>1. t[n] = w[n] + 1024 * t[n + 1]
    BY <1>1, <1>5, TailStep
  <2>2. w[n] = Bit[r]
    BY <1>1, <1>2
  <2> QED
    BY <1>3, <1>6, <2>1, <2>2
<1> DEFINE S == {i \in 1..9 : i <= n => t[i] = Bit[10 * (n - i) + r]}
<1>8. 9 \in S
  BY <1>1
<1>9. ASSUME NEW i \in 1..8, i + 1 \in S PROVE i \in S
  <2>1. CASE i > n
    BY <1>1, <2>1
  <2>2. CASE i = n
    <3>1. 10 * (n - n) + r = r
      BY <1>1
    <3> QED
      BY <1>7, <2>2, <3>1
  <2>3. CASE i < n
    <3> DEFINE e == 10 * (n - (i + 1)) + r
    <3>1. e \in Nat /\ 10 * (n - i) + r = e + 10
      BY <1>1, <2>3
    <3>2. t[i + 1] = Bit[e]
      BY <1>1, <1>9, <2>3
    <3> HIDE DEF e, S
    <3>3. t[i] = w[i] + 1024 * t[i + 1]
      BY <1>5, TailStep
    <3>4. w[i] = 0
      BY <1>2, <2>3, <1>1
    <3>5. Bit[e + 10] = 1024 * Bit[e] /\ Bit[e] \in Nat
      BY <3>1, BitTen, BitPositive
    <3>6. t[i] = Bit[e + 10]
      BY <3>2, <3>3, <3>4, <3>5
    <3> QED
      BY <3>1, <3>6 DEF S
  <2> QED
    BY <1>1, <2>1, <2>2, <2>3
<1>10. 1 \in S
  <2>1. Descends(S)
    BY <1>8, <1>9 DEF Descends
  <2> HIDE DEF S
  <2> QED
    BY <2>1, DigitsDown
<1>11. t[1] = Bit[10 * (n - 1) + r]
  BY <1>1, <1>10
<1>12. Value(w) = Bit[p]
  BY <1>1, <1>5, <1>11 DEF TailsOf
<1> QED
  BY <1>4, <1>12 DEF w

LEMMA DigitBits ==
  ASSUME NEW x \in Nat, 1 <= x, x < 1024
  PROVE  \E b \in 1..10 : x < Bit[b] /\ Bit[b - 1] <= x
<1> DEFINE T == {n \in Nat : x < Bit[n]}
<1>1. 10 \in T
  BY BitTen
<1>2. PICK m \in T : \A n \in T : m <= n
  BY <1>1, LeastNumber
<1>3. m \in Nat /\ m <= 10 /\ x < Bit[m]
  BY <1>1, <1>2
<1>4. m # 0
  BY <1>3, BitValues
<1>5. m - 1 \in Nat /\ Bit[m - 1] \in Nat
  BY <1>3, <1>4, BitPositive
<1>6. ~(x < Bit[m - 1])
  <2>1. SUFFICES ASSUME m - 1 \in T PROVE FALSE
    BY <1>5
  <2> HIDE DEF T
  <2>2. m <= m - 1
    BY <1>2, <2>1
  <2> QED
    BY <1>3, <2>2
<1> QED
  BY <1>3, <1>4, <1>5, <1>6

(* The highest digit of a number that is not 0.                            *)
Topmost(w, i) == w[i] # 0 /\ \A j \in (i + 1)..8 : w[j] = 0

LEMMA TopDigit ==
  ASSUME NEW w \in Wide, Value(w) # 0
  PROVE  \E i \in 1..8 : Topmost(w, i)
<1> SUFFICES ASSUME \A i \in 1..8 : ~Topmost(w, i) PROVE FALSE
  OBVIOUS
<1> DEFINE S == {i \in 1..9 : ZeroFrom(w, i)}
<1>1. 9 \in S
  BY DEF ZeroFrom
<1>2. ASSUME NEW i \in 1..8, i + 1 \in S PROVE i \in S
  <2>1. \A j \in (i + 1)..8 : w[j] = 0
    BY <1>2 DEF ZeroFrom
  <2>2. w[i] = 0
    BY <2>1 DEF Topmost
  <2>3. ASSUME NEW j \in i..8 PROVE w[j] = 0
    <3>1. j = i \/ j \in (i + 1)..8
      OBVIOUS
    <3> QED
      BY <2>1, <2>2, <3>1
  <2> QED
    BY <2>3 DEF ZeroFrom
<1>3. Descends(S)
  BY <1>1, <1>2, Zenon DEF Descends
<1>4. 1 \in 1..9
  OBVIOUS
<1>5. ZeroFrom(w, 1)
  <2> HIDE DEF S
  <2>1. 1 \in S
    BY <1>3, <1>4, DigitsDown
  <2> QED
    BY <2>1 DEF S
<1>6. PICK t : TailsOf(t, w)
  BY TailsExist
<1>7. t[1] = 0
  BY <1>4, <1>5, <1>6, ZeroTail
<1> QED
  BY <1>6, <1>7 DEF TailsOf

LEMMA BitLengthFacts ==
  ASSUME NEW w \in Wide, Value(w) # 0
  PROVE  LET n == BitLength(w)
         IN  n \in 1..80 /\ Bit[n - 1] <= Value(w) /\ Value(w) < Bit[n]
<1> DEFINE top == CHOOSE i \in 1..8 : Topmost(w, i)
           d == w[top]
           b == CHOOSE c \in 1..10 : d < Bit[c] /\ Bit[c - 1] <= d
<1>1. top \in 1..8 /\ Topmost(w, top)
  BY TopDigit
<1>2. BitLength(w) = 10 * (top - 1) + b
  <2>1. ~(\A i \in 1..8 : w[i] = 0)
    BY <1>1 DEF Topmost
  <2> QED
    BY <2>1 DEF BitLength, Limbs, Topmost
<1> HIDE DEF top
<1>3. d \in Nat /\ 1 <= d /\ d < 1024
  BY <1>1, WideDigits DEF Topmost
<1> HIDE DEF d
<1>4. b \in 1..10 /\ d < Bit[b] /\ Bit[b - 1] <= d
  BY <1>3, DigitBits
<1> HIDE DEF b
<1>5. PICK t : TailsOf(t, w)
  BY TailsExist
<1>6. t[top] = d
  <2>1. t[top] = w[top] + 1024 * t[top + 1]
    BY <1>1, <1>5, TailStep
  <2>2. t[top + 1] = 0
    <3>1. ZeroFrom(w, top + 1) /\ top + 1 \in 1..9
      BY <1>1 DEF Topmost, ZeroFrom
    <3> QED
      BY <1>5, <3>1, ZeroTail
  <2> QED
    BY <1>3, <2>1, <2>2 DEF d
<1> DEFINE n == top - 1
           B == Bit[10 * n]
           lo == Bit[b - 1]
           hi == Bit[b]
<1>7. n \in Nat /\ n <= 8 /\ n + 1 = top /\ 10 * n \in Nat /\ b - 1 \in Nat /\ b \in Nat
  BY <1>1, <1>4
<1>8. \E low \in Nat : low < B /\ Value(w) = low + B * t[n + 1]
  BY <1>5, <1>7, Split
<1>9. PICK low \in Nat : low < B /\ Value(w) = low + B * d
  BY <1>6, <1>7, <1>8
<1>10. /\ Bit[10 * n + (b - 1)] = B * lo /\ Bit[10 * n + b] = B * hi
  BY <1>7, BitSum
<1>11. B \in Nat /\ lo \in Nat /\ hi \in Nat /\ lo <= d /\ d + 1 <= hi
  BY <1>3, <1>4, <1>7, BitPositive
<1>12. /\ BitLength(w) = 10 * n + b
       /\ BitLength(w) - 1 = 10 * n + (b - 1) /\ BitLength(w) \in 1..80
  BY <1>1, <1>2, <1>4, <1>7
<1> HIDE DEF n, B, lo, hi
<1>13. B * lo <= B * d /\ B * (d + 1) <= B * hi
  BY <1>3, <1>11, MulMono
<1> DEFINE bd == B * d  bl == B * lo  bh == B * hi
<1>14. /\ bd \in Nat /\ bl \in Nat /\ bh \in Nat /\ bl <= bd /\ bd + B <= bh
       /\ Value(w) = low + bd
  BY <1>3, <1>9, <1>11, <1>13
<1>15. Bit[BitLength(w) - 1] = bl /\ Bit[BitLength(w)] = bh
  BY <1>10, <1>12
<1> HIDE DEF bd, bl, bh
<1>16. bl <= Value(w) /\ Value(w) < bh
  BY <1>9, <1>11, <1>14
<1> QED
  BY <1>12, <1>15, <1>16

(* The two fls64 agree.                                                    *)
LEMMA HighestPair ==
  ASSUME NEW a \in Nat, NEW k \in 1..32, a < Bit[2 * k], Bit[2 * k - 2] <= a
  PROVE  fls64(a) = 2 * k
<1> DEFINE In(c) == a < Bit[2 * c] /\ Bit[2 * c - 2] <= a
           m == CHOOSE c \in 1..32 : In(c)
<1>1. m \in 1..32 /\ In(m)
  OBVIOUS
<1>2. a # 0
  <2>1. 2 * k - 2 \in Nat
    OBVIOUS
  <2> QED
    BY <2>1, BitPositive
<1>3. fls64(a) = 2 * m
  BY <1>2 DEF fls64
<1> HIDE DEF m
<1>4. ~(m < k)
  <2>1. SUFFICES ASSUME m < k PROVE FALSE
    OBVIOUS
  <2>2. 2 * m \in Nat /\ 2 * k - 2 \in Nat /\ 2 * m <= 2 * k - 2
    BY <1>1, <2>1
  <2>3. /\ Bit[2 * m] <= Bit[2 * k - 2]
        /\ Bit[2 * m] \in Nat /\ Bit[2 * k - 2] \in Nat
    BY <2>2, BitMonotone, BitPositive
  <2> QED
    BY <1>1, <2>3
<1>5. ~(k < m)
  <2>1. SUFFICES ASSUME k < m PROVE FALSE
    OBVIOUS
  <2>2. 2 * k \in Nat /\ 2 * m - 2 \in Nat /\ 2 * k <= 2 * m - 2
    BY <1>1, <2>1
  <2>3. /\ Bit[2 * k] <= Bit[2 * m - 2]
        /\ Bit[2 * k] \in Nat /\ Bit[2 * m - 2] \in Nat
    BY <2>2, BitMonotone, BitPositive
  <2> QED
    BY <1>1, <2>3
<1> QED
  BY <1>1, <1>3, <1>4, <1>5
=============================================================================
