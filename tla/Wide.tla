-------------------------------- MODULE Wide --------------------------------
(***************************************************************************)
(* Unsigned numbers too large for TLC's 32-bit integers, as Limbs digits   *)
(* of ten bits, lowest first.  Multipliers and divisors are ordinary       *)
(* numbers, below 2^20 so that TLC can multiply a digit with them.         *)
(***************************************************************************)
EXTENDS Bits

Limbs == 8
Radix == 1024

Wide == [1..Limbs -> 0..(Radix - 1)]

(* A number below 2^30, and the value of a wide one below 2^30.            *)
ToWide(n) == [i \in 1..Limbs |-> IF i > 3 THEN 0
                                 ELSE (n \div Bit[10 * (i - 1)]) % Radix]

ToNat(w) == w[1] + Radix * w[2] + Radix * Radix * w[3]

PowerOfTwo(p) == [i \in 1..Limbs |-> IF i = p \div 10 + 1 THEN Bit[p % 10]
                                     ELSE 0]

(* What digit i leaves over for the next one when w is multiplied by k.    *)
Carries(w, k) ==
  LET carry[i \in 0..Limbs] ==
        IF i = 0 THEN 0 ELSE (w[i] * k + carry[i - 1]) \div Radix
  IN  carry

Times(w, k) ==
  LET carry == Carries(w, k)
  IN  [i \in 1..Limbs |-> (w[i] * k + carry[i - 1]) % Radix]

(* What is left of the digits from i up when they are divided by k.        *)
Remainders(w, k) ==
  LET rem[i \in 1..(Limbs + 1)] ==
        IF i > Limbs THEN 0 ELSE (rem[i + 1] * Radix + w[i]) % k
  IN  rem

Over(w, k) ==
  LET rem == Remainders(w, k)
  IN  [i \in 1..Limbs |-> (rem[i + 1] * Radix + w[i]) \div k]

(* w without its n lowest digits; w divided by 2^p.                        *)
Skip(w, n) == [i \in 1..Limbs |-> IF i + n > Limbs THEN 0 ELSE w[i + n]]

ShiftRight(w, p) == Over(Skip(w, p \div 10), Bit[p % 10])

(* The highest digit in which w and u differ decides.                      *)
Below(w, u) == \E i \in 1..Limbs : /\ w[i] < u[i]
                                  /\ \A j \in (i + 1)..Limbs : w[j] = u[j]

AtMost(w, u) == w = u \/ Below(w, u)

(* The number of bits of w.                                                *)
BitLength(w) ==
  IF \A i \in 1..Limbs : w[i] = 0 THEN 0
  ELSE LET top == CHOOSE i \in 1..Limbs :
                    w[i] # 0 /\ \A j \in (i + 1)..Limbs : w[j] = 0
       IN  10 * (top - 1) + (CHOOSE b \in 1..10 : w[top] < Bit[b]
                                                  /\ Bit[b - 1] <= w[top])
=============================================================================
