------------------------------ MODULE CubicRoot -----------------------------
(***************************************************************************)
(* cubic_root of bpf_cubic/bpfcubic.bpf.c: a table lookup on the leading   *)
(* bits of a, then one Newton-Raphson step.                                *)
(***************************************************************************)
EXTENDS Bits, Sequences

(* The table v[], entry i at position i + 1.                               *)
v == << 0,   54,  54,  54,  118, 118, 118, 118, 123, 129, 134, 138, 143,
        147, 151, 156, 157, 161, 164, 168, 170, 173, 176, 179, 181, 185,
        187, 190, 192, 194, 197, 199, 200, 202, 204, 206, 209, 211, 213,
        215, 217, 219, 221, 222, 224, 225, 227, 229, 231, 232, 234, 236,
        237, 239, 240, 242, 244, 245, 246, 248, 250, 251, 252, 254 >>

(* The position of the highest set bit.  The code has its last, one-bit    *)
(* step commented out, so an odd position comes out rounded up to even.    *)
fls64(x) == IF x = 0 THEN 0
            ELSE 2 * (CHOOSE k \in 1..32 : x < Bit[2 * k] /\ Bit[2 * k - 2] <= x)

(* The third of that position, b; the leading bits of a, shift; the entry  *)
(* the table has for them, and the first approximation it gives, x.        *)
Third(a) == (fls64(a) * 84) \div 256 - 1
Leading(a) == a \div Bit[3 * Third(a)]
Shifted(a) == (v[Leading(a) + 1] + 10) * Bit[Third(a)]
Guess(a) == Shifted(a) \div 64

(* Three times the next approximation.                                     *)
Refined(a) == 2 * Guess(a) + a \div (Guess(a) * (Guess(a) - 1))

cubic_root(a) ==
  IF a < 64 THEN (v[a + 1] + 35) \div 64
  ELSE IF Leading(a) >= 64 THEN 0 ELSE (Refined(a) * 341) \div 1024
=============================================================================
