----------------------------- MODULE CubicExact ----------------------------
(***************************************************************************)
(* The numbers of bpf_cubic/bpfcubic.bpf.c at full size: cubic_root on     *)
(* 64-bit arguments and the first point of the cubic curve of an epoch,    *)
(* with the constants of the file (module Cubic scales them down).         *)
(*                                                                         *)
(* A state is the moment an epoch starts: the window the last reduction    *)
(* started from and the present one.  Between hystart_low_window and       *)
(* last_max_cwnd every window is possible: after a loss in slow start and  *)
(* an idle restart, HyStart ends slow start anywhere from 16 packets up.   *)
(***************************************************************************)
EXTENDS Wide, CubicRoot

CONSTANTS Windows,   \* the last_max_cwnd to look at
          FirstT     \* t at the first update, in 1/1024 seconds

(* cubic_root is called for a maximum above the present window; "a million *)
(* packets" is what bpfcubic.bpf.c:332 calls the largest one.              *)
ASSUME CubicExactAssumption ==
  /\ Windows \subseteq 17..Bit[20]
  /\ FirstT \in Nat

VARIABLES last_max_cwnd, cwnd

exactVars == <<last_max_cwnd, cwnd>>

hystart_low_window == 16
cube_rtt_scale == 410
cube_factor == Over(PowerOfTwo(40), cube_rtt_scale)

(* fls64 on 64 bits: an odd bit length is rounded up to even.              *)
fls64_wide(a) == BitLength(a) + (BitLength(a) % 2)

NewtonStep(a, x) ==
  LET x2 == 2 * x + ToNat(Over(Over(a, x), x - 1))
  IN  (x2 * 341) \div 1024

(* Slips: the table lookup alone, and a shift by nine for the one by ten.  *)
NoNewtonStep(a, x) == x

NewtonWrongShift(a, x) ==
  LET x2 == 2 * x + ToNat(Over(Over(a, x), x - 1))
  IN  (x2 * 341) \div 512

Newton(a, x) == NewtonStep(a, x)

cubic_root_wide(a) ==
  IF AtMost(a, ToWide(63)) THEN (v[ToNat(a) + 1] + 35) \div 64
  ELSE LET b     == (fls64_wide(a) * 84) \div 256 - 1
           shift == ToNat(ShiftRight(a, 3 * b))
       IN  IF shift >= 64 THEN 0
           ELSE Newton(a, ((v[shift + 1] + 10) * Bit[b]) \div 64)

Distance == last_max_cwnd - cwnd

bic_K == cubic_root_wide(Times(cube_factor, Distance))

(* How far below the origin the curve starts.                              *)
Depth ==
  LET offs == IF FirstT < bic_K THEN bic_K - FirstT ELSE 0
  IN  ToNat(ShiftRight(Times(Times(Times(ToWide(cube_rtt_scale), offs), offs),
                             offs), 40))

ExactInit ==
  /\ last_max_cwnd \in Windows
  /\ cwnd = hystart_low_window

NextWindow ==
  /\ cwnd + 1 < last_max_cwnd
  /\ cwnd' = cwnd + 1
  /\ UNCHANGED last_max_cwnd

ExactSpec == ExactInit /\ [][NextWindow]_exactVars

----------------------------------------------------------------------------
(* K is within 5% of the true cubic root, (20 K / 21)^3 <= a <=            *)
(* (20 K / 19)^3, over every octave and table entry these windows reach:   *)
(* the rounding of fls64 never reaches past the table, makes the result 0  *)
(* or divides by zero (bpfcubic.bpf.c:83-115, 249-277).                    *)
Cube(n) == Times(Times(ToWide(n), n), n)

RootIsClose ==
  LET a == Times(cube_factor, Distance)
  IN  /\ AtMost(Times(Cube(bic_K), 8000), Times(a, 9261))
      /\ AtMost(Times(a, 6859), Times(Cube(bic_K), 8000))

(* From a window that a reduction has just left (at least 70% of the last  *)
(* maximum) the curve starts above zero: origin - delta does not wrap.     *)
CurveFitsAfterReduction ==
  10 * cwnd >= 7 * last_max_cwnd => Depth <= last_max_cwnd

(* What bpfcubic.bpf.c:332 says: no overflow below a million packets.      *)
NoOverflowBelowAMillion == Depth <= last_max_cwnd
=============================================================================
