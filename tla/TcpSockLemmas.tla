--------------------------- MODULE TcpSockLemmas ----------------------------
(***************************************************************************)
(* What the helpers of TcpSock return, and that the kernel's steps keep    *)
(* the socket's type.                                                      *)
(***************************************************************************)
EXTENDS TcpSock, TLAPS

(* Division with a positive divisor leaves a remainder below it.           *)
LEMMA DivFacts ==
  ASSUME NEW a \in Nat, NEW w \in Nat, w >= 1
  PROVE  /\ a \div w \in Nat
         /\ (a \div w) * w \in Nat
         /\ a - (a \div w) * w \in 0..(w - 1)
<1>1. a \div w \in Int /\ a % w \in 0..(w - 1)
  OBVIOUS
<1>2. a = w * (a \div w) + (a % w)
  OBVIOUS
<1>3. a \div w >= 0
  <2>1. SUFFICES ASSUME a \div w <= -1 PROVE FALSE
    BY <1>1
  <2>2. w * (a \div w) <= -w
    BY <1>1, <2>1
  <2> QED
    BY <1>1, <1>2, <2>2
<1> QED
  BY <1>1, <1>2, <1>3

(* More divisor, no more quotient; and a product of naturals is one.       *)
LEMMA MulMono ==
  ASSUME NEW k \in Nat, NEW w \in Nat, NEW u \in Nat, u <= w
  PROVE  k * u <= k * w /\ k * u \in Nat /\ k * w \in Nat
OBVIOUS

(* Slow start spends packets up to the threshold and hands back the rest.  *)
LEMMA SlowStartFacts ==
  ASSUME SockTypeOK, tcp_in_slow_start, NEW acked \in Nat,
         NEW r, r = tcp_slow_start(acked)
  PROVE  /\ r.cwnd \in snd_cwnd..Clamp
         /\ r.left \in 0..acked
         /\ r.cwnd - snd_cwnd <= acked - r.left
         /\ r.cwnd <= snd_ssthresh
         /\ r.left > 0 => r.cwnd = snd_ssthresh \/ r.cwnd = Clamp
BY TcpSockAssumption DEF SockTypeOK, Ssthreshes, tcp_in_slow_start,
                         tcp_slow_start, MinOf

(* Congestion avoidance buys k segments at w each, leaves less than the    *)
(* price of one, and never pays with credit it does not have.              *)
AiPays(cwnd, cnt, w, acked, r) ==
  /\ r.cwnd \in cwnd..Clamp
  /\ r.cnt \in 0..(w - 1)
  /\ \E k \in Nat : /\ r.cwnd = MinOf(cwnd + k, Clamp)
                   /\ k * w + r.cnt <= cnt + acked

LEMMA AiFacts ==
  ASSUME NEW cwnd \in 1..Clamp, NEW cnt \in Nat, NEW w \in Nat, w >= 1,
         NEW acked \in Nat
  PROVE  AiPays(cwnd, cnt, w, acked, tcp_cong_avoid_ai(cwnd, cnt, w, acked))
<1> DEFINE r     == tcp_cong_avoid_ai(cwnd, cnt, w, acked)
           first == IF cnt >= w THEN 1 ELSE 0
           cnt1  == (IF cnt >= w THEN 0 ELSE cnt) + acked
           delta == cnt1 \div w
<1>1. cnt1 \in Nat /\ first \in {0, 1} /\ first * w + cnt1 <= cnt + acked
  OBVIOUS
<1>2. /\ delta \in Nat /\ delta * w \in Nat
      /\ cnt1 - delta * w \in 0..(w - 1)
  <2> HIDE DEF cnt1
  <2> QED
    BY <1>1, DivFacts
<1>3. r = [cwnd |-> MinOf(cwnd + (first + delta), Clamp),
           cnt |-> cnt1 - delta * w]
  BY <1>1, <1>2, TcpSockAssumption DEF tcp_cong_avoid_ai
<1> HIDE DEF first, cnt1, delta, r
<1>4. (first + delta) * w = first * w + delta * w
  BY <1>1, <1>2
<1>5. (first + delta) * w + r.cnt <= cnt + acked
  <2>1. first * w \in Nat
    BY <1>1
  <2> QED
    BY <1>1, <1>2, <1>3, <1>4, <2>1
<1>6. r.cwnd = MinOf(cwnd + (first + delta), Clamp) /\ first + delta \in Nat
  BY <1>1, <1>2, <1>3
<1>7. r.cwnd \in cwnd..Clamp
  BY <1>6, TcpSockAssumption DEF MinOf
<1>8. \E k \in Nat : /\ r.cwnd = MinOf(cwnd + k, Clamp)
                     /\ k * w + r.cnt <= cnt + acked
  <2>1. first + delta \in Nat
    BY <1>6
  <2> WITNESS first + delta \in Nat
  <2> QED
    BY <1>5, <1>6
<1>9. r.cnt \in 0..(w - 1)
  BY <1>2, <1>3
<1> QED
  BY <1>7, <1>8, <1>9 DEF AiPays, r

(* What an ACK of n packets may do to window and credit at a price of q    *)
(* packets per segment: s of them buy a segment each up to the threshold,  *)
(* and beyond it every one of k segments is paid for.                      *)
Earned(n, s, k, q, cwnd, cnt) ==
  /\ snd_cwnd + s <= Clamp /\ (s > 0 => snd_cwnd + s <= snd_ssthresh)
  /\ k > 0 => snd_cwnd + s >= snd_ssthresh \/ snd_cwnd + s = Clamp
  /\ k * q <= snd_cwnd_cnt + n - s
  /\ cwnd = IF snd_cwnd + s + k < Clamp THEN snd_cwnd + s + k ELSE Clamp
  /\ cnt \in 0..(snd_cwnd_cnt + n - s - k * q)

(* The window after slow start, and the packets it left over.              *)
SlowPart(n) ==
  IF tcp_in_slow_start THEN tcp_slow_start(n)
  ELSE [cwnd |-> snd_cwnd, left |-> n]

LEMMA SlowPartFacts ==
  ASSUME SockTypeOK, NEW n \in Nat, NEW ss, ss = SlowPart(n)
  PROVE  /\ ss.cwnd \in snd_cwnd..Clamp /\ ss.left \in 0..n
         /\ ss.cwnd - snd_cwnd <= n - ss.left
         /\ ss.cwnd > snd_cwnd => ss.cwnd <= snd_ssthresh
         /\ ss.left > 0 => ss.cwnd >= snd_ssthresh \/ ss.cwnd = Clamp
<1>1. CASE tcp_in_slow_start
  <2>1. /\ ss.cwnd \in snd_cwnd..Clamp /\ ss.left \in 0..n
        /\ ss.cwnd - snd_cwnd <= n - ss.left /\ ss.cwnd <= snd_ssthresh
        /\ ss.left > 0 => ss.cwnd = snd_ssthresh \/ ss.cwnd = Clamp
    BY <1>1, SlowStartFacts DEF SlowPart
  <2> QED
    BY <2>1, TcpSockAssumption DEF SockTypeOK, Ssthreshes
<1>2. CASE ~tcp_in_slow_start
  BY <1>2, TcpSockAssumption
  DEF SlowPart, tcp_in_slow_start, SockTypeOK, Ssthreshes
<1> QED
  BY <1>1, <1>2

(* Whatever price p of at least q the controller asks beyond the threshold,*)
(* and whatever credit it finds, the packets pay for the segments.         *)
LEMMA AckEarns ==
  ASSUME SockTypeOK, NEW n \in Nat, NEW ss, ss = SlowPart(n),
         NEW p \in Nat, p >= 1, NEW q \in Nat, 1 <= q, q <= p,
         NEW r, r = IF ss.left = 0
                    THEN [cwnd |-> ss.cwnd, cnt |-> snd_cwnd_cnt]
                    ELSE tcp_cong_avoid_ai(ss.cwnd, snd_cwnd_cnt, p, ss.left)
  PROVE  \E s \in 0..n, k \in 0..(snd_cwnd_cnt + n) :
           /\ snd_cwnd + s = ss.cwnd
           /\ Earned(n, s, k, q, r.cwnd, r.cnt)
<1> DEFINE s == ss.cwnd - snd_cwnd
           w == ss.cwnd
           l == ss.left
<1>1. /\ snd_cwnd \in 1..Clamp /\ snd_cwnd \in Nat /\ snd_cwnd_cnt \in Nat
      /\ Clamp \in Nat
  BY TcpSockAssumption DEF SockTypeOK
<1>2. /\ w \in snd_cwnd..Clamp /\ l \in 0..n
      /\ s <= n - l
      /\ w > snd_cwnd => w <= snd_ssthresh
      /\ l > 0 => w >= snd_ssthresh \/ w = Clamp
  BY SlowPartFacts
<1>3. PICK k \in Nat : /\ r.cwnd = MinOf(w + k, Clamp)
                       /\ r.cnt \in Nat
                       /\ k * p + r.cnt <= snd_cwnd_cnt + l
                       /\ k > 0 => l > 0
  <2>1. CASE l = 0
    <3>1. r.cwnd = w /\ r.cnt = snd_cwnd_cnt
      BY <2>1
    <3>2. r.cwnd = MinOf(w + 0, Clamp)
      BY <1>1, <1>2, <3>1 DEF MinOf
    <3>3. 0 * p + r.cnt <= snd_cwnd_cnt + l
      BY <1>1, <1>2, <2>1, <3>1
    <3> QED
      BY <1>1, <3>1, <3>2, <3>3
  <2>2. CASE l # 0
    <3>1. r = tcp_cong_avoid_ai(w, snd_cwnd_cnt, p, l)
      BY <2>2
    <3>2. w \in 1..Clamp /\ l \in Nat /\ l > 0
      BY <1>1, <1>2, <2>2
    <3> HIDE DEF w, l
    <3>3. AiPays(w, snd_cwnd_cnt, p, l, r)
      BY <1>1, <3>1, <3>2, AiFacts
    <3> QED
      BY <3>2, <3>3 DEF AiPays
  <2> QED
    BY <2>1, <2>2
<1> HIDE DEF s, w, l
<1>4. w = snd_cwnd + s /\ s \in 0..n
  BY <1>1, <1>2 DEF s, w
<1>5. /\ k * q \in Nat /\ k <= k * q
      /\ k * q + r.cnt <= snd_cwnd_cnt + l
  <2>1. k * q <= k * p /\ k * q \in Nat /\ k * p \in Nat
    BY MulMono
  <2>2. k * 1 <= k * q
    BY MulMono
  <2> QED
    BY <1>1, <1>2, <1>3, <2>1, <2>2
<1>6. /\ k \in 0..(snd_cwnd_cnt + n)
      /\ k * q <= snd_cwnd_cnt + n - s
      /\ r.cnt \in 0..(snd_cwnd_cnt + n - s - k * q)
  <2> DEFINE paid == k * q
  <2>1. /\ paid \in Nat /\ k <= paid
        /\ paid + r.cnt <= snd_cwnd_cnt + l
        /\ l \in Nat /\ l <= n - s /\ r.cnt \in Nat /\ s \in Nat
    BY <1>2, <1>3, <1>4, <1>5
  <2> HIDE DEF paid
  <2>2. /\ k \in 0..(snd_cwnd_cnt + n)
        /\ paid <= snd_cwnd_cnt + n - s
        /\ r.cnt \in 0..(snd_cwnd_cnt + n - s - paid)
    BY <1>1, <2>1
  <2> QED
    BY <2>2 DEF paid
<1>7. Earned(n, s, k, q, r.cwnd, r.cnt)
  BY <1>1, <1>2, <1>3, <1>4, <1>6 DEF Earned, MinOf
<1> QED
  BY <1>4, <1>6, <1>7 DEF w

(* Reno's ACK never lowers the window, keeps it below the clamp and leaves *)
(* a credit.                                                               *)
LEMMA RenoFacts ==
  ASSUME SockTypeOK, NEW acked \in Nat, NEW mpo, NEW lim,
         NEW r, r = tcp_reno_cong_avoid(mpo, lim, acked)
  PROVE  r.cwnd \in snd_cwnd..Clamp /\ r.cnt \in Nat
<1> DEFINE ss == SlowPart(acked)
<1>1. ss.cwnd \in snd_cwnd..Clamp /\ ss.left \in 0..acked
  BY SlowPartFacts
<1> HIDE DEF ss
<1>2. CASE ~tcp_is_cwnd_limited(mpo, lim)
  BY <1>2 DEF tcp_reno_cong_avoid, SockTypeOK
<1>3. CASE tcp_is_cwnd_limited(mpo, lim) /\ ss.left = 0
  BY <1>1, <1>3 DEF tcp_reno_cong_avoid, ss, SlowPart, SockTypeOK
<1>4. CASE tcp_is_cwnd_limited(mpo, lim) /\ ss.left # 0
  <2>1. r = tcp_cong_avoid_ai(ss.cwnd, snd_cwnd_cnt, ss.cwnd, ss.left)
    BY <1>4 DEF tcp_reno_cong_avoid, ss, SlowPart
  <2>2. /\ ss.cwnd \in 1..Clamp /\ ss.cwnd \in Nat /\ ss.cwnd >= 1
        /\ ss.left \in Nat /\ snd_cwnd_cnt \in Nat
    BY <1>1, TcpSockAssumption DEF SockTypeOK
  <2>3. r.cwnd \in ss.cwnd..Clamp /\ r.cnt \in 0..(ss.cwnd - 1)
    <3>1. AiPays(ss.cwnd, snd_cwnd_cnt, ss.cwnd, ss.left, r)
      BY <2>1, <2>2, AiFacts
    <3> QED
      BY <3>1 DEF AiPays
  <2> QED
    BY <2>2, <2>3, <1>1, TcpSockAssumption DEF SockTypeOK
<1> QED
  BY <1>2, <1>3, <1>4

(* The hooks Reno and Vegas share return values of the right type, and so  *)
(* does the threshold the kernel keeps.                                    *)
LEMMA HookFacts ==
  ASSUME SockTypeOK
  PROVE  /\ tcp_reno_ssthresh \in Ssthreshes
         /\ tcp_reno_undo_cwnd \in 1..Clamp
         /\ tcp_current_ssthresh(snd_cwnd, snd_ssthresh) \in Ssthreshes
BY TcpSockAssumption DEF SockTypeOK, Ssthreshes, tcp_reno_ssthresh, MaxOf,
   tcp_reno_undo_cwnd, tcp_current_ssthresh

(* Every step of the kernel that asks no hook keeps the socket's type.     *)
KernelAlone ==
  \/ KernelDisorder \/ KernelOrder \/ KernelCwrToRecovery \/ KernelReduce
  \/ KernelEndReduction \/ KernelExitLoss \/ KernelShrink

LEMMA KernelAloneType ==
  ASSUME SockTypeOK, KernelAlone
  PROVE  SockTypeOK'
<1>1. CASE KernelDisorder
  BY <1>1 DEF KernelDisorder, SockTypeOK, CaStates
<1>2. CASE KernelOrder
  BY <1>2 DEF KernelOrder, SockTypeOK, CaStates
<1>3. CASE KernelCwrToRecovery
  BY <1>3 DEF KernelCwrToRecovery, SockTypeOK, CaStates
<1>4. CASE KernelReduce
  BY <1>4 DEF KernelReduce, SockTypeOK
<1>5. CASE KernelEndReduction
  BY <1>5, TcpSockAssumption
  DEF KernelEndReduction, SockTypeOK, CaStates, Ssthreshes
<1>6. CASE KernelExitLoss
  BY <1>6 DEF KernelExitLoss, SockTypeOK, CaStates
<1>7. CASE KernelShrink
  <2>1. snd_cwnd' \in 1..Clamp
    BY <1>7, TcpSockAssumption DEF KernelShrink, SockTypeOK, MinOf
  <2> QED
    BY <1>7, <2>1, HookFacts DEF KernelShrink, SockTypeOK
<1> QED
  BY <1>1, <1>2, <1>3, <1>4, <1>5, <1>6, <1>7 DEF KernelAlone

(* So do the steps that ask for a threshold or an undo, if the answer has  *)
(* the right type.                                                         *)
LEMMA EnterReductionType ==
  ASSUME SockTypeOK, NEW st \in {"CWR", "Recovery"}, NEW thresh \in Ssthreshes,
         KernelEnterReduction(st, thresh)
  PROVE  SockTypeOK'
BY HookFacts DEF KernelEnterReduction, SockTypeOK, CaStates

LEMMA EnterLossType ==
  ASSUME SockTypeOK, NEW fresh \in BOOLEAN, NEW thresh \in Ssthreshes,
         KernelEnterLoss(fresh, thresh)
  PROVE  SockTypeOK'
<1>1. snd_cwnd' \in 1..Clamp
  BY TcpSockAssumption DEF KernelEnterLoss, SockTypeOK
<1>2. /\ prior_cwnd' \in 0..Clamp /\ snd_ssthresh' \in Ssthreshes
      /\ prior_ssthresh' \in Ssthreshes \cup {0}
  BY HookFacts DEF KernelEnterLoss, SockTypeOK
<1> QED
  BY <1>1, <1>2 DEF KernelEnterLoss, SockTypeOK, CaStates

LEMMA UndoType ==
  ASSUME SockTypeOK, NEW undo \in 1..Clamp, KernelUndo(undo)
  PROVE  SockTypeOK'
BY TcpSockAssumption DEF KernelUndo, SockTypeOK, CaStates, Ssthreshes, MaxOf
=============================================================================
