----------------------------- MODULE RenoProofs -----------------------------
(***************************************************************************)
(* For every clamp, ACK size and initial credit: Reno keeps its types,     *)
(* spends its credit and implements the additive-increase contract.        *)
(***************************************************************************)
EXTENDS Reno, TcpSockLemmas

LEMMA InitType == Init => TypeOK
BY TcpSockAssumption DEF Init, SockInit, TypeOK, SockTypeOK

LEMMA AckType ==
  ASSUME TypeOK, Ack
  PROVE  TypeOK'
<1>1. PICK acked \in 1..MaxAcked, mpo \in 0..snd_cwnd, lim \in BOOLEAN :
        CongAvoid(acked, mpo, lim)
  BY DEF Ack
<1>2. acked \in Nat
  BY TcpSockAssumption
<1>3. snd_cwnd' \in snd_cwnd..Clamp /\ snd_cwnd_cnt' \in Nat
  BY <1>1, <1>2, RenoFacts DEF CongAvoid, TypeOK
<1>4. snd_cwnd' \in 1..Clamp
  BY <1>3, TcpSockAssumption DEF TypeOK, SockTypeOK
<1> QED
  BY <1>1, <1>3, <1>4 DEF CongAvoid, TypeOK, SockTypeOK

LEMMA KernelType ==
  ASSUME TypeOK, Kernel
  PROVE  TypeOK'
<1>1. CASE KernelAlone
  BY <1>1, KernelAloneType DEF TypeOK
<1>2. CASE EnterReduction
  BY <1>2, HookFacts, EnterReductionType DEF EnterReduction, TypeOK
<1>3. CASE EnterLoss
  BY <1>3, HookFacts, EnterLossType DEF EnterLoss, TypeOK
<1>4. CASE Undo
  BY <1>4, HookFacts, UndoType DEF Undo, TypeOK
<1> QED
  BY <1>1, <1>2, <1>3, <1>4 DEF Kernel, KernelAlone

(* Every reachable state is well typed: in particular the window is never  *)
(* 0, so the division by it in tcp_cong_avoid_ai is always defined.        *)
THEOREM TypeCorrect == Spec => []TypeOK
<1>1. Init => TypeOK
  BY InitType
<1>2. TypeOK /\ [Next]_vars => TypeOK'
  <2> SUFFICES ASSUME TypeOK, [Next]_vars PROVE TypeOK'
    OBVIOUS
  <2>1. CASE Ack
    BY <2>1, AckType
  <2>2. CASE Kernel
    BY <2>2, KernelType
  <2>3. CASE UNCHANGED vars
    BY <2>3 DEF vars, sockVars, TypeOK, SockTypeOK
  <2> QED
    BY <2>1, <2>2, <2>3 DEF Next
<1> QED
  BY <1>1, <1>2, PTL DEF Spec

----------------------------------------------------------------------------
LEMMA BusyAckSpends ==
  ASSUME TypeOK, BusyAck, ~tcp_in_slow_start
  PROVE  snd_cwnd_cnt' < snd_cwnd'
<1>1. PICK acked \in 1..MaxAcked : CongAvoid(acked, snd_cwnd, TRUE)
  BY DEF BusyAck
<1>2. /\ acked \in Nat /\ acked # 0
      /\ snd_cwnd \in 1..Clamp /\ snd_cwnd \in Nat /\ snd_cwnd >= 1
      /\ snd_cwnd_cnt \in Nat
  BY TcpSockAssumption DEF TypeOK, SockTypeOK
<1> DEFINE r == tcp_cong_avoid_ai(snd_cwnd, snd_cwnd_cnt, snd_cwnd, acked)
<1>3. snd_cwnd' = r.cwnd /\ snd_cwnd_cnt' = r.cnt
  BY <1>1, <1>2 DEF CongAvoid, tcp_reno_cong_avoid, tcp_is_cwnd_limited
<1>4. AiPays(snd_cwnd, snd_cwnd_cnt, snd_cwnd, acked, r)
  BY <1>2, AiFacts
<1> QED
  BY <1>2, <1>3, <1>4, TcpSockAssumption DEF AiPays

(* No acknowledged packet is kept from the window (CreditIsSpent).         *)
THEOREM CreditAlwaysSpent == Spec => CreditIsSpent
<1>1. TypeOK /\ [Next]_vars =>
        [BusyAck /\ ~tcp_in_slow_start => snd_cwnd_cnt' < snd_cwnd']_vars
  BY BusyAckSpends
<1> QED
  BY <1>1, TypeCorrect, PTL DEF Spec, CreditIsSpent

----------------------------------------------------------------------------
(* The packets an ACK turns into window pay for it: s of them one segment  *)
(* each up to the threshold, the others a full window per segment.         *)
LEMMA AckPays ==
  ASSUME TypeOK, NEW n \in 1..MaxAcked, NEW mpo, NEW lim,
         CongAvoid(n, mpo, lim), tcp_is_cwnd_limited(mpo, lim)
  PROVE  Contract!Ack(n)
<1> DEFINE ss == SlowPart(n)
           w  == ss.cwnd
           r  == IF ss.left = 0 THEN [cwnd |-> w, cnt |-> snd_cwnd_cnt]
                 ELSE tcp_cong_avoid_ai(w, snd_cwnd_cnt, w, ss.left)
<1>1. n \in Nat /\ SockTypeOK
  BY TcpSockAssumption DEF TypeOK
<1>2. w \in 1..Clamp /\ w \in Nat /\ w >= 1
  <2>1. w \in snd_cwnd..Clamp
    BY <1>1, SlowPartFacts
  <2> QED
    BY <1>1, <2>1, TcpSockAssumption DEF SockTypeOK
<1>3. snd_cwnd' = r.cwnd /\ snd_cwnd_cnt' = r.cnt
  BY DEF CongAvoid, tcp_reno_cong_avoid, SlowPart
<1>4. PICK s \in 0..n, k \in 0..(snd_cwnd_cnt + n) :
        /\ snd_cwnd + s = w
        /\ Earned(n, s, k, w, r.cwnd, r.cnt)
  <2>1. /\ ss = SlowPart(n)
        /\ r = IF ss.left = 0 THEN [cwnd |-> w, cnt |-> snd_cwnd_cnt]
               ELSE tcp_cong_avoid_ai(w, snd_cwnd_cnt, w, ss.left)
        /\ w = ss.cwnd
    OBVIOUS
  <2> HIDE DEF ss, w, r
  <2> QED
    BY <1>1, <1>2, <2>1, AckEarns
<1> HIDE DEF w, r
<1>5. [u \in 1..Clamp |-> u][snd_cwnd + s] = w
  BY <1>2, <1>4
<1>6. /\ ~tcp_in_cwnd_reduction
      /\ UNCHANGED <<snd_ssthresh, prior_cwnd, tcp_in_cwnd_reduction>>
  BY DEF CongAvoid, MayRaiseCwnd, tcp_in_cwnd_reduction
<1> QED
  BY <1>3, <1>4, <1>5, <1>6 DEF Earned, Contract!Ack

(* A call on a window that is not full changes nothing.                    *)
LEMMA AckImplements ==
  ASSUME TypeOK, Ack
  PROVE  [Contract!Next]_(Contract!vars)
<1>1. PICK n \in 1..MaxAcked, mpo \in 0..snd_cwnd, lim \in BOOLEAN :
        CongAvoid(n, mpo, lim)
  BY DEF Ack
<1>2. CASE tcp_is_cwnd_limited(mpo, lim)
  <2>1. Contract!Ack(n)
    BY <1>1, <1>2, AckPays
  <2> QED
    BY <2>1 DEF Contract!Next
<1>3. CASE ~tcp_is_cwnd_limited(mpo, lim)
  BY <1>1, <1>3
  DEF CongAvoid, tcp_reno_cong_avoid, Contract!vars, tcp_in_cwnd_reduction
<1> QED
  BY <1>2, <1>3

(* A loss episode is one of the contract's; the kernel's other steps only  *)
(* steer the window down, give it up or give it back.                      *)
LEMMA KernelImplements ==
  ASSUME TypeOK, TypeOK', Kernel
  PROVE  [Contract!Next]_(Contract!vars)
<1> USE TcpSockAssumption DEF tcp_in_cwnd_reduction
<1>1. CASE KernelDisorder \/ KernelOrder \/ KernelCwrToRecovery \/ KernelExitLoss
  BY <1>1 DEF KernelDisorder, KernelOrder, KernelCwrToRecovery,
              KernelExitLoss, Contract!vars
<1>2. CASE EnterReduction
  <2>1. Contract!LossEpisode
    BY <1>2 DEF EnterReduction, KernelEnterReduction, tcp_reno_ssthresh, MaxOf,
                Contract!LossEpisode, TypeOK, SockTypeOK
  <2> QED
    BY <2>1 DEF Contract!Next
<1>3. CASE KernelReduce
  <2>1. Contract!Reduce
    BY <1>3 DEF KernelReduce, Contract!Reduce, TypeOK, SockTypeOK
  <2> QED
    BY <2>1 DEF Contract!Next
<1>4. CASE KernelEndReduction
  <2>1. Contract!Reduce
    BY <1>4
    DEF KernelEndReduction, Contract!Reduce, TypeOK, SockTypeOK, Ssthreshes
  <2> QED
    BY <2>1 DEF Contract!Next
<1>5. CASE EnterLoss
  <2>1. PICK fresh \in BOOLEAN : KernelEnterLoss(fresh, tcp_reno_ssthresh)
    BY <1>5 DEF EnterLoss
  <2>2. CASE fresh
    <3>1. Contract!LossEpisode
      BY <2>1, <2>2
      DEF KernelEnterLoss, tcp_reno_ssthresh, MaxOf, Contract!LossEpisode,
          TypeOK, SockTypeOK
    <3> QED
      BY <3>1 DEF Contract!Next
  <2>3. CASE ~fresh
    <3>1. Contract!Decay
      BY <2>1, <2>3
      DEF KernelEnterLoss, Contract!Decay, TypeOK, SockTypeOK, Ssthreshes
    <3> QED
      BY <3>1 DEF Contract!Next
  <2> QED
    BY <2>2, <2>3
<1>6. CASE Undo
  <2>1. Contract!Restore
    BY <1>6 DEF Undo, KernelUndo, tcp_reno_undo_cwnd, MaxOf, Contract!Restore,
                TypeOK, SockTypeOK, Ssthreshes
  <2> QED
    BY <2>1 DEF Contract!Next
<1>7. CASE KernelShrink
  <2>1. snd_cwnd' \in 1..snd_cwnd
    BY <1>7 DEF KernelShrink, MinOf, TypeOK, SockTypeOK
  <2>2. snd_ssthresh' \in {t \in Ssthreshes : t >= snd_ssthresh}
    BY <1>7 DEF KernelShrink, tcp_current_ssthresh, MaxOf, TypeOK, SockTypeOK,
                Ssthreshes
  <2>3. Contract!Decay
    BY <1>7, <2>1, <2>2 DEF KernelShrink, Contract!Decay
  <2> QED
    BY <2>3 DEF Contract!Next
<1> QED
  BY <1>1, <1>2, <1>3, <1>4, <1>5, <1>6, <1>7 DEF Kernel

(* Reno implements the additive-increase contract (ImplementsAimd).        *)
THEOREM RenoImplementsAimd == Spec => ImplementsAimd
<1>1. Init => Contract!Init
  BY DEF Init, SockInit, Contract!Init, tcp_in_cwnd_reduction
<1>2. TypeOK /\ TypeOK' /\ [Next]_vars => [Contract!Next]_(Contract!vars)
  <2> SUFFICES ASSUME TypeOK, TypeOK', [Next]_vars
               PROVE  [Contract!Next]_(Contract!vars)
    OBVIOUS
  <2>1. CASE Ack
    BY <2>1, AckImplements
  <2>2. CASE Kernel
    BY <2>2, KernelImplements
  <2>3. CASE UNCHANGED vars
    BY <2>3 DEF vars, sockVars, Contract!vars, tcp_in_cwnd_reduction
  <2> QED
    BY <2>1, <2>2, <2>3 DEF Next
<1> QED
  BY <1>1, <1>2, TypeCorrect, PTL DEF Spec, ImplementsAimd, Contract!Spec
=============================================================================
