----------------------------- MODULE VegasProofs ----------------------------
(***************************************************************************)
(* For every clamp, sequence space, counter width and set of samples:      *)
(* Vegas keeps its types, never compares a sample with a larger base,      *)
(* calculates on fresh feedback only and then moves by one packet.         *)
(***************************************************************************)
EXTENDS Vegas, TcpSockLemmas

LEMMA InitType == Init => TypeOK
BY TcpSockAssumption, VegasAssumption
DEF Init, SockInit, TypeOK, SockTypeOK, VegasTypeOK

(* Sequence numbers stay in their space.                                   *)
LEMMA SeqMoves ==
  ASSUME NEW s \in Nat, NEW n \in Nat
  PROVE  (s + n) % SeqMod \in 0..(SeqMod - 1)
BY VegasAssumption

(* A restart and the end of a round trip leave well-typed estimates.       *)
LEMMA EnableType ==
  ASSUME TypeOK, vegas_enable, baseRTT' \in 1..InfRTT, UNCHANGED seqVars
  PROVE  VegasTypeOK'
BY VegasAssumption
DEF TypeOK, VegasTypeOK, vegas_enable, Restarted, seqVars

LEMMA EventType ==
  ASSUME TypeOK, tcp_vegas_cwnd_event, snd_una' = snd_una,
         snd_nxt' \in 0..(SeqMod - 1)
  PROVE  VegasTypeOK'
BY VegasAssumption
DEF TypeOK, VegasTypeOK, tcp_vegas_cwnd_event, vegas_enable, Restarted

LEMMA StateType ==
  ASSUME TypeOK, NEW st \in CaStates, tcp_vegas_state(st), UNCHANGED seqVars
  PROVE  VegasTypeOK'
<1>1. CASE st = "Open"
  <2>1. vegas_enable /\ baseRTT' \in 1..InfRTT
    BY <1>1 DEF tcp_vegas_state, TypeOK, VegasTypeOK
  <2> QED
    BY <2>1, EnableType
<1>2. CASE st # "Open"
  BY <1>2 DEF tcp_vegas_state, TypeOK, VegasTypeOK, history, seqVars
<1> QED
  BY <1>1, <1>2

----------------------------------------------------------------------------
LEMMA SendType ==
  ASSUME TypeOK, Send
  PROVE  TypeOK'
<1>1. snd_nxt' \in 0..(SeqMod - 1) /\ snd_una' = snd_una
  BY SeqMoves, VegasAssumption DEF Send, TypeOK, VegasTypeOK
<1>2. SockTypeOK'
  BY DEF Send, TypeOK, SockTypeOK, sockVars
<1>3. CASE InFlight = 0
  BY <1>1, <1>2, <1>3, EventType DEF Send, TypeOK
<1>4. CASE InFlight # 0
  BY <1>1, <1>2, <1>4 DEF Send, TypeOK, VegasTypeOK, rttVars, history
<1> QED
  BY <1>3, <1>4

LEMMA SampleType ==
  ASSUME TypeOK, NEW rtt_us \in RttSamples, PktsAcked(rtt_us)
  PROVE  TypeOK'
<1>1. rtt_us \in Nat
  BY VegasAssumption
<1>2. baseRTT' \in 1..InfRTT /\ minRTT' \in 1..InfRTT
  BY <1>1, VegasAssumption DEF PktsAcked, TypeOK, VegasTypeOK, MinOf
<1>3. cntRTT' \in 0..(CntMod - 1) /\ fresh' \in 0..3
  BY VegasAssumption DEF PktsAcked, TypeOK, VegasTypeOK, MinOf
<1> QED
  BY <1>2, <1>3
  DEF PktsAcked, TypeOK, VegasTypeOK, SockTypeOK, sockVars, seqVars

(* The calculation returns a window between two and the clamp.             *)
LEMMA AdjustFacts ==
  ASSUME TypeOK, NEW acked \in Nat, MayRaiseCwnd,
         NEW r, r = vegas_adjust(acked)
  PROVE  r.cwnd \in 2..Clamp /\ r.ssthresh \in Ssthreshes
<1> DEFINE target == (snd_cwnd * baseRTT) \div minRTT
           diff   == ((snd_cwnd * (minRTT - baseRTT)) % U32) \div baseRTT
           slow   == tcp_in_slow_start
           leave  == slow /\ diff > gamma
           lower  == ~slow /\ diff > beta
           c == IF leave THEN MinOf(snd_cwnd, target + 1)
                ELSE IF slow THEN tcp_slow_start(acked).cwnd
                ELSE IF lower THEN snd_cwnd - 1
                ELSE IF diff < alpha THEN snd_cwnd + 1 ELSE snd_cwnd
           s == IF leave \/ lower THEN MinOf(snd_ssthresh, c)
                ELSE snd_ssthresh
           cwnd == vegas_bounds(c)
<1>1. r.cwnd = cwnd /\ r.ssthresh = tcp_current_ssthresh(cwnd, s)
  BY DEF vegas_adjust
<1>2. target \in Nat
  <2>1. snd_cwnd \in Nat /\ baseRTT \in Nat /\ minRTT \in Nat /\ minRTT >= 1
    BY TcpSockAssumption, VegasAssumption DEF TypeOK, SockTypeOK, VegasTypeOK
  <2>2. snd_cwnd * baseRTT \in Nat
    BY <2>1, MulMono
  <2> QED
    BY <2>1, <2>2, DivFacts
<1>3. slow => tcp_slow_start(acked).cwnd \in snd_cwnd..Clamp
  BY SlowStartFacts DEF TypeOK
<1> HIDE DEF target, diff
<1>4. c \in 0..(Clamp + 1) /\ (leave \/ lower => c \in 0..Clamp)
  BY <1>2, <1>3, TcpSockAssumption DEF TypeOK, SockTypeOK, MinOf
<1> HIDE DEF c, leave, lower
<1>5. cwnd \in 2..Clamp
  BY <1>4, TcpSockAssumption DEF vegas_bounds, MinOf
<1>6. s \in 0..Clamp \cup {InfSsthresh}
  BY <1>4, TcpSockAssumption DEF TypeOK, SockTypeOK, Ssthreshes, MinOf
<1> HIDE DEF cwnd, s
<1>7. tcp_current_ssthresh(cwnd, s) \in Ssthreshes
  BY <1>5, <1>6, TcpSockAssumption
  DEF tcp_current_ssthresh, MayRaiseCwnd, Ssthreshes, MaxOf
<1> QED
  BY <1>1, <1>5, <1>7

LEMMA AckType ==
  ASSUME TypeOK, Ack
  PROVE  TypeOK'
<1>1. PICK acked \in 1..MaxAcked :
        RoundEnd(acked) \/ MidRound(acked) \/ LikeReno(acked) \/ QuietAck(acked)
  BY DEF Ack
<1>2. acked \in Nat
  BY TcpSockAssumption
<1>3. AckOf(acked)
  BY <1>1 DEF RoundEnd, MidRound, LikeReno, QuietAck
<1>4. /\ snd_una' \in 0..(SeqMod - 1)
      /\ UNCHANGED <<snd_nxt, prior_cwnd, prior_ssthresh, ca_state>>
  BY <1>2, <1>3, SeqMoves, VegasAssumption DEF AckOf, TypeOK, VegasTypeOK
<1>5. Reno(acked) => snd_cwnd' \in 1..Clamp /\ snd_cwnd_cnt' \in Nat
  <2> SUFFICES ASSUME Reno(acked)
               PROVE  snd_cwnd' \in 1..Clamp /\ snd_cwnd_cnt' \in Nat
    OBVIOUS
  <2>1. snd_cwnd' \in snd_cwnd..Clamp /\ snd_cwnd_cnt' \in Nat
    BY <1>2, RenoFacts DEF Reno, TypeOK
  <2> QED
    BY <2>1, TcpSockAssumption DEF TypeOK, SockTypeOK
<1>6. CASE RoundEnd(acked)
  <2>1. SockTypeOK'
    <3>1. CASE EnoughSamples
      <4>1. snd_cwnd' \in 2..Clamp /\ snd_ssthresh' \in Ssthreshes
        BY <1>2, <1>6, <3>1, AdjustFacts DEF RoundEnd
      <4> QED
        BY <1>4, <1>6, <3>1, <4>1 DEF RoundEnd, TypeOK, SockTypeOK
    <3>2. CASE ~EnoughSamples
      <4>1. Reno(acked)
        BY <1>6, <3>2 DEF RoundEnd
      <4> QED
        BY <1>4, <1>5, <4>1 DEF Reno, TypeOK, SockTypeOK
    <3> QED
      BY <3>1, <3>2
  <2>2. VegasTypeOK'
    BY <1>4, <1>6, VegasAssumption
    DEF RoundEnd, EndRound, Restarted, TypeOK, VegasTypeOK
  <2> QED
    BY <2>1, <2>2 DEF TypeOK
<1>7. CASE MidRound(acked)
  <2>1. snd_cwnd' \in 1..Clamp
    <3>1. CASE tcp_in_slow_start
      <4>1. snd_cwnd' \in snd_cwnd..Clamp
        BY <1>2, <1>7, <3>1, SlowStartFacts DEF MidRound, TypeOK
      <4> QED
        BY <4>1, TcpSockAssumption DEF TypeOK, SockTypeOK
    <3>2. CASE ~tcp_in_slow_start
      BY <1>7, <3>2 DEF MidRound, TypeOK, SockTypeOK
    <3> QED
      BY <3>1, <3>2
  <2> QED
    BY <1>4, <1>7, <2>1
    DEF MidRound, TypeOK, SockTypeOK, VegasTypeOK, rttVars, history
<1>8. CASE LikeReno(acked)
  BY <1>4, <1>5, <1>8
  DEF LikeReno, Reno, TypeOK, SockTypeOK, VegasTypeOK, rttVars, history
<1>9. CASE QuietAck(acked)
  BY <1>4, <1>9
  DEF QuietAck, TypeOK, SockTypeOK, VegasTypeOK, rttVars, history
<1> QED
  BY <1>1, <1>6, <1>7, <1>8, <1>9

----------------------------------------------------------------------------
(* The steps of the kernel, and what each of them tells Vegas.             *)
KernelSteps ==
  \/ Disorder \/ Order \/ EnterReduction \/ CwrToRecovery \/ Reduce
  \/ EndReduction \/ EnterLoss \/ ExitLoss \/ Undo \/ IdleRestart \/ AppLimited

(* Vegas hears of a kernel step in one of three ways, or not at all.       *)
Heard ==
  \/ \E st \in CaStates : tcp_vegas_state(st)
  \/ tcp_vegas_cwnd_event
  \/ UNCHANGED <<rttVars, history>>

LEMMA KernelStepsHeard ==
  ASSUME KernelSteps
  PROVE  Heard /\ UNCHANGED seqVars
<1> USE DEF Heard, CaStates
<1>1. CASE Disorder
  BY <1>1 DEF Disorder
<1>2. CASE Order
  BY <1>2 DEF Order
<1>3. CASE EnterReduction
  BY <1>3 DEF EnterReduction
<1>4. CASE CwrToRecovery
  BY <1>4 DEF CwrToRecovery
<1>5. CASE Reduce
  BY <1>5 DEF Reduce
<1>6. CASE EndReduction
  BY <1>6 DEF EndReduction
<1>7. CASE EnterLoss
  BY <1>7 DEF EnterLoss
<1>8. CASE ExitLoss
  BY <1>8 DEF ExitLoss
<1>9. CASE Undo
  BY <1>9 DEF Undo
<1>10. CASE IdleRestart
  BY <1>10 DEF IdleRestart
<1>11. CASE AppLimited
  BY <1>11 DEF AppLimited
<1> QED
  BY <1>1, <1>2, <1>3, <1>4, <1>5, <1>6, <1>7, <1>8, <1>9, <1>10, <1>11
  DEF KernelSteps

LEMMA HeardType ==
  ASSUME TypeOK, Heard, UNCHANGED seqVars
  PROVE  VegasTypeOK'
<1>1. CASE \E st \in CaStates : tcp_vegas_state(st)
  BY <1>1, StateType
<1>2. CASE tcp_vegas_cwnd_event
  BY <1>2, EventType DEF TypeOK, VegasTypeOK, seqVars
<1>3. CASE UNCHANGED <<rttVars, history>>
  BY <1>3 DEF TypeOK, VegasTypeOK, rttVars, history, seqVars
<1> QED
  BY <1>1, <1>2, <1>3 DEF Heard

LEMMA KernelSockType ==
  ASSUME TypeOK, KernelSteps
  PROVE  SockTypeOK'
<1>1. CASE KernelAlone
  BY <1>1, KernelAloneType DEF TypeOK
<1>2. CASE EnterReduction
  BY <1>2, HookFacts, EnterReductionType DEF EnterReduction, TypeOK
<1>3. CASE EnterLoss
  BY <1>3, HookFacts, EnterLossType DEF EnterLoss, TypeOK
<1>4. CASE Undo
  BY <1>4, HookFacts, UndoType DEF Undo, TypeOK
<1> QED
  BY <1>1, <1>2, <1>3, <1>4
  DEF KernelSteps, KernelAlone, Disorder, Order, CwrToRecovery, Reduce,
      EndReduction, ExitLoss, IdleRestart, AppLimited

(* Every reachable state is well typed (TypeOK): the window, minRTT and    *)
(* baseRTT are never 0.                                                    *)
THEOREM TypeCorrect == Spec => []TypeOK
<1>1. Init => TypeOK
  BY InitType
<1>2. TypeOK /\ [Next]_vars => TypeOK'
  <2> SUFFICES ASSUME TypeOK, [Next]_vars PROVE TypeOK'
    OBVIOUS
  <2>1. CASE Send
    BY <2>1, SendType
  <2>2. CASE Sample
    BY <2>2, SampleType DEF Sample
  <2>3. CASE Ack
    BY <2>3, AckType
  <2>4. CASE KernelSteps
    BY <2>4, KernelSockType, KernelStepsHeard, HeardType DEF TypeOK
  <2>5. CASE UNCHANGED vars
    BY <2>5 DEF vars, sockVars, rttVars, seqVars, history, TypeOK, SockTypeOK,
                VegasTypeOK
  <2> QED
    BY <2>1, <2>2, <2>3, <2>4, <2>5 DEF Next, KernelSteps
<1> QED
  BY <1>1, <1>2, PTL DEF Spec

----------------------------------------------------------------------------
(* RttOrder is inductive once the types are known.                         *)
THEOREM BaseBelowRound == Spec => []RttOrder
<1>1. Init => RttOrder
  BY VegasAssumption DEF Init, RttOrder
<1>2. TypeOK /\ RttOrder /\ [Next]_vars => RttOrder'
  <2> SUFFICES ASSUME TypeOK, RttOrder, [Next]_vars PROVE RttOrder'
    OBVIOUS
  <2> USE VegasAssumption DEF TypeOK, VegasTypeOK, RttOrder
  <2>1. CASE \/ UNCHANGED <<baseRTT, minRTT>>
             \/ vegas_enable /\ UNCHANGED baseRTT
             \/ tcp_vegas_cwnd_event
    BY <2>1 DEF vegas_enable, tcp_vegas_cwnd_event
  <2>2. CASE Send
    BY <2>1, <2>2 DEF Send, rttVars
  <2>3. CASE Sample
    <3>1. PICK rtt_us \in RttSamples : PktsAcked(rtt_us)
      BY <2>3 DEF Sample
    <3> QED
      BY <3>1 DEF PktsAcked, MinOf
  <2>4. CASE Ack
    <3>1. PICK acked \in 1..MaxAcked : \/ RoundEnd(acked) \/ MidRound(acked)
                                      \/ LikeReno(acked) \/ QuietAck(acked)
      BY <2>4 DEF Ack
    <3>2. CASE RoundEnd(acked)
      BY <3>2 DEF RoundEnd, EndRound
    <3> QED
      BY <2>1, <3>1, <3>2 DEF MidRound, LikeReno, QuietAck, rttVars
  <2>5. CASE KernelSteps
    <3>1. Heard
      BY <2>5, KernelStepsHeard
    <3> QED
      BY <2>1, <3>1 DEF Heard, tcp_vegas_state, rttVars
  <2>6. CASE UNCHANGED vars
    BY <2>1, <2>6 DEF vars, rttVars
  <2> QED
    BY <2>2, <2>3, <2>4, <2>5, <2>6 DEF Next, KernelSteps
<1> QED
  BY <1>1, <1>2, TypeCorrect, PTL DEF Spec

----------------------------------------------------------------------------
(* What the two history variables are worth: mark is the end of the round  *)
(* trip under way, and no sample is counted twice.                         *)
FreshInv == mark = beg_snd_nxt /\ (cntRTT <= fresh \/ fresh = 3)

LEMMA FreshInvariant == Spec => []FreshInv
<1>1. Init => FreshInv
  BY DEF Init, FreshInv
<1>2. TypeOK /\ FreshInv /\ [Next]_vars => FreshInv'
  <2> SUFFICES ASSUME TypeOK, FreshInv, [Next]_vars PROVE FreshInv'
    OBVIOUS
  <2> USE VegasAssumption DEF TypeOK, VegasTypeOK, FreshInv, Restarted
  <2>1. CASE \/ UNCHANGED <<beg_snd_nxt, cntRTT, history>>
             \/ vegas_enable
             \/ tcp_vegas_cwnd_event
    BY <2>1 DEF vegas_enable, tcp_vegas_cwnd_event, history
  <2>2. CASE Send
    BY <2>1, <2>2 DEF Send, rttVars
  <2>3. CASE Sample
    <3>1. PICK rtt_us \in RttSamples : PktsAcked(rtt_us)
      BY <2>3 DEF Sample
    <3>2. mark' = beg_snd_nxt'
      BY <3>1 DEF PktsAcked
    <3>3. cntRTT' <= cntRTT + 1
      BY <3>1 DEF PktsAcked
    <3> QED
      BY <3>1, <3>2, <3>3 DEF PktsAcked, MinOf
  <2>4. CASE Ack
    <3>1. PICK acked \in 1..MaxAcked : \/ RoundEnd(acked) \/ MidRound(acked)
                                      \/ LikeReno(acked) \/ QuietAck(acked)
      BY <2>4 DEF Ack
    <3>2. CASE RoundEnd(acked)
      BY <3>2 DEF RoundEnd, EndRound
    <3> QED
      BY <2>1, <3>1, <3>2 DEF MidRound, LikeReno, QuietAck, rttVars
  <2>5. CASE KernelSteps
    <3>1. Heard
      BY <2>5, KernelStepsHeard
    <3> QED
      BY <2>1, <3>1 DEF Heard, tcp_vegas_state, rttVars
  <2>6. CASE UNCHANGED vars
    BY <2>1, <2>6 DEF vars, rttVars
  <2> QED
    BY <2>2, <2>3, <2>4, <2>5, <2>6 DEF Next, KernelSteps
<1> QED
  BY <1>1, <1>2, TypeCorrect, PTL DEF Spec

(* The window follows a calculation only on feedback gathered since the    *)
(* last restart or calculation (CalculatesOnFreshFeedback).                *)
THEOREM FreshFeedback == Spec => CalculatesOnFreshFeedback
<1>1. TypeOK /\ FreshInv /\ [Next]_vars =>
        [\A acked \in 1..MaxAcked :
           Calculates(acked) => fresh = 3 /\ after(snd_una', mark)]_vars
  BY DEF TypeOK, VegasTypeOK, FreshInv, Calculates, RoundEnd, RoundEnds,
         EnoughSamples
<1> QED
  BY <1>1, TypeCorrect, FreshInvariant, PTL
  DEF Spec, CalculatesOnFreshFeedback

----------------------------------------------------------------------------
(* One calculation moves a window of congestion avoidance by one.          *)
LEMMA CalculationMovesByOne ==
  ASSUME TypeOK, NEW acked \in 1..MaxAcked, Calculates(acked),
         ~tcp_in_slow_start
  PROVE  /\ snd_cwnd' \in {snd_cwnd - 1, snd_cwnd, snd_cwnd + 1}
         /\ snd_cwnd' \in 2..Clamp
<1> DEFINE diff == ((snd_cwnd * (minRTT - baseRTT)) % U32) \div baseRTT
           c == IF diff > beta THEN snd_cwnd - 1
                ELSE IF diff < alpha THEN snd_cwnd + 1 ELSE snd_cwnd
<1>1. acked \in Nat /\ MayRaiseCwnd
  BY TcpSockAssumption DEF Calculates, RoundEnd
<1>2. snd_cwnd' = vegas_adjust(acked).cwnd
  BY DEF Calculates, RoundEnd
<1>3. snd_cwnd' \in 2..Clamp
  BY <1>1, <1>2, AdjustFacts
<1>4. snd_cwnd' = vegas_bounds(c)
  BY <1>2 DEF vegas_adjust
<1>5. c \in {snd_cwnd - 1, snd_cwnd, snd_cwnd + 1}
  OBVIOUS
<1> HIDE DEF c
<1>6. snd_cwnd' \in {snd_cwnd - 1, snd_cwnd, snd_cwnd + 1}
  BY <1>4, <1>5, TcpSockAssumption
  DEF vegas_bounds, MinOf, TypeOK, SockTypeOK
<1> QED
  BY <1>3, <1>6

(* Every calculation in congestion avoidance moves the window by one       *)
(* packet at most, and keeps it between two and the clamp (MovesByOne).    *)
THEOREM OnePacketPerRound == Spec => MovesByOne
<1>1. TypeOK /\ [Next]_vars =>
        [\A acked \in 1..MaxAcked :
           Calculates(acked) /\ ~tcp_in_slow_start =>
             /\ snd_cwnd' \in {snd_cwnd - 1, snd_cwnd, snd_cwnd + 1}
             /\ snd_cwnd' \in 2..Clamp]_vars
  BY CalculationMovesByOne
<1> QED
  BY <1>1, TypeCorrect, PTL DEF Spec, MovesByOne
=============================================================================
