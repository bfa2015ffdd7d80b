------------------------------- MODULE Vegas --------------------------------
(***************************************************************************)
(* bpf_vegas: the delay-based controller of bpf_vegas/bpfvegas.bpf.c.      *)
(* Once per round trip it compares the smallest round-trip time of that    *)
(* trip (minRTT) with the smallest ever seen (baseRTT) and moves the       *)
(* window by one packet.                                                   *)
(*                                                                         *)
(* Sequence numbers count packets modulo SeqMod, standing for 2^32: a      *)
(* round trip ends when an ACK passes beg_snd_nxt in that arithmetic.      *)
(* cntRTT is a 16-bit counter and the Diff product a 32-bit one in the     *)
(* code; CntMod and U32 are their ranges.                                  *)
(***************************************************************************)
EXTENDS TcpSock

CONSTANTS SeqMod,     \* 2^32
          MaxFlight,  \* the most packets in flight
          CntMod,     \* 2^16
          U32,        \* 2^32
          InfRTT,     \* 0x7fffffff: no sample yet
          RttSamples  \* the round-trip times a sample may report, in usec

ASSUME VegasAssumption ==
  /\ SeqMod \in Nat /\ MaxFlight \in Nat /\ 2 * MaxFlight < SeqMod
  /\ CntMod \in Nat /\ CntMod > 3
  /\ U32 \in Nat /\ U32 > 0
  /\ InfRTT \in Nat /\ InfRTT > 0
  /\ RttSamples \subseteq Nat

VARIABLES doing_vegas_now,  \* taking Vegas samples
          beg_snd_nxt,      \* the ACK that ends this round trip lies past it
          cntRTT,           \* samples taken in this round trip
          minRTT,           \* the smallest of them
          baseRTT,          \* the smallest sample since the last idle period
          snd_una,          \* first unacknowledged packet
          snd_nxt           \* next packet to send

rttVars == <<doing_vegas_now, beg_snd_nxt, cntRTT, minRTT, baseRTT>>
seqVars == <<snd_una, snd_nxt>>

(* History: nothing below reads it.  What has happened since the last      *)
(* restart (vegas_enable) or round-trip end.                               *)
VARIABLES mark,    \* snd_nxt at that moment
          fresh    \* samples taken since, up to 3

history == <<mark, fresh>>

vars == <<sockVars, rttVars, seqVars, history>>

alpha == 2
beta  == 4
gamma == 1

(* Sequence arithmetic: before is a signed comparison of the difference.   *)
before(seq1, seq2) == 2 * ((seq1 - seq2) % SeqMod) >= SeqMod
after(seq2, seq1) == before(seq1, seq2)

InFlight == (snd_nxt - snd_una) % SeqMod

VegasTypeOK ==
  /\ doing_vegas_now \in BOOLEAN
  /\ beg_snd_nxt \in 0..(SeqMod - 1)
  /\ cntRTT \in 0..(CntMod - 1)
  /\ minRTT \in 1..InfRTT
  /\ baseRTT \in 1..InfRTT
  /\ snd_una \in 0..(SeqMod - 1)
  /\ snd_nxt \in 0..(SeqMod - 1)
  /\ mark \in 0..(SeqMod - 1)
  /\ fresh \in 0..3

TypeOK == SockTypeOK /\ VegasTypeOK

----------------------------------------------------------------------------
(* The hooks.                                                              *)

Restarted(nxt) == mark' = nxt /\ fresh' = 0

(* A slip: the round trip under way goes on as the first after a restart.  *)
enable_keeps_round ==
  /\ doing_vegas_now' = TRUE
  /\ cntRTT' = 0
  /\ minRTT' = InfRTT
  /\ UNCHANGED beg_snd_nxt
  /\ Restarted(snd_nxt)

vegas_enable ==
  /\ doing_vegas_now' = TRUE
  /\ beg_snd_nxt' = snd_nxt
  /\ cntRTT' = 0
  /\ minRTT' = InfRTT
  /\ Restarted(snd_nxt)

(* set_state; the kernel calls it on every change of ca_state.             *)
tcp_vegas_state(st) ==
  IF st = "Open"
  THEN vegas_enable /\ UNCHANGED baseRTT
  ELSE /\ doing_vegas_now' = FALSE
       /\ UNCHANGED <<beg_snd_nxt, cntRTT, minRTT, baseRTT, history>>

(* cwnd_event with CWND_RESTART or TX_START.                               *)
event_keeps_samples ==   \* a slip: only the base is forgotten
  baseRTT' = InfRTT /\ UNCHANGED <<doing_vegas_now, beg_snd_nxt, cntRTT,
                                   minRTT, history>>

tcp_vegas_cwnd_event == baseRTT' = InfRTT /\ vegas_enable

no_lower_bound(c) == MinOf(c, Clamp)   \* a slip: no minimum of two

vegas_bounds(c) == IF c < 2 THEN 2 ELSE MinOf(c, Clamp)

(* The calculation at the end of a round trip: the new window and          *)
(* threshold.                                                              *)
vegas_adjust(acked) ==
  LET target == (snd_cwnd * baseRTT) \div minRTT
      diff   == ((snd_cwnd * (minRTT - baseRTT)) % U32) \div baseRTT
      slow   == tcp_in_slow_start
      leave  == slow /\ diff > gamma
      lower  == ~slow /\ diff > beta
      c == IF leave THEN MinOf(snd_cwnd, target + 1)
           ELSE IF slow THEN tcp_slow_start(acked).cwnd
           ELSE IF lower THEN snd_cwnd - 1
           ELSE IF diff < alpha THEN snd_cwnd + 1 ELSE snd_cwnd
      s == IF leave \/ lower THEN MinOf(snd_ssthresh, c) ELSE snd_ssthresh
      cwnd == vegas_bounds(c)
  IN  [cwnd |-> cwnd, ssthresh |-> tcp_current_ssthresh(cwnd, s)]

Reno(acked) ==
  /\ \E mpo \in 0..snd_cwnd, lim \in BOOLEAN :
       LET r == tcp_reno_cong_avoid(mpo, lim, acked)
       IN  snd_cwnd' = r.cwnd /\ snd_cwnd_cnt' = r.cnt
  /\ UNCHANGED snd_ssthresh

(* Vegas wipes the slate at every round-trip end.                          *)
EndRound ==
  /\ beg_snd_nxt' = snd_nxt
  /\ cntRTT' = 0
  /\ minRTT' = InfRTT
  /\ Restarted(snd_nxt)

RoundEnds(ack) == doing_vegas_now /\ after(ack, beg_snd_nxt)

EnoughSamples == cntRTT > 2

----------------------------------------------------------------------------
(* The steps of the sender.                                                *)

Init ==
  /\ SockInit
  /\ snd_una = 0
  /\ snd_nxt \in 0..MaxFlight
  /\ doing_vegas_now = TRUE
  /\ beg_snd_nxt = snd_nxt
  /\ cntRTT = 0
  /\ minRTT = InfRTT
  /\ baseRTT = InfRTT
  /\ mark = snd_nxt
  /\ fresh = 0

(* A packet leaves.  With nothing in flight it is a TX_START: the hook     *)
(* runs before snd_nxt moves.                                              *)
Send ==
  /\ InFlight < MinOf(snd_cwnd, MaxFlight)
  /\ IF InFlight = 0 THEN tcp_vegas_cwnd_event
     ELSE UNCHANGED <<rttVars, history>>
  /\ snd_nxt' = (snd_nxt + 1) % SeqMod
  /\ UNCHANGED <<sockVars, snd_una>>

(* A slip: a round-trip time of zero is stored as it is.                   *)
PktsAckedZero(rtt_us) ==
  /\ baseRTT' = MinOf(baseRTT, rtt_us)
  /\ minRTT' = MinOf(minRTT, rtt_us)
  /\ cntRTT' = (cntRTT + 1) % CntMod
  /\ fresh' = MinOf(fresh + 1, 3)
  /\ UNCHANGED <<sockVars, seqVars, doing_vegas_now, beg_snd_nxt, mark>>

(* pkts_acked with a valid sample; zero is never stored.  A call without a *)
(* sample (rtt_us < 0) returns at once.                                    *)
PktsAcked(rtt_us) ==
  /\ LET vrtt == rtt_us + 1
     IN  /\ baseRTT' = MinOf(baseRTT, vrtt)
         /\ minRTT' = MinOf(minRTT, vrtt)
  /\ cntRTT' = (cntRTT + 1) % CntMod
  /\ fresh' = MinOf(fresh + 1, 3)
  /\ UNCHANGED <<sockVars, seqVars, doing_vegas_now, beg_snd_nxt, mark>>

(* cong_avoid for an ACK of acked new packets, its three ways through.     *)
AckOf(acked) ==
  /\ acked \in 1..MinOf(MaxAcked, InFlight)
  /\ snd_una' = (snd_una + acked) % SeqMod
  /\ UNCHANGED <<snd_nxt, prior_cwnd, prior_ssthresh, ca_state>>

RoundEnd(acked) ==
  /\ MayRaiseCwnd
  /\ AckOf(acked)
  /\ RoundEnds(snd_una')
  /\ IF EnoughSamples
     THEN LET r == vegas_adjust(acked)
          IN  /\ snd_cwnd' = r.cwnd
              /\ snd_ssthresh' = r.ssthresh
              /\ UNCHANGED snd_cwnd_cnt
     ELSE Reno(acked)
  /\ EndRound
  /\ UNCHANGED <<doing_vegas_now, baseRTT>>

MidRound(acked) ==
  /\ MayRaiseCwnd
  /\ AckOf(acked)
  /\ doing_vegas_now /\ ~RoundEnds(snd_una')
  /\ snd_cwnd' = IF tcp_in_slow_start THEN tcp_slow_start(acked).cwnd
                 ELSE snd_cwnd
  /\ UNCHANGED <<snd_cwnd_cnt, snd_ssthresh, rttVars, history>>

LikeReno(acked) ==
  /\ MayRaiseCwnd
  /\ AckOf(acked)
  /\ ~doing_vegas_now
  /\ Reno(acked)
  /\ UNCHANGED <<rttVars, history>>

(* While the kernel steers the window, ACKs advance without the hook.      *)
QuietAck(acked) ==
  /\ ~MayRaiseCwnd
  /\ AckOf(acked)
  /\ UNCHANGED <<snd_cwnd, snd_cwnd_cnt, snd_ssthresh, rttVars, history>>

Ack == \E acked \in 1..MaxAcked :
         RoundEnd(acked) \/ MidRound(acked) \/ LikeReno(acked) \/ QuietAck(acked)

Sample == \E rtt_us \in RttSamples : PktsAcked(rtt_us)

Disorder == KernelDisorder /\ tcp_vegas_state("Disorder") /\ UNCHANGED seqVars

Order == KernelOrder /\ tcp_vegas_state("Open") /\ UNCHANGED seqVars

EnterReduction ==
  /\ \E st \in {"CWR", "Recovery"} :
       KernelEnterReduction(st, tcp_reno_ssthresh) /\ tcp_vegas_state(st)
  /\ UNCHANGED seqVars

CwrToRecovery ==
  KernelCwrToRecovery /\ tcp_vegas_state("Recovery") /\ UNCHANGED seqVars

Reduce == KernelReduce /\ UNCHANGED <<rttVars, seqVars, history>>

EndReduction ==
  KernelEndReduction /\ tcp_vegas_state("Open") /\ UNCHANGED seqVars

EnterLoss ==
  /\ \E fresh_ \in BOOLEAN : KernelEnterLoss(fresh_, tcp_reno_ssthresh)
  /\ tcp_vegas_state("Loss")
  /\ UNCHANGED seqVars

ExitLoss == KernelExitLoss /\ tcp_vegas_state("Open") /\ UNCHANGED seqVars

(* A late undo finds the socket in Open: no change of state, no hook.      *)
Undo ==
  /\ KernelUndo(tcp_reno_undo_cwnd)
  /\ IF ca_state = "Open" THEN UNCHANGED <<rttVars, history>>
     ELSE tcp_vegas_state("Open")
  /\ UNCHANGED seqVars

(* The window decays after idling (CWND_RESTART), or for want of data to   *)
(* send (no event).                                                        *)
IdleRestart ==
  /\ InFlight = 0
  /\ KernelShrink
  /\ tcp_vegas_cwnd_event
  /\ UNCHANGED seqVars

AppLimited == KernelShrink /\ UNCHANGED <<rttVars, seqVars, history>>

Next ==
  \/ Send
  \/ Sample
  \/ Ack
  \/ Disorder
  \/ Order
  \/ EnterReduction
  \/ CwrToRecovery
  \/ Reduce
  \/ EndReduction
  \/ EnterLoss
  \/ ExitLoss
  \/ Undo
  \/ IdleRestart
  \/ AppLimited

Spec == Init /\ [][Next]_vars

----------------------------------------------------------------------------
(* A sample is never below the base it is compared with, and the base is   *)
(* never zero: rtt - baseRTT cannot wrap to a huge Diff and neither of the *)
(* two divisions can fault, whatever the order of samples, losses, idle    *)
(* restarts and round ends (bpfvegas.bpf.c:316-323).                       *)
RttOrder == 1 <= baseRTT /\ baseRTT <= minRTT

(* The window moves by the Vegas calculation only on feedback gathered     *)
(* since the last restart or calculation: an ACK for data sent after it,   *)
(* and at least three samples taken after it (bpfvegas.bpf.c:151-166,      *)
(* 279-286).                                                               *)
Calculates(acked) == RoundEnd(acked) /\ EnoughSamples

CalculatesOnFreshFeedback ==
  [][\A acked \in 1..MaxAcked :
       Calculates(acked) => fresh = 3 /\ after(snd_una', mark)]_vars

(* A sender that calculates in congestion avoidance moves its window by    *)
(* one packet at most, even from a window below the minimum of two and     *)
(* with a Diff that wrapped, and keeps it between two and the clamp.       *)
MovesByOne ==
  [][\A acked \in 1..MaxAcked :
       Calculates(acked) /\ ~tcp_in_slow_start =>
         /\ snd_cwnd' \in {snd_cwnd - 1, snd_cwnd, snd_cwnd + 1}
         /\ snd_cwnd' \in 2..Clamp]_vars
=============================================================================
