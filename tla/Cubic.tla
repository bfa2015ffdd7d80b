------------------------------- MODULE Cubic --------------------------------
(***************************************************************************)
(* bpf_cubic: the controller of bpf_cubic/bpfcubic.bpf.c.  Beyond the slow *)
(* start threshold the window follows a cubic function of the time since   *)
(* the last reduction (the epoch); in slow start HyStart watches the train *)
(* and the delay of ACKs and lowers the threshold before a loss does.      *)
(*                                                                         *)
(* struct bictcp is the record ca, field by field.  One clock, now, counts *)
(* microseconds; jiffies are derived from it.  Whether an ACK has passed   *)
(* ca->end_seq, the pacing delay and the pacing status are inputs.  The    *)
(* numeric constants of the file are parameters here, so that TLC can use  *)
(* small ones; proofs hold for all.                                        *)
(***************************************************************************)
EXTENDS TcpSock, CubicRoot

CONSTANTS UsecPerJiffy,   \* USEC_PER_JIFFY
          UsecPerSec,     \* USEC_PER_SEC
          BicHz,          \* 2^BICTCP_HZ
          CubeRttScale,   \* cube_rtt_scale, 410
          CubeDiv,        \* 2^(10 + 3 * BICTCP_HZ)
          Beta,           \* beta, 717
          BetaScale,      \* BICTCP_BETA_SCALE, 1024
          FriendScale,    \* beta_scale, 15
          U32,            \* 2^32
          UpdateHold,     \* HZ / 32
          SampleHold,     \* HZ
          LowWindow,      \* hystart_low_window, 16
          AckDelta,       \* hystart_ack_delta_us, 2000
          MinSamples,     \* HYSTART_MIN_SAMPLES, 8
          DelayMin,       \* HYSTART_DELAY_MIN, 4000
          DelayMax,       \* HYSTART_DELAY_MAX, 16000
          InfRtt,         \* ~0U
          Rtts,           \* the rtt_us a sample may report
          AckDelays,      \* the values of hystart_ack_delay
          MaxNow,         \* bound on the clock
          MaxCredit,      \* bound on snd_cwnd_cnt and on ca->ack_cnt
          MaxTcpCwnd      \* bound on ca->tcp_cwnd

CubeFactor == CubeDiv \div CubeRttScale

ASSUME CubicAssumption ==
  /\ \A c \in {UsecPerJiffy, UsecPerSec, BicHz, CubeRttScale, CubeDiv, Beta,
               BetaScale, FriendScale, U32, UpdateHold, SampleHold, LowWindow,
               AckDelta, MinSamples, DelayMin, DelayMax, InfRtt} :
       c \in Nat /\ c > 0
  /\ Beta <= BetaScale
  /\ Rtts \subseteq 0..InfRtt /\ AckDelays \subseteq Nat
  /\ MaxNow \in Nat /\ MaxCredit \in Nat /\ MaxTcpCwnd \in Nat

(* The two factors of cubic_root's argument fit the 32 bits they have.     *)
ASSUME CubicRootAssumption ==
  \A f \in {CubeFactor, Clamp} : f \div Bit[16] < Bit[16]

VARIABLES ca,        \* struct bictcp
          now,       \* tcp_mstamp, in usec
          lsndtime   \* the jiffy of the last packet sent

vars == <<sockVars, ca, now, lsndtime>>

jiffies == now \div UsecPerJiffy

BicTcp == [cnt: Nat, last_max_cwnd: Nat, last_cwnd: Nat, last_time: Nat,
           bic_origin_point: Nat, bic_K: Nat, delay_min: Nat,
           epoch_start: Nat, ack_cnt: Nat, tcp_cwnd: Nat, found: BOOLEAN,
           round_start: Nat, last_ack: Nat, curr_rtt: Nat, sample_cnt: Nat]

TypeOK ==
  /\ SockTypeOK
  /\ ca \in BicTcp
  /\ now \in Nat
  /\ lsndtime \in Nat

----------------------------------------------------------------------------
(* The window growth function.                                             *)

(* A slip: the window of the last calculation survives a timeout.          *)
reset_keeps_window(c) ==
  [c EXCEPT !.cnt = 0, !.last_max_cwnd = 0, !.last_time = 0,
            !.bic_origin_point = 0, !.bic_K = 0, !.delay_min = 0,
            !.epoch_start = 0, !.ack_cnt = 0, !.tcp_cwnd = 0, !.found = FALSE]

bictcp_reset(c) ==
  [c EXCEPT !.cnt = 0, !.last_max_cwnd = 0, !.last_cwnd = 0, !.last_time = 0,
            !.bic_origin_point = 0, !.bic_K = 0, !.delay_min = 0,
            !.epoch_start = 0, !.ack_cnt = 0, !.tcp_cwnd = 0, !.found = FALSE]

(* A slip: the smallest delay of a round starts from 0, not from ~0.       *)
hystart_reset_zero(c) ==
  [c EXCEPT !.round_start = now, !.last_ack = now, !.curr_rtt = 0,
            !.sample_cnt = 0]

bictcp_hystart_reset(c) ==
  [c EXCEPT !.round_start = now, !.last_ack = now, !.curr_rtt = InfRtt,
            !.sample_cnt = 0]

(* A recent calculation for this very window still stands.                 *)
StillValid(c, cwnd) ==
  c.last_cwnd = cwnd /\ jiffies - c.last_time <= UpdateHold

CalculatedThisJiffy(c) == c.epoch_start # 0 /\ jiffies = c.last_time

StartEpoch(c, cwnd, acked) ==
  [c EXCEPT !.epoch_start = jiffies, !.ack_cnt = acked, !.tcp_cwnd = cwnd,
            !.bic_K = IF c.last_max_cwnd <= cwnd THEN 0
                      ELSE cubic_root(CubeFactor * (c.last_max_cwnd - cwnd)),
            !.bic_origin_point = MaxOf(c.last_max_cwnd, cwnd)]

(* The time since the epoch began, in 1/BicHz seconds, ahead by one delay. *)
Elapsed(c) ==
  (((jiffies - c.epoch_start) * UsecPerJiffy + c.delay_min) * BicHz)
    \div UsecPerSec

(* Where the cubic function wants the window now, in 32-bit arithmetic.    *)
bic_target(c) ==
  LET t     == Elapsed(c)
      offs  == IF t < c.bic_K THEN c.bic_K - t ELSE t - c.bic_K
      delta == ((CubeRttScale * offs * offs * offs) \div CubeDiv) % U32
  IN  IF t < c.bic_K THEN (c.bic_origin_point - delta) % U32
      ELSE (c.bic_origin_point + delta) % U32

(* ACKed packets per segment that get there.                               *)
CubicRate(c, cwnd) ==
  LET rate == IF bic_target(c) > cwnd
              THEN cwnd \div (bic_target(c) - cwnd)
              ELSE 100 * cwnd
  IN  IF c.last_max_cwnd = 0 THEN MinOf(rate, 20) ELSE rate

rate_floor_one(rate) == MaxOf(rate, 1)   \* a slip: growth of 2x

rate_floor(rate) == MaxOf(rate, 2)

(* No slower than the window Reno would have, and at most one segment for  *)
(* two packets.                                                            *)
TcpFriendly(c, cwnd) ==
  LET delta == (cwnd * FriendScale) \div 8
      n     == IF delta > 0 /\ c.ack_cnt > delta THEN c.ack_cnt \div delta
               ELSE 0
      tcp   == c.tcp_cwnd + n
      rate  == IF tcp > cwnd THEN MinOf(c.cnt, cwnd \div (tcp - cwnd))
               ELSE c.cnt
  IN  [c EXCEPT !.ack_cnt = @ - n * delta, !.tcp_cwnd = tcp,
                !.cnt = rate_floor(rate)]

(* The curve is followed from a new point; an epoch starts if none runs.   *)
Recalculate(c0, cwnd, acked) ==
  LET c1 == [c0 EXCEPT !.last_cwnd = cwnd, !.last_time = jiffies]
      c2 == IF c1.epoch_start = 0 THEN StartEpoch(c1, cwnd, acked) ELSE c1
  IN  [c2 EXCEPT !.cnt = CubicRate(c2, cwnd)]

bictcp_update(c0, cwnd, acked) ==
  LET c == [c0 EXCEPT !.ack_cnt = @ + acked]
  IN  IF StillValid(c, cwnd) THEN c
      ELSE IF CalculatedThisJiffy(c) THEN TcpFriendly(c, cwnd)
      ELSE TcpFriendly(Recalculate(c, cwnd, acked), cwnd)

----------------------------------------------------------------------------
(* The ssthresh hook.                                                      *)

RecalcSsthreshNoFloor == (snd_cwnd * Beta) \div BetaScale   \* a slip

RecalcSsthresh == MaxOf((snd_cwnd * Beta) \div BetaScale, 2)

cubictcp_recalc_ssthresh(c) ==
  [c EXCEPT !.epoch_start = 0,
            !.last_max_cwnd =
               IF snd_cwnd < @
               THEN (snd_cwnd * (BetaScale + Beta)) \div (2 * BetaScale)
               ELSE snd_cwnd]

(* HyStart.  The ACK train: closely spaced ACKs that last longer than the  *)
(* path's delay.                                                           *)
TrainGoesOn(c) == now - c.last_ack <= AckDelta

AckTrainFound(c, ack_delay, paced) ==
  LET threshold == c.delay_min + ack_delay
  IN  /\ TrainGoesOn(c)
      /\ now - c.round_start > (IF paced THEN threshold ELSE threshold \div 2)

(* The delay: the smallest of the round's first samples is too large.      *)
DelayFound(c) ==
  /\ c.sample_cnt >= MinSamples
  /\ c.curr_rtt > c.delay_min
                    + MinOf(MaxOf(c.delay_min \div 8, DelayMin), DelayMax)

hystart_update(c, delay, ack_delay, paced) ==
  LET sampling == c.sample_cnt < MinSamples
  IN  [c EXCEPT !.last_ack = IF TrainGoesOn(c) THEN now ELSE @,
                !.curr_rtt = IF sampling THEN MinOf(@, delay) ELSE @,
                !.sample_cnt = IF sampling THEN @ + 1 ELSE @,
                !.found = AckTrainFound(c, ack_delay, paced) \/ DelayFound(c)]

----------------------------------------------------------------------------
(* The steps of the sender.                                                *)

NewConnection ==
  [cnt |-> 0, last_max_cwnd |-> 0, last_cwnd |-> 0, last_time |-> 0,
   bic_origin_point |-> 0, bic_K |-> 0, delay_min |-> 0, epoch_start |-> 0,
   ack_cnt |-> 0, tcp_cwnd |-> 0, found |-> FALSE, round_start |-> now,
   last_ack |-> now, curr_rtt |-> InfRtt, sample_cnt |-> 0]

(* cubictcp_init.  The clock starts in jiffy 1: jiffy 0, in which an epoch *)
(* start is taken for "no epoch", is left out.                             *)
Init ==
  /\ SockInit
  /\ now = UsecPerJiffy
  /\ lsndtime = 0
  /\ ca = NewConnection

Tick ==
  /\ now < MaxNow
  /\ now' = now + 1
  /\ UNCHANGED <<sockVars, ca, lsndtime>>

(* A slip: the shifted epoch is not held back to the present.              *)
SendUncapped(idle) ==
  /\ ca' = IF idle /\ ca.epoch_start # 0 /\ jiffies > lsndtime
           THEN [ca EXCEPT !.epoch_start = @ + (jiffies - lsndtime)]
           ELSE ca
  /\ lsndtime' = jiffies
  /\ UNCHANGED <<sockVars, now>>

(* A packet leaves; with nothing in flight the TX_START event shifts the   *)
(* epoch past the idle time.                                               *)
Send(idle) ==
  /\ ca' = IF idle /\ ca.epoch_start # 0 /\ jiffies > lsndtime
           THEN [ca EXCEPT !.epoch_start =
                             MinOf(@ + (jiffies - lsndtime), jiffies)]
           ELSE ca
  /\ lsndtime' = jiffies
  /\ UNCHANGED <<sockVars, now>>

(* When HyStart looks at a sample; the first is a slip.                    *)
WatchedAlways(c) == ~c.found /\ snd_cwnd >= LowWindow

Watched(c) == ~c.found /\ tcp_in_slow_start /\ snd_cwnd >= LowWindow

(* pkts_acked with a valid sample.                                         *)
PktsAcked(rtt_us, ack_delay, paced) ==
  LET delay == MaxOf(rtt_us, 1)
      c     == [ca EXCEPT !.delay_min = IF @ = 0 THEN delay
                                        ELSE MinOf(@, delay)]
      c1    == hystart_update(c, delay, ack_delay, paced)
  IN  /\ ~(ca.epoch_start # 0 /\ jiffies - ca.epoch_start < SampleHold)
      /\ ca' = IF Watched(c) THEN c1 ELSE c
      /\ snd_ssthresh' = IF Watched(c) /\ c1.found THEN snd_cwnd
                         ELSE snd_ssthresh
      /\ UNCHANGED <<snd_cwnd, snd_cwnd_cnt, prior_cwnd, prior_ssthresh,
                     ca_state, now, lsndtime>>

(* cong_avoid; past says that the ACK lies past ca->end_seq.               *)
CongAvoid(acked, past, mpo, lim) ==
  LET slow == tcp_in_slow_start
      c    == IF slow /\ past THEN bictcp_hystart_reset(ca) ELSE ca
      ss   == IF slow THEN tcp_slow_start(acked)
              ELSE [cwnd |-> snd_cwnd, left |-> acked]
      c1   == bictcp_update(c, ss.cwnd, ss.left)
      r    == tcp_cong_avoid_ai(ss.cwnd, snd_cwnd_cnt, c1.cnt, ss.left)
  IN  /\ MayRaiseCwnd
      /\ tcp_is_cwnd_limited(mpo, lim)
      /\ snd_cwnd_cnt + acked <= MaxCredit /\ ca.ack_cnt + acked <= MaxCredit
      /\ ca.tcp_cwnd <= MaxTcpCwnd
      /\ IF ss.left = 0
         THEN ca' = c /\ snd_cwnd' = ss.cwnd /\ UNCHANGED snd_cwnd_cnt
         ELSE ca' = c1 /\ snd_cwnd' = r.cwnd /\ snd_cwnd_cnt' = r.cnt
      /\ UNCHANGED <<snd_ssthresh, prior_cwnd, prior_ssthresh, ca_state, now,
                     lsndtime>>

clock == <<now, lsndtime>>

(* set_state acts on Loss only.                                            *)
cubictcp_state(c, st) ==
  IF st = "Loss" THEN bictcp_hystart_reset(bictcp_reset(c)) ELSE c

EnterReduction ==
  /\ \E st \in {"CWR", "Recovery"} :
       /\ KernelEnterReduction(st, RecalcSsthresh)
       /\ ca' = cubictcp_state(cubictcp_recalc_ssthresh(ca), st)
  /\ UNCHANGED clock

EnterLoss ==
  /\ \E fresh \in BOOLEAN :
       /\ KernelEnterLoss(fresh, RecalcSsthresh)
       /\ ca' = cubictcp_state(IF fresh THEN cubictcp_recalc_ssthresh(ca)
                               ELSE ca, "Loss")
  /\ UNCHANGED clock

Undo == KernelUndo(tcp_reno_undo_cwnd) /\ UNCHANGED <<ca, clock>>

(* Steps in which no hook changes anything.                                *)
KernelOnly ==
  /\ \/ KernelDisorder
     \/ KernelOrder
     \/ KernelCwrToRecovery
     \/ KernelReduce
     \/ KernelEndReduction
     \/ KernelExitLoss
     \/ KernelShrink
  /\ UNCHANGED <<ca, clock>>

(* A call on a window that is not full returns at once.                    *)
Ack == \E acked \in 1..MaxAcked, past \in BOOLEAN :
         CongAvoid(acked, past, snd_cwnd, TRUE)

Sample == \E rtt_us \in Rtts, ack_delay \in AckDelays, paced \in BOOLEAN :
            PktsAcked(rtt_us, ack_delay, paced)

Next ==
  \/ Tick
  \/ \E idle \in BOOLEAN : Send(idle)
  \/ Sample
  \/ Ack
  \/ EnterReduction
  \/ EnterLoss
  \/ Undo
  \/ KernelOnly

Spec == Init /\ [][Next]_vars

----------------------------------------------------------------------------
(* Once a rate has been calculated it is at least two: the division in     *)
(* tcp_cong_avoid_ai never meets the zero that bictcp_reset leaves, by any *)
(* of the three ways through bictcp_update (bpfcubic.bpf.c:290-299, 393).  *)
RateIsSafe == ca.last_cwnd # 0 => ca.cnt >= 2

(* Neither the epoch nor the last calculation lies in the future, whatever *)
(* idle periods shift: the elapsed time the cubic function is given never  *)
(* wraps to a huge unsigned number (bpfcubic.bpf.c:336, 432-435).          *)
EpochHasBegun ==
  /\ ca.epoch_start <= jiffies
  /\ ca.last_time <= jiffies
  /\ lsndtime <= jiffies

(* Every step of the controller is one the additive-increase contract      *)
(* allows at a price of two packets: beyond the threshold an ACK adds at   *)
(* most one segment per two packets it acknowledges, counting credit left  *)
(* over from other rates and other controllers (bpfcubic.bpf.c:390-393),   *)
(* and the threshold only moves at a loss or when HyStart ends slow start. *)
Contract == INSTANCE Aimd WITH
              cwnd      <- snd_cwnd,
              ssthresh  <- snd_ssthresh,
              credit    <- snd_cwnd_cnt,
              high      <- prior_cwnd,
              reducing  <- tcp_in_cwnd_reduction,
              Credits   <- 0..MaxCnt,
              Price     <- [w \in 1..Clamp |-> 2],
              Reduced   <- [w \in 1..Clamp |->
                              MaxOf((w * Beta) \div BetaScale, 2)],
              EndsEarly <- TRUE

ImplementsAimd == Contract!Spec

(* The smallest delay of a round is never below the smallest of the path:  *)
(* the two are fed by the same samples and reset together, so the delay    *)
(* that ends slow start is an increase (bpfcubic.bpf.c:541-551, 587).      *)
RoundDelayAboveBase == ca.delay_min <= ca.curr_rtt

(* HyStart only ever ends slow start early: it lowers the threshold, never *)
(* below the window, and at most once until a timeout resets it.           *)
HystartEndsSlowStartOnce ==
  [][Sample =>
       \/ snd_ssthresh' = snd_ssthresh
       \/ /\ snd_ssthresh' < snd_ssthresh /\ snd_ssthresh' = snd_cwnd
          /\ ~ca.found /\ ca'.found]_vars

(* What bpfcubic.bpf.c:295 says: a cwnd reduction sets epoch_start to 0,   *)
(* which forces the next update to recalculate the rate.  Windows of two,  *)
(* which a reduction leaves as they are, are not counted.                  *)
ReductionForcesRecalculation ==
  [][/\ Ack /\ ca' # ca
      /\ snd_cwnd > 2 /\ ~tcp_in_slow_start /\ ca.epoch_start = 0
        => ca'.last_time = jiffies]_vars
=============================================================================
