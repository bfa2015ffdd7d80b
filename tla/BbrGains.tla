------------------------------ MODULE BbrGains ------------------------------
(***************************************************************************)
(* bpf_bbr's gain cycle and its long-term rate (bpf_bbr/bbr.bpf.c).  In    *)
(* PROBE_BW the pacing gain cycles through phases that probe for           *)
(* bandwidth, drain the queue that left and cruise; two lossy sampling     *)
(* intervals of like throughput mean that a policer caps the rate, and BBR *)
(* then paces at that rate for LtMaxRtts rounds.                           *)
(*                                                                         *)
(* Nothing here moves the mode, so the mode machine is only what BbrModes  *)
(* promises of it, which Bbr is shown to keep.  Bandwidths are 0 or        *)
(* positive, and how two of them compare, whether an ACK starts a round    *)
(* and what the clock says are choices.  cycle_idx is kept only in         *)
(* PROBE_BW, which sets it on entry and alone reads it.                    *)
(***************************************************************************)
EXTENDS Integers

CONSTANTS CYCLE_LEN,    \* 8
          BBR_UNIT,     \* 256
          LtMinRtts,    \* bbr_lt_intvl_min_rtts, 4
          LtMaxRtts     \* bbr_lt_bw_max_rtts, 48

(* What the constants must satisfy.                                       *)
ASSUME BbrGainsAssumption ==
  /\ CYCLE_LEN \in Nat /\ CYCLE_LEN >= 3
  /\ BBR_UNIT \in Nat /\ BBR_UNIT >= 4
  /\ LtMinRtts \in Nat /\ LtMinRtts >= 1
  /\ LtMaxRtts \in Nat /\ LtMaxRtts >= 1

VARIABLES mode, full, stale,   \* as in BbrModes
          gain                 \* the rest of struct bbr

gainsVars == <<mode, full, stale, gain>>

Machine == INSTANCE BbrModes

bbr_high_gain == (BBR_UNIT * 2885) \div 1000 + 1
bbr_drain_gain == (BBR_UNIT * 1000) \div 2885
bbr_pacing_gain(idx) ==
  CASE idx = 0 -> (BBR_UNIT * 5) \div 4
    [] idx = 1 -> (BBR_UNIT * 3) \div 4
    [] OTHER   -> BBR_UNIT

MaxLtCnt == IF 4 * LtMinRtts > LtMaxRtts THEN 4 * LtMinRtts ELSE LtMaxRtts

GainFields ==
  [cycle_idx: 0..(CYCLE_LEN - 1), pacing_gain: 0..bbr_high_gain,
   lt_is_sampling: BOOLEAN, lt_rtt_cnt: 0..MaxLtCnt, lt_use_bw: BOOLEAN,
   lt_bw: {0, 1}]

GainsTypeOK ==
  /\ mode \in Machine!Modes /\ full \in BOOLEAN /\ stale \in BOOLEAN
  /\ gain \in GainFields

----------------------------------------------------------------------------
(* A gain cycle starts in any phase but the one below 1.                   *)
bbr_reset_probe_bw_mode(g) ==
  {[g EXCEPT !.cycle_idx = (i + 1) % CYCLE_LEN] : i \in 1..(CYCLE_LEN - 1)}

bbr_advance_cycle_phase(g) ==
  [g EXCEPT !.cycle_idx = (@ + 1) % CYCLE_LEN]

update_gains_forgets_dip(g, m) ==   \* a slip: a dip has no gain of its own
  [g EXCEPT !.pacing_gain =
     CASE m = "STARTUP"   -> bbr_high_gain
       [] m = "DRAIN"     -> bbr_drain_gain
       [] m = "PROBE_BW"  -> IF g.lt_use_bw THEN BBR_UNIT
                             ELSE bbr_pacing_gain(g.cycle_idx)
       [] m = "PROBE_RTT" -> @]

bbr_update_gains(g, m) ==
  [g EXCEPT !.pacing_gain =
     CASE m = "STARTUP"   -> bbr_high_gain
       [] m = "DRAIN"     -> bbr_drain_gain
       [] m = "PROBE_BW"  -> IF g.lt_use_bw THEN BBR_UNIT
                             ELSE bbr_pacing_gain(g.cycle_idx)
       [] m = "PROBE_RTT" -> BBR_UNIT]

bbr_reset_lt_bw_sampling(g) ==
  [g EXCEPT !.lt_bw = 0, !.lt_use_bw = FALSE, !.lt_is_sampling = FALSE,
            !.lt_rtt_cnt = 0]

lt_interval_keeps_gain(g) ==   \* a slip: goes on probing for bandwidth
  {[g EXCEPT !.lt_bw = w, !.lt_rtt_cnt = 0, !.lt_use_bw = use] :
     w \in {0, 1}, use \in {FALSE, g.lt_bw > 0}}

(* The average of two close rates may round down to 0.                     *)
bbr_lt_bw_interval_done(g) ==
  {[g EXCEPT !.lt_bw = w, !.lt_rtt_cnt = 0, !.lt_use_bw = use,
             !.pacing_gain = IF use THEN BBR_UNIT ELSE @] :
     w \in {0, 1}, use \in {FALSE, g.lt_bw > 0}}

(* The interval under way counts its rounds, and ends on a loss.           *)
lt_sample(g, losses, app_limited, round) ==
  LET on  == IF g.lt_is_sampling THEN g
             ELSE [g EXCEPT !.lt_is_sampling = TRUE, !.lt_rtt_cnt = 0]
      at  == [on EXCEPT !.lt_rtt_cnt = @ + (IF round THEN 1 ELSE 0)]
  IN  IF app_limited \/ at.lt_rtt_cnt > 4 * LtMinRtts
      THEN {bbr_reset_lt_bw_sampling(on)}
      ELSE IF at.lt_rtt_cnt < LtMinRtts \/ ~losses
      THEN {at}
      ELSE {at, bbr_reset_lt_bw_sampling(at)} \cup bbr_lt_bw_interval_done(at)

sampling_counts_lossy_rounds(g, losses, app_limited, round) ==   \* a slip
  CASE g.lt_use_bw /\ mode = "PROBE_BW" /\ round /\ losses ->
         IF g.lt_rtt_cnt + 1 >= LtMaxRtts
         THEN bbr_reset_probe_bw_mode(bbr_reset_lt_bw_sampling(g))
         ELSE {[g EXCEPT !.lt_rtt_cnt = @ + 1]}
    [] ~g.lt_use_bw /\ (g.lt_is_sampling \/ losses) ->
         lt_sample(g, losses, app_limited, round)
    [] OTHER -> {g}

bbr_lt_bw_sampling(g, losses, app_limited, round) ==
  CASE g.lt_use_bw /\ mode = "PROBE_BW" /\ round ->
         IF g.lt_rtt_cnt + 1 >= LtMaxRtts
         THEN bbr_reset_probe_bw_mode(bbr_reset_lt_bw_sampling(g))
         ELSE {[g EXCEPT !.lt_rtt_cnt = @ + 1]}
    [] ~g.lt_use_bw /\ (g.lt_is_sampling \/ losses) ->
         lt_sample(g, losses, app_limited, round)
    [] OTHER -> {g}

(* The stay in a phase is measured against the clock, and when the phase   *)
(* probes or drains against what is in flight.  whole: the phase has       *)
(* lasted a minimum round trip; hit: the flight is at the phase's mark.    *)
bbr_is_next_cycle_phase(g, losses, whole, hit) ==
  CASE g.pacing_gain = BBR_UNIT -> whole
    [] g.pacing_gain > BBR_UNIT -> whole /\ (losses \/ hit)
    [] g.pacing_gain < BBR_UNIT -> whole \/ hit

bbr_update_cycle_phase(g, losses, whole, hit) ==
  IF mode = "PROBE_BW" /\ bbr_is_next_cycle_phase(g, losses, whole, hit)
  THEN bbr_advance_cycle_phase(g) ELSE g

(* A step of the mode machine, as bbr_check_drain and bbr_update_min_rtt   *)
(* may take it; one that enters PROBE_BW starts a gain cycle.              *)
MoveMode(g) ==
  IF mode' = mode THEN {g}
  ELSE IF mode' = "PROBE_BW" THEN bbr_reset_probe_bw_mode(g)
  ELSE {[g EXCEPT !.cycle_idx = 0]}

----------------------------------------------------------------------------
GainsInit ==
  /\ Machine!Init
  /\ gain = [cycle_idx |-> 0, pacing_gain |-> 0, lt_is_sampling |-> FALSE,
             lt_rtt_cnt |-> 0, lt_use_bw |-> FALSE, lt_bw |-> 0]

(* bbr_main.  An invalid sample starts no round and is not sampled.  A     *)
(* cycle that this very ACK restarted has lasted no time.                  *)
GainsOnAck(losses, app_limited, valid, round) ==
  /\ round => valid
  /\ Machine!Advance \/ Machine!Dip \/ Machine!EndDip
  /\ \E g \in IF valid
              THEN bbr_lt_bw_sampling(gain, losses, app_limited, round)
              ELSE {gain} :
     \E whole, hit \in BOOLEAN :
       /\ whole => g.lt_use_bw = gain.lt_use_bw
       /\ \E h \in MoveMode(bbr_update_cycle_phase(g, losses, whole, hit)) :
            gain' = bbr_update_gains(h, mode')

(* bbr_cwnd_event: sending starts again after an idle period.  A dip may   *)
(* end here, and the pacing gain stays the dip's until the next ACK.       *)
GainsOnRestart ==
  /\ Machine!EndDip /\ full' = full
  /\ gain' \in MoveMode(gain)

(* bbr_set_state: a retransmission timeout counts as a round that lost a   *)
(* packet.                                                                 *)
GainsOnTimeout ==
  /\ gain' \in bbr_lt_bw_sampling(gain, TRUE, FALSE, TRUE)
  /\ UNCHANGED <<mode, full, stale>>

(* bbr_undo_cwnd.                                                          *)
GainsOnUndo ==
  /\ gain' = bbr_reset_lt_bw_sampling(gain)
  /\ UNCHANGED <<mode, full, stale>>

GainsStale == Machine!GrowStale /\ UNCHANGED gain

GainsAck == \E losses, app_limited, valid, round \in BOOLEAN :
              GainsOnAck(losses, app_limited, valid, round)

GainsNext ==
  \/ GainsAck
  \/ GainsOnRestart
  \/ GainsOnTimeout
  \/ GainsOnUndo
  \/ GainsStale

GainsSpec == GainsInit /\ [][GainsNext]_gainsVars

(* A busy sender in steady state: ACKs keep starting rounds.               *)
RoundAck == \E losses, app_limited \in BOOLEAN :
              mode = "PROBE_BW" /\ GainsOnAck(losses, app_limited, TRUE, TRUE)

GainsFairSpec == GainsSpec /\ WF_gainsVars(RoundAck)

----------------------------------------------------------------------------
(* On a policed path BBR does not probe for more, even when the policer is *)
(* found on a timeout, between two ACKs.                                   *)
PolicedNeverProbes ==
  gain.lt_use_bw /\ mode = "PROBE_BW" => gain.pacing_gain = BBR_UNIT

(* In steady state BBR paces above its estimate only in the phase that     *)
(* probes and below it only in the phase that drains: no gain of another   *)
(* phase, or of another mode, outlives it across timeouts, idle restarts   *)
(* and restarts of the cycle.                                              *)
GainFitsPhase ==
  mode = "PROBE_BW" =>
    gain.pacing_gain \in {BBR_UNIT, bbr_pacing_gain(gain.cycle_idx)}

(* A busy sender in steady state goes back to measuring the bandwidth,     *)
(* however often it is found policed.                                      *)
PolicerIsReexamined ==
  <>[](mode = "PROBE_BW") => []<>(~gain.lt_use_bw)
=============================================================================
