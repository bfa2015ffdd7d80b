--------------------------------- MODULE Bbr --------------------------------
(***************************************************************************)
(* bpf_bbr: the model-based controller of bpf_bbr/bbr.bpf.c.  Each ACK     *)
(* brings a rate sample; bbr_main updates the model of the path from it    *)
(* (full pipe, minimum round-trip time), moves the mode machine and sets   *)
(* the window.  This module has the mode machine and the window; the gain  *)
(* cycle and the long-term rate, which change neither, are BbrGains.       *)
(*                                                                         *)
(* struct bbr is the record bbr, field by field, without what only scales  *)
(* the target window or the pacing rate.  Simplifications:                 *)
(*   - a bandwidth is 0 or 1 (positive), and how two bandwidths compare is *)
(*     a choice; so is the target window, never below MinTarget because    *)
(*     bbr_quantization_budget adds three segments and rounds up to even;  *)
(*   - a stamp in jiffies is the state of its timer;                       *)
(*   - whether an ACK starts a packet-timed round is a choice;             *)
(*   - round_start lives within one hook: every hook that reads it has     *)
(*     written it, so it is passed on as an argument;                      *)
(*   - Open stands for Open, Disorder and CWR: bbr only asks whether the   *)
(*     state is Recovery or beyond;                                        *)
(*   - a sample's delivered is positive when the ACK delivers something.   *)
(* A step with a choice returns the set of its outcomes.  The kernel's     *)
(* steps are external; with a cong_control hook the kernel leaves the      *)
(* window alone except on a timeout.                                       *)
(***************************************************************************)
EXTENDS Integers

CONSTANTS Clamp,        \* snd_cwnd_clamp
          MinTarget,    \* bbr_cwnd_min_target, 4
          MaxAcked,     \* the most packets one ACK covers
          MaxLost,      \* the most packets one ACK reports lost
          Flights,      \* numbers of packets in flight
          Targets,      \* values of the target window
          FullBwCnt     \* bbr_full_bw_cnt, 3

ASSUME BbrAssumption ==
  /\ Clamp \in Nat /\ MinTarget \in 1..Clamp
  /\ MaxAcked \in Nat /\ MaxAcked >= 1
  /\ MaxLost \in Nat /\ MaxLost >= 1
  /\ Flights \subseteq Nat
  /\ Targets \subseteq Nat /\ \A t \in Targets : t >= MinTarget
  /\ FullBwCnt \in Nat /\ FullBwCnt >= 1

VARIABLES bbr,       \* struct bbr
          snd_cwnd,  \* congestion window
          ca_state   \* icsk_ca_state

(* History: nothing below reads it.                                        *)
VARIABLES good,  \* the window when the cut under way began, 0 if none did
          flat   \* rounds without growth since the last growth or loss

vars == <<bbr, snd_cwnd, ca_state, good, flat>>

CaStates == {"Open", "Recovery", "Loss"}
Losing == {"Recovery", "Loss"}
Modes == {"STARTUP", "DRAIN", "PROBE_BW", "PROBE_RTT"}
Timers == {"unset", "running", "passed"}

BbrStruct ==
  [mode: Modes, full_bw_reached: BOOLEAN, full_bw: {0, 1},
   full_bw_cnt: 0..FullBwCnt, prev_ca_state: CaStates,
   packet_conservation: BOOLEAN, idle_restart: BOOLEAN,
   probe_rtt_done_stamp: Timers, probe_rtt_round_done: BOOLEAN,
   min_rtt_stale: BOOLEAN, prior_cwnd: 0..Clamp]

(* What bbr_main reads of a rate sample.  valid: it has a delivery rate     *)
(* (delivered and interval_us are not negative), which takes an ACK that    *)
(* delivers something; only then is is_app_limited read.                    *)
RateSample ==
  {rs \in [losses: 0..MaxLost, acked_sacked: 0..MaxAcked, delivered: {0, 1},
           valid: BOOLEAN, is_app_limited: BOOLEAN] :
     /\ rs.delivered = 1 <=> rs.acked_sacked > 0
     /\ rs.valid => rs.delivered = 1
     /\ rs.is_app_limited => rs.valid}

TypeOK ==
  /\ bbr \in BbrStruct
  /\ snd_cwnd \in 1..Clamp
  /\ ca_state \in CaStates
  /\ good \in 0..Clamp
  /\ flat \in 0..FullBwCnt

MinOf(a, b) == IF a < b THEN a ELSE b
MaxOf(a, b) == IF a > b THEN a ELSE b

----------------------------------------------------------------------------
(* The window worth returning to.                                          *)

save_cwnd_always(b, cwnd) ==   \* a slip: a cut window counts as good
  [b EXCEPT !.prior_cwnd = cwnd]

bbr_save_cwnd(b, cwnd) ==
  [b EXCEPT !.prior_cwnd =
     IF b.prev_ca_state \notin Losing /\ b.mode # "PROBE_RTT"
     THEN cwnd ELSE MaxOf(@, cwnd)]

----------------------------------------------------------------------------
(* Modes.                                                                  *)

reset_mode_to_startup(b) ==   \* a slip: forgets that the pipe was full
  [b EXCEPT !.mode = "STARTUP"]

bbr_reset_mode(b) ==
  [b EXCEPT !.mode = IF b.full_bw_reached THEN "PROBE_BW" ELSE "STARTUP"]

----------------------------------------------------------------------------
(* The model of the path, in the order bbr_update_model brings it up to    *)
(* date.                                                                   *)

bbr_update_bw(b, rs, round) ==
  IF rs.valid THEN [b EXCEPT !.packet_conservation = @ /\ ~round] ELSE b

full_bw_reached_late(b, rs, round, grown) ==   \* a slip: one round too many
  IF b.full_bw_reached \/ ~round \/ rs.is_app_limited THEN {b}
  ELSE IF b.full_bw = 0 \/ grown
  THEN {[b EXCEPT !.full_bw = 1, !.full_bw_cnt = 0]}
  ELSE {[b EXCEPT !.full_bw_cnt = @ + 1,
                  !.full_bw_reached = b.full_bw_cnt + 1 > FullBwCnt]}

(* grown: the bandwidth is a quarter above the baseline full_bw.           *)
bbr_check_full_bw_reached(b, rs, round, grown) ==
  IF b.full_bw_reached \/ ~round \/ rs.is_app_limited THEN {b}
  ELSE IF b.full_bw = 0 \/ grown
  THEN {[b EXCEPT !.full_bw = w, !.full_bw_cnt = 0] : w \in {b.full_bw, 1}}
  ELSE {[b EXCEPT !.full_bw_cnt = @ + 1,
                  !.full_bw_reached = b.full_bw_cnt + 1 >= FullBwCnt]}

(* In DRAIN the queue may be found gone at once.                           *)
bbr_check_drain(b) ==
  LET d == IF b.mode = "STARTUP" /\ b.full_bw_reached
           THEN [b EXCEPT !.mode = "DRAIN"] ELSE b
  IN  {d} \cup (IF d.mode = "DRAIN" THEN {[d EXCEPT !.mode = "PROBE_BW"]}
                ELSE {})

probe_rtt_keeps_cwnd(b, cwnd) ==   \* a slip: the dip's window stays
  IF b.probe_rtt_done_stamp # "passed" THEN [bbr |-> b, cwnd |-> cwnd]
  ELSE [bbr |-> bbr_reset_mode([b EXCEPT !.min_rtt_stale = FALSE]),
        cwnd |-> cwnd]

bbr_check_probe_rtt_done(b, cwnd) ==
  IF b.probe_rtt_done_stamp # "passed" THEN [bbr |-> b, cwnd |-> cwnd]
  ELSE [bbr |-> bbr_reset_mode([b EXCEPT !.min_rtt_stale = FALSE]),
        cwnd |-> MaxOf(cwnd, b.prior_cwnd)]

(* Whether the estimate had expired is read before this ACK may refresh it. *)
bbr_enter_probe_rtt(b, cwnd) ==
  LET enter == b.min_rtt_stale /\ ~b.idle_restart /\ b.mode # "PROBE_RTT"
  IN  {[IF enter
        THEN [bbr_save_cwnd([b EXCEPT !.mode = "PROBE_RTT"], cwnd)
                EXCEPT !.probe_rtt_done_stamp = "unset"]
        ELSE b EXCEPT !.min_rtt_stale = stale] :
         stale \in {FALSE, b.min_rtt_stale}}

stay_rearms_timer(b, round, flight, cwnd) ==   \* a slip: on every ACK
  LET on == [b EXCEPT !.probe_rtt_round_done = @ \/ round]
  IN  IF b.mode = "PROBE_RTT" /\ flight <= MinTarget
      THEN [bbr |-> [b EXCEPT !.probe_rtt_done_stamp = "running",
                              !.probe_rtt_round_done = FALSE], cwnd |-> cwnd]
      ELSE IF b.mode = "PROBE_RTT" /\ on.probe_rtt_round_done
      THEN bbr_check_probe_rtt_done(on, cwnd)
      ELSE [bbr |-> b, cwnd |-> cwnd]

bbr_stay_in_probe_rtt(b, round, flight, cwnd) ==
  LET start == [b EXCEPT !.probe_rtt_done_stamp = "running",
                         !.probe_rtt_round_done = FALSE]
      on    == [b EXCEPT !.probe_rtt_round_done = @ \/ round]
  IN  CASE b.mode # "PROBE_RTT" -> [bbr |-> b, cwnd |-> cwnd]
        [] b.mode = "PROBE_RTT" /\ b.probe_rtt_done_stamp = "unset" ->
             [bbr |-> IF flight <= MinTarget THEN start ELSE b, cwnd |-> cwnd]
        [] OTHER -> IF on.probe_rtt_round_done
                    THEN bbr_check_probe_rtt_done(on, cwnd)
                    ELSE [bbr |-> on, cwnd |-> cwnd]

bbr_update_min_rtt(b, rs, round, flight, cwnd) ==
  {[bbr_stay_in_probe_rtt(c, round, flight, cwnd)
      EXCEPT !.bbr.idle_restart = @ /\ rs.delivered = 0] :
     c \in bbr_enter_probe_rtt(b, cwnd)}

----------------------------------------------------------------------------
(* The window.                                                             *)

(* The first ACK of an episode starts to conserve packets, the first ACK   *)
(* after it restores the window.                                           *)
Entered(b) == ca_state = "Recovery" /\ b.prev_ca_state # "Recovery"
Left(b) == b.prev_ca_state \in Losing /\ ca_state \notin Losing

restored_cwnd(b, rs, cwnd, flight) ==
  LET less == MaxOf(cwnd - rs.losses, 1)
  IN  IF Entered(b) THEN flight + rs.acked_sacked
      ELSE IF Left(b) THEN MaxOf(less, b.prior_cwnd) ELSE less

restore_keeps_conservation(b, rs, cwnd, flight) ==   \* a slip
  [bbr  |-> [b EXCEPT !.prev_ca_state = ca_state,
                      !.packet_conservation = Entered(b) \/ @],
   cwnd |-> restored_cwnd(b, rs, cwnd, flight)]

bbr_set_cwnd_to_recover_or_restore(b, rs, cwnd, flight) ==
  [bbr  |-> [b EXCEPT !.prev_ca_state = ca_state,
                      !.packet_conservation = Entered(b) \/ (@ /\ ~Left(b))],
   cwnd |-> restored_cwnd(b, rs, cwnd, flight)]

set_cwnd_caps_new_acks(b, rs, cwnd, flight) ==   \* a slip: and no others
  LET r == bbr_set_cwnd_to_recover_or_restore(b, rs, cwnd, flight)
  IN  IF rs.acked_sacked = 0 THEN {[bbr |-> b, cwnd |-> cwnd]}
      ELSE {[bbr |-> r.bbr, cwnd |-> IF b.mode = "PROBE_RTT" THEN MinTarget
                                     ELSE MinOf(target, Clamp)] :
              target \in Targets}

(* Towards the target window, at most as fast as packets are ACKed.  Until *)
(* ten packets are delivered the window grows beyond it too, as it does    *)
(* below a larger target.                                                  *)
Approach(b, cwnd, acked) ==
  {MaxOf(IF b.full_bw_reached THEN MinOf(cwnd + acked, target)
         ELSE IF cwnd < target THEN cwnd + acked ELSE cwnd, MinTarget) :
     target \in Targets}

bbr_set_cwnd(b, rs, cwnd, flight) ==
  LET r    == IF rs.acked_sacked = 0 THEN [bbr |-> b, cwnd |-> cwnd]
              ELSE bbr_set_cwnd_to_recover_or_restore(b, rs, cwnd, flight)
      news == IF rs.acked_sacked = 0 THEN {cwnd}
              ELSE IF r.bbr.packet_conservation
              THEN {MaxOf(r.cwnd, flight + rs.acked_sacked)}
              ELSE Approach(r.bbr, r.cwnd, rs.acked_sacked)
      cap  == IF b.mode = "PROBE_RTT" THEN MinOf(MinTarget, Clamp) ELSE Clamp
  IN  {[bbr |-> r.bbr, cwnd |-> MinOf(new, cap)] : new \in news}

----------------------------------------------------------------------------
(* History.                                                                *)

(* The window is, or may be, below what the path can take.                 *)
Cut == ca_state \in Losing \/ bbr.prev_ca_state \in Losing
         \/ bbr.mode = "PROBE_RTT"

(* begun is the window to come back to from a cut that starts here.        *)
Remember(begun) == good' = IF ~Cut' THEN 0 ELSE IF Cut THEN good ELSE begun

CountFlat(rs, round, grown) ==
  flat' = IF bbr.full_bw_reached \/ grown THEN 0
          ELSE IF ~round \/ rs.is_app_limited THEN flat
          ELSE MinOf(flat + 1, FullBwCnt)

----------------------------------------------------------------------------
(* The hooks.                                                              *)

Init ==
  /\ bbr = [mode |-> "STARTUP", full_bw_reached |-> FALSE, full_bw |-> 0,
            full_bw_cnt |-> 0, prev_ca_state |-> "Open",
            packet_conservation |-> FALSE, idle_restart |-> FALSE,
            probe_rtt_done_stamp |-> "unset", probe_rtt_round_done |-> FALSE,
            min_rtt_stale |-> FALSE, prior_cwnd |-> 0]
  /\ snd_cwnd \in 1..Clamp
  /\ ca_state \in CaStates
  /\ good = 0 /\ flat = 0

(* An ACK.                                                                 *)
bbr_main(rs, round, grown, flight) ==
  /\ round => rs.valid
  /\ grown => round /\ ~rs.is_app_limited /\ ~bbr.full_bw_reached
  /\ \E b \in bbr_check_full_bw_reached(bbr_update_bw(bbr, rs, round),
                                       rs, round, grown) :
     \E c \in bbr_check_drain(b) :
     \E s \in bbr_update_min_rtt(c, rs, round, flight, snd_cwnd) :
     \E w \in bbr_set_cwnd(s.bbr, rs, s.cwnd, flight) :
        bbr' = w.bbr /\ snd_cwnd' = w.cwnd
  /\ UNCHANGED ca_state
  /\ Remember(snd_cwnd)
  /\ CountFlat(rs, round, grown)

Ack == \E rs \in RateSample, round, grown \in BOOLEAN, flight \in Flights :
         bbr_main(rs, round, grown, flight)

(* Sending starts again after an idle period.                              *)
bbr_cwnd_event ==
  /\ LET b == [bbr EXCEPT !.idle_restart = TRUE]
         s == IF b.mode = "PROBE_RTT"
              THEN bbr_check_probe_rtt_done(b, snd_cwnd)
              ELSE [bbr |-> b, cwnd |-> snd_cwnd]
     IN  bbr' = s.bbr /\ snd_cwnd' = s.cwnd
  /\ UNCHANGED <<ca_state, flat>>
  /\ Remember(snd_cwnd)

bbr_ssthresh(b) == bbr_save_cwnd(b, snd_cwnd)

bbr_undo_cwnd == [bbr EXCEPT !.full_bw = 0, !.full_bw_cnt = 0]

set_state_keeps_baseline(b) ==   \* a slip: the bandwidth before the timeout
  [b EXCEPT !.prev_ca_state = "Loss"]

bbr_set_state_Loss(b) ==
  [b EXCEPT !.prev_ca_state = "Loss", !.full_bw = 0]

----------------------------------------------------------------------------
(* The kernel's steps.                                                     *)

(* Congestion is signalled.                                                *)
EnterCWR ==
  /\ ca_state = "Open"
  /\ bbr' = bbr_ssthresh(bbr)
  /\ UNCHANGED <<snd_cwnd, ca_state, good, flat>>

(* A loss, or the loss of a retransmission, is detected.  In CWR a         *)
(* reduction is under way and its threshold is kept: no hook is called.    *)
EnterRecovery(fresh) ==
  /\ ca_state # "Recovery"
  /\ fresh \/ ca_state = "Open"
  /\ ca_state' = "Recovery"
  /\ bbr' = IF fresh THEN bbr_ssthresh(bbr) ELSE bbr
  /\ UNCHANGED <<snd_cwnd, flat>>
  /\ Remember(IF fresh THEN snd_cwnd ELSE 0)

(* A timeout that starts a new episode asks for a threshold; then the      *)
(* window is cut, then the state is set.                                   *)
EnterLoss(fresh) ==
  /\ ca_state' = "Loss"
  /\ bbr' = bbr_set_state_Loss(IF fresh THEN bbr_ssthresh(bbr) ELSE bbr)
  /\ snd_cwnd' \in 1..snd_cwnd
  /\ flat' = 0
  /\ Remember(IF fresh THEN snd_cwnd ELSE 0)

ExitReduction ==
  /\ ca_state # "Open" /\ ca_state' = "Open"
  /\ UNCHANGED <<bbr, snd_cwnd, flat>>
  /\ Remember(0)

(* The loss was spurious.  The hook returns the window as it is.           *)
Undo ==
  /\ ca_state' = "Open"
  /\ bbr' = bbr_undo_cwnd
  /\ flat' = 0
  /\ UNCHANGED snd_cwnd
  /\ Remember(0)

(* Time passes: ten seconds without a lower round-trip time, 200 ms of a   *)
(* dip.                                                                    *)
MinRttExpires ==
  /\ bbr' = [bbr EXCEPT !.min_rtt_stale = TRUE]
  /\ UNCHANGED <<snd_cwnd, ca_state, good, flat>>

ProbeRttTimePasses ==
  /\ bbr.probe_rtt_done_stamp = "running"
  /\ bbr' = [bbr EXCEPT !.probe_rtt_done_stamp = "passed"]
  /\ UNCHANGED <<snd_cwnd, ca_state, good, flat>>

Kernel ==
  \/ EnterCWR
  \/ \E fresh \in BOOLEAN : EnterRecovery(fresh) \/ EnterLoss(fresh)
  \/ ExitReduction
  \/ Undo
  \/ MinRttExpires
  \/ ProbeRttTimePasses

Next == Ack \/ bbr_cwnd_event \/ Kernel

Spec == Init /\ [][Next]_vars

(* In a dip the window is at most MinTarget packets, so a busy sender's    *)
(* flight drains to that, and ACKs that start a round keep coming; their   *)
(* samples count as application-limited.                                   *)
DrainedAck ==
  /\ bbr.mode = "PROBE_RTT"
  /\ \E rs \in RateSample, flight \in Flights :
       /\ rs.is_app_limited /\ flight <= MinTarget
       /\ bbr_main(rs, TRUE, FALSE, flight)

FairSpec == Spec /\ WF_vars(DrainedAck) /\ WF_vars(ProbeRttTimePasses)

----------------------------------------------------------------------------
(* The mode machine is the abstract one: a full pipe is never forgotten,   *)
(* no timeout or idle restart moves a mode backwards, and every dip starts *)
(* from a stale estimate and ends with a fresh one.                        *)
Abstract == INSTANCE BbrModes WITH
              mode  <- bbr.mode,
              full  <- bbr.full_bw_reached,
              stale <- bbr.min_rtt_stale

ImplementsBbrModes == Abstract!Spec

(* While BBR dips to measure the round-trip time, the window never exceeds *)
(* four packets, whatever the losses, undos and recoveries of the dip do.  *)
DipIsShallow == bbr.mode = "PROBE_RTT" => snd_cwnd <= MinTarget

(* While the window is cut, by losses, by a dip or by one inside the       *)
(* other, prior_cwnd remembers a window at least as large as the one the   *)
(* path carried when the cut began.                                        *)
GoodWindowSaved == Cut => bbr.prior_cwnd >= good

(* When the last cut ends the window comes back: to what it was when the   *)
(* first cut began, less what the same ACK reports lost, or to the target  *)
(* of a full pipe.                                                         *)
GivesWindowBack ==
  [][Cut /\ ~Cut' =>
       \/ snd_cwnd' >= good - MaxLost
       \/ /\ bbr'.full_bw_reached
          /\ \E t \in Targets : snd_cwnd' = MinOf(t, Clamp)]_vars

(* Sending only as much as is ACKed is for loss recovery: the brake never  *)
(* outlives the episode it was pulled in.                                  *)
ConservationOnlyInRecovery ==
  bbr.packet_conservation => bbr.prev_ca_state \in Losing

(* The pipe is found full only after FullBwCnt rounds in a row that        *)
(* brought no growth; a timeout or an undo in between starts the count     *)
(* again.                                                                  *)
FullPipeNeedsFlatRounds ==
  [][bbr'.full_bw_reached /\ ~bbr.full_bw_reached => flat' = FullBwCnt]_vars

(* Every dip ends.                                                         *)
DipEnds == bbr.mode = "PROBE_RTT" ~> bbr.mode # "PROBE_RTT"
=============================================================================
