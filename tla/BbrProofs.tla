------------------------------ MODULE BbrProofs -----------------------------
(***************************************************************************)
(* Proofs about Bbr for all windows, targets and flights.  An ACK is a     *)
(* chain of stages; for each stage a lemma says which fields it leaves     *)
(* alone and what it may do to the others.  Then about BbrGains, for every *)
(* length of the gain cycle, every unit and every sampling interval, and   *)
(* about BbrAggr, for every length of its window and width of its slots.   *)
(***************************************************************************)
EXTENDS Bbr, BbrGains, BbrAggr, TLAPS

(* What a stage may leave alone.                                           *)
KeepsPipe(b, c) ==
  /\ c.full_bw_reached = b.full_bw_reached
  /\ c.full_bw = b.full_bw /\ c.full_bw_cnt = b.full_bw_cnt

KeepsLosses(b, c) ==
  /\ c.prev_ca_state = b.prev_ca_state
  /\ c.packet_conservation = b.packet_conservation

KeepsDip(b, c) ==
  /\ c.mode = b.mode
  /\ c.min_rtt_stale = b.min_rtt_stale
  /\ c.probe_rtt_done_stamp = b.probe_rtt_done_stamp
  /\ c.prior_cwnd = b.prior_cwnd

(* The count of flat rounds is below its limit until the pipe is full.     *)
CountLow(b) == ~b.full_bw_reached => b.full_bw_cnt < FullBwCnt

LEMMA SaveCwnd ==
  ASSUME NEW b \in BbrStruct, NEW cwnd \in 1..Clamp
  PROVE  /\ bbr_save_cwnd(b, cwnd) \in BbrStruct
         /\ KeepsPipe(b, bbr_save_cwnd(b, cwnd))
         /\ KeepsLosses(b, bbr_save_cwnd(b, cwnd))
         /\ bbr_save_cwnd(b, cwnd).mode = b.mode
         /\ bbr_save_cwnd(b, cwnd).min_rtt_stale = b.min_rtt_stale
         /\ bbr_save_cwnd(b, cwnd).prior_cwnd >= cwnd
         /\ b.prev_ca_state \in Losing \/ b.mode = "PROBE_RTT"
              => bbr_save_cwnd(b, cwnd).prior_cwnd >= b.prior_cwnd
BY BbrAssumption DEF bbr_save_cwnd, BbrStruct, KeepsPipe, KeepsLosses, MaxOf,
   CaStates, Losing, Modes, Timers

LEMMA UpdateBw ==
  ASSUME NEW b \in BbrStruct, NEW rs \in RateSample, NEW round \in BOOLEAN
  PROVE  LET c == bbr_update_bw(b, rs, round)
         IN  /\ c \in BbrStruct
             /\ KeepsPipe(b, c) /\ KeepsDip(b, c)
             /\ c.prev_ca_state = b.prev_ca_state
             /\ c.packet_conservation => b.packet_conservation
BY DEF bbr_update_bw, BbrStruct, KeepsPipe, KeepsDip

LEMMA SetPipe ==
  ASSUME NEW b \in BbrStruct, NEW n \in 0..FullBwCnt
  PROVE  /\ \A w \in {0, 1} :
              [b EXCEPT !.full_bw = w, !.full_bw_cnt = n] \in BbrStruct
         /\ \A r \in BOOLEAN :
              [b EXCEPT !.full_bw_cnt = n, !.full_bw_reached = r] \in BbrStruct
BY DEF BbrStruct

LEMMA CheckFull ==
  ASSUME NEW b \in BbrStruct, CountLow(b),
         NEW rs \in RateSample, NEW round \in BOOLEAN, NEW grown \in BOOLEAN,
         NEW c \in bbr_check_full_bw_reached(b, rs, round, grown)
  PROVE  /\ c \in BbrStruct /\ CountLow(c)
         /\ KeepsLosses(b, c) /\ KeepsDip(b, c)
         /\ b.full_bw_reached => c.full_bw_reached
<1>1. FullBwCnt \in Nat /\ 0 \in 0..FullBwCnt /\ 0 < FullBwCnt
  BY BbrAssumption
<1>2. \/ c = b
      \/ \E w \in {0, 1} : c = [b EXCEPT !.full_bw = w, !.full_bw_cnt = 0]
      \/ /\ ~b.full_bw_reached
         /\ c = [b EXCEPT !.full_bw_cnt = b.full_bw_cnt + 1,
                         !.full_bw_reached = b.full_bw_cnt + 1 >= FullBwCnt]
  BY DEF bbr_check_full_bw_reached, BbrStruct
<1>3. CASE c = b
  BY <1>3 DEF KeepsLosses, KeepsDip
<1>4. ASSUME NEW w \in {0, 1}, c = [b EXCEPT !.full_bw = w, !.full_bw_cnt = 0]
      PROVE  /\ c \in BbrStruct /\ CountLow(c)
             /\ KeepsLosses(b, c) /\ KeepsDip(b, c)
             /\ b.full_bw_reached => c.full_bw_reached
  <2>1. c \in BbrStruct
    BY <1>1, <1>4, SetPipe
  <2>2. KeepsLosses(b, c) /\ KeepsDip(b, c)
    BY <1>4 DEF KeepsLosses, KeepsDip, BbrStruct
  <2>3. c.full_bw_reached = b.full_bw_reached /\ c.full_bw_cnt = 0
    BY <1>4 DEF BbrStruct
  <2> QED
    BY <1>1, <2>1, <2>2, <2>3 DEF CountLow
<1>5. CASE /\ ~b.full_bw_reached
           /\ c = [b EXCEPT !.full_bw_cnt = b.full_bw_cnt + 1,
                           !.full_bw_reached = b.full_bw_cnt + 1 >= FullBwCnt]
  <2>1. b.full_bw_cnt \in Nat /\ b.full_bw_cnt + 1 \in 0..FullBwCnt
    BY <1>1, <1>5 DEF CountLow, BbrStruct
  <2> DEFINE r == b.full_bw_cnt + 1 >= FullBwCnt
  <2> r \in BOOLEAN
    OBVIOUS
  <2> HIDE DEF r
  <2>2. c \in BbrStruct
    BY <1>5, <2>1, SetPipe DEF r
  <2>3. KeepsLosses(b, c) /\ KeepsDip(b, c)
    BY <1>5 DEF KeepsLosses, KeepsDip, BbrStruct
  <2>4. c.full_bw_reached = r /\ c.full_bw_cnt = b.full_bw_cnt + 1
    BY <1>5 DEF BbrStruct, r
  <2>5. ~r => b.full_bw_cnt + 1 < FullBwCnt
    BY <1>1, <2>1 DEF r
  <2> QED
    BY <1>5, <2>2, <2>3, <2>4, <2>5 DEF CountLow
<1> QED
  BY <1>2, <1>3, <1>4, <1>5

LEMMA CheckDrain ==
  ASSUME NEW b \in BbrStruct, NEW c \in bbr_check_drain(b)
  PROVE  /\ c \in BbrStruct
         /\ KeepsPipe(b, c) /\ KeepsLosses(b, c)
         /\ c.min_rtt_stale = b.min_rtt_stale
         /\ c.probe_rtt_done_stamp = b.probe_rtt_done_stamp
         /\ c.prior_cwnd = b.prior_cwnd
         /\ c.mode \in Abstract!Forward(b.mode, b.full_bw_reached)
BY DEF bbr_check_drain, BbrStruct, KeepsPipe, KeepsLosses, Abstract!Forward, Modes

LEMMA ResetMode ==
  ASSUME NEW b \in BbrStruct
  PROVE  /\ bbr_reset_mode(b) \in BbrStruct
         /\ KeepsPipe(b, bbr_reset_mode(b)) /\ KeepsLosses(b, bbr_reset_mode(b))
         /\ bbr_reset_mode(b).min_rtt_stale = b.min_rtt_stale
         /\ bbr_reset_mode(b).prior_cwnd = b.prior_cwnd
         /\ bbr_reset_mode(b).mode =
              IF b.full_bw_reached THEN "PROBE_BW" ELSE "STARTUP"
BY DEF bbr_reset_mode, BbrStruct, KeepsPipe, KeepsLosses, Modes

(* A dip is over or it is not; it gives the window back when it is.        *)
DipOver(b, c, cwnd, new) ==
  /\ c.mode = IF b.full_bw_reached THEN "PROBE_BW" ELSE "STARTUP"
  /\ c.min_rtt_stale = FALSE
  /\ c.prior_cwnd = b.prior_cwnd
  /\ new \in 1..Clamp /\ new >= b.prior_cwnd /\ new >= cwnd

LEMMA ProbeRttDone ==
  ASSUME NEW b \in BbrStruct, NEW cwnd \in 1..Clamp
  PROVE  LET s == bbr_check_probe_rtt_done(b, cwnd)
         IN  /\ s.bbr \in BbrStruct
             /\ KeepsPipe(b, s.bbr) /\ KeepsLosses(b, s.bbr)
             /\ \/ KeepsDip(b, s.bbr) /\ s.cwnd = cwnd
                \/ DipOver(b, s.bbr, cwnd, s.cwnd)
<1> DEFINE s == bbr_check_probe_rtt_done(b, cwnd)
           d == [b EXCEPT !.min_rtt_stale = FALSE]
<1>1. CASE b.probe_rtt_done_stamp # "passed"
  <2>1. s.bbr = b /\ s.cwnd = cwnd
    BY <1>1 DEF bbr_check_probe_rtt_done
  <2> QED
    BY <2>1 DEF KeepsPipe, KeepsLosses, KeepsDip
<1>2. CASE b.probe_rtt_done_stamp = "passed"
  <2>1. s.bbr = bbr_reset_mode(d) /\ s.cwnd = MaxOf(cwnd, b.prior_cwnd)
    BY <1>2 DEF bbr_check_probe_rtt_done
  <2>2. /\ d \in BbrStruct
        /\ KeepsPipe(b, d) /\ KeepsLosses(b, d)
        /\ d.prior_cwnd = b.prior_cwnd /\ d.min_rtt_stale = FALSE
    BY DEF BbrStruct, KeepsPipe, KeepsLosses
  <2>3. /\ s.bbr \in BbrStruct
        /\ KeepsPipe(d, s.bbr) /\ KeepsLosses(d, s.bbr)
        /\ s.bbr.min_rtt_stale = d.min_rtt_stale
        /\ s.bbr.prior_cwnd = d.prior_cwnd
        /\ s.bbr.mode = IF d.full_bw_reached THEN "PROBE_BW" ELSE "STARTUP"
    BY <2>1, <2>2, ResetMode
  <2>4. KeepsPipe(b, s.bbr) /\ KeepsLosses(b, s.bbr)
    BY <2>2, <2>3 DEF KeepsPipe, KeepsLosses
  <2>5. b.prior_cwnd \in 0..Clamp
    BY DEF BbrStruct
  <2>6. /\ MaxOf(cwnd, b.prior_cwnd) \in 1..Clamp
        /\ MaxOf(cwnd, b.prior_cwnd) >= b.prior_cwnd
        /\ MaxOf(cwnd, b.prior_cwnd) >= cwnd
    BY <2>5, BbrAssumption DEF MaxOf
  <2>7. DipOver(b, s.bbr, cwnd, s.cwnd)
    BY <2>1, <2>2, <2>3, <2>6 DEF DipOver, KeepsPipe
  <2> QED
    BY <2>3, <2>4, <2>7
<1> QED
  BY <1>1, <1>2

LEMMA EnterProbeRtt ==
  ASSUME NEW b \in BbrStruct, NEW cwnd \in 1..Clamp,
         NEW c \in bbr_enter_probe_rtt(b, cwnd)
  PROVE  /\ c \in BbrStruct
         /\ KeepsPipe(b, c) /\ KeepsLosses(b, c)
         /\ c.min_rtt_stale \in {FALSE, b.min_rtt_stale}
         /\ \/ /\ c.mode = b.mode /\ c.prior_cwnd = b.prior_cwnd
               /\ c.probe_rtt_done_stamp = b.probe_rtt_done_stamp
            \/ /\ b.min_rtt_stale /\ b.mode # "PROBE_RTT"
               /\ c.mode = "PROBE_RTT" /\ c.probe_rtt_done_stamp = "unset"
               /\ c.prior_cwnd >= cwnd /\ c.prior_cwnd >= b.prior_cwnd
<1> DEFINE d == [b EXCEPT !.mode = "PROBE_RTT"]
           e == bbr_save_cwnd(d, cwnd)
           f == [e EXCEPT !.probe_rtt_done_stamp = "unset"]
<1>1. PICK left \in {FALSE, b.min_rtt_stale} :
        \/ c = [b EXCEPT !.min_rtt_stale = left]
        \/ /\ b.min_rtt_stale /\ b.mode # "PROBE_RTT"
           /\ c = [f EXCEPT !.min_rtt_stale = left]
  BY DEF bbr_enter_probe_rtt
<1>2. left \in BOOLEAN /\ b.prior_cwnd \in 0..Clamp
  BY DEF BbrStruct
<1>3. CASE c = [b EXCEPT !.min_rtt_stale = left]
  BY <1>2, <1>3 DEF BbrStruct, KeepsPipe, KeepsLosses
<1>4. CASE /\ b.min_rtt_stale /\ b.mode # "PROBE_RTT"
           /\ c = [f EXCEPT !.min_rtt_stale = left]
  <2>1. /\ d \in BbrStruct /\ KeepsPipe(b, d) /\ KeepsLosses(b, d)
        /\ d.mode = "PROBE_RTT" /\ d.prior_cwnd = b.prior_cwnd
    BY DEF BbrStruct, KeepsPipe, KeepsLosses, Modes
  <2>2. /\ e \in BbrStruct /\ KeepsPipe(d, e) /\ KeepsLosses(d, e)
        /\ e.mode = "PROBE_RTT"
        /\ e.prior_cwnd >= cwnd /\ e.prior_cwnd >= b.prior_cwnd
    BY <2>1, SaveCwnd
  <2> HIDE DEF e
  <2>3. /\ f \in BbrStruct /\ KeepsPipe(e, f) /\ KeepsLosses(e, f)
        /\ f.mode = e.mode /\ f.prior_cwnd = e.prior_cwnd
        /\ f.probe_rtt_done_stamp = "unset"
    BY <2>2 DEF BbrStruct, KeepsPipe, KeepsLosses, Timers
  <2> HIDE DEF f
  <2>4. /\ c \in BbrStruct /\ KeepsPipe(f, c) /\ KeepsLosses(f, c)
        /\ c.mode = f.mode /\ c.prior_cwnd = f.prior_cwnd
        /\ c.probe_rtt_done_stamp = f.probe_rtt_done_stamp
        /\ c.min_rtt_stale = left
    BY <1>2, <1>4, <2>3 DEF BbrStruct, KeepsPipe, KeepsLosses
  <2>5. KeepsPipe(b, c) /\ KeepsLosses(b, c)
    BY <2>1, <2>2, <2>3, <2>4 DEF KeepsPipe, KeepsLosses
  <2> QED
    BY <1>4, <2>2, <2>3, <2>4, <2>5
<1> QED
  BY <1>1, <1>3, <1>4

LEMMA StayInProbeRtt ==
  ASSUME NEW b \in BbrStruct, NEW cwnd \in 1..Clamp, NEW round \in BOOLEAN,
         NEW flight \in Nat
  PROVE  LET s == bbr_stay_in_probe_rtt(b, round, flight, cwnd)
         IN  /\ s.bbr \in BbrStruct
             /\ KeepsPipe(b, s.bbr) /\ KeepsLosses(b, s.bbr)
             /\ \/ /\ s.bbr.mode = b.mode
                   /\ s.bbr.min_rtt_stale = b.min_rtt_stale
                   /\ s.bbr.prior_cwnd = b.prior_cwnd
                   /\ s.cwnd = cwnd
                \/ /\ b.mode = "PROBE_RTT" /\ b.probe_rtt_done_stamp # "unset"
                   /\ DipOver(b, s.bbr, cwnd, s.cwnd)
<1> DEFINE s     == bbr_stay_in_probe_rtt(b, round, flight, cwnd)
           start == [b EXCEPT !.probe_rtt_done_stamp = "running",
                              !.probe_rtt_round_done = FALSE]
           on    == [b EXCEPT !.probe_rtt_round_done = @ \/ round]
           over  == bbr_check_probe_rtt_done(on, cwnd)
<1>1. /\ start \in BbrStruct /\ KeepsPipe(b, start) /\ KeepsLosses(b, start)
      /\ start.mode = b.mode /\ start.min_rtt_stale = b.min_rtt_stale
      /\ start.prior_cwnd = b.prior_cwnd
  BY DEF BbrStruct, KeepsPipe, KeepsLosses, Timers
<1>2. /\ on \in BbrStruct /\ KeepsPipe(b, on) /\ KeepsLosses(b, on)
      /\ KeepsDip(b, on)
  BY DEF BbrStruct, KeepsPipe, KeepsLosses, KeepsDip
<1>3. \/ s.bbr \in {b, start, on} /\ s.cwnd = cwnd
      \/ b.mode = "PROBE_RTT" /\ b.probe_rtt_done_stamp # "unset" /\ s = over
  BY DEF bbr_stay_in_probe_rtt
<1> HIDE DEF s, start, on
<1>4. CASE s.bbr \in {b, start, on} /\ s.cwnd = cwnd
  BY <1>1, <1>2, <1>4 DEF KeepsPipe, KeepsLosses, KeepsDip, s
<1>5. CASE b.mode = "PROBE_RTT" /\ b.probe_rtt_done_stamp # "unset" /\ s = over
  <2>1. /\ over.bbr \in BbrStruct
        /\ KeepsPipe(on, over.bbr) /\ KeepsLosses(on, over.bbr)
        /\ \/ KeepsDip(on, over.bbr) /\ over.cwnd = cwnd
           \/ DipOver(on, over.bbr, cwnd, over.cwnd)
    BY <1>2, ProbeRttDone
  <2> HIDE DEF over
  <2>2. KeepsPipe(b, over.bbr) /\ KeepsLosses(b, over.bbr)
    BY <1>2, <2>1 DEF KeepsPipe, KeepsLosses
  <2>3. KeepsDip(on, over.bbr) => KeepsDip(b, over.bbr)
    BY <1>2 DEF KeepsDip
  <2>4. DipOver(on, over.bbr, cwnd, over.cwnd)
          => DipOver(b, over.bbr, cwnd, over.cwnd)
    BY <1>2 DEF DipOver, KeepsDip, KeepsPipe
  <2> QED
    BY <1>5, <2>1, <2>2, <2>3, <2>4 DEF KeepsDip, s
<1> QED
  BY <1>3, <1>4, <1>5

(* What the estimate of the round-trip time does to an ACK: the mode stays, *)
(* a dip begins, or one is over.                                           *)
DipBegins(b, c, cwnd, new) ==
  /\ b.min_rtt_stale /\ b.mode # "PROBE_RTT" /\ c.mode = "PROBE_RTT"
  /\ c.min_rtt_stale \in BOOLEAN
  /\ c.prior_cwnd >= cwnd /\ c.prior_cwnd >= b.prior_cwnd
  /\ new = cwnd

ModeStays(b, c, cwnd, new) ==
  /\ c.mode = b.mode
  /\ c.min_rtt_stale \in {FALSE, b.min_rtt_stale}
  /\ c.prior_cwnd = b.prior_cwnd
  /\ new = cwnd

LEMMA UpdateMinRtt ==
  ASSUME NEW b \in BbrStruct, NEW cwnd \in 1..Clamp, NEW round \in BOOLEAN,
         NEW flight \in Nat, NEW rs \in RateSample,
         NEW s \in bbr_update_min_rtt(b, rs, round, flight, cwnd)
  PROVE  /\ s.bbr \in BbrStruct
         /\ KeepsPipe(b, s.bbr) /\ KeepsLosses(b, s.bbr)
         /\ \/ ModeStays(b, s.bbr, cwnd, s.cwnd)
            \/ DipBegins(b, s.bbr, cwnd, s.cwnd)
            \/ b.mode = "PROBE_RTT" /\ DipOver(b, s.bbr, cwnd, s.cwnd)
<1>1. PICK c \in bbr_enter_probe_rtt(b, cwnd) :
        s = [bbr_stay_in_probe_rtt(c, round, flight, cwnd)
               EXCEPT !.bbr.idle_restart = @ /\ rs.delivered = 0]
  BY DEF bbr_update_min_rtt
<1> DEFINE t == bbr_stay_in_probe_rtt(c, round, flight, cwnd)
<1>2. /\ c \in BbrStruct
      /\ KeepsPipe(b, c) /\ KeepsLosses(b, c)
      /\ c.min_rtt_stale \in {FALSE, b.min_rtt_stale}
      /\ \/ /\ c.mode = b.mode /\ c.prior_cwnd = b.prior_cwnd
            /\ c.probe_rtt_done_stamp = b.probe_rtt_done_stamp
         \/ /\ b.min_rtt_stale /\ b.mode # "PROBE_RTT"
            /\ c.mode = "PROBE_RTT" /\ c.probe_rtt_done_stamp = "unset"
            /\ c.prior_cwnd >= cwnd /\ c.prior_cwnd >= b.prior_cwnd
  BY EnterProbeRtt
<1>3. /\ t.bbr \in BbrStruct
      /\ KeepsPipe(c, t.bbr) /\ KeepsLosses(c, t.bbr)
      /\ \/ /\ t.bbr.mode = c.mode
            /\ t.bbr.min_rtt_stale = c.min_rtt_stale
            /\ t.bbr.prior_cwnd = c.prior_cwnd
            /\ t.cwnd = cwnd
         \/ /\ c.mode = "PROBE_RTT" /\ c.probe_rtt_done_stamp # "unset"
            /\ DipOver(c, t.bbr, cwnd, t.cwnd)
  BY <1>2, StayInProbeRtt
<1>4. \E i \in BOOLEAN : /\ s.bbr = [t.bbr EXCEPT !.idle_restart = i]
                         /\ s.cwnd = t.cwnd
  <2>1. t.bbr.idle_restart \in BOOLEAN
    BY <1>3 DEF BbrStruct
  <2>2. \E x, y : t = [bbr |-> x, cwnd |-> y]
    BY DEF bbr_stay_in_probe_rtt, bbr_check_probe_rtt_done
  <2> QED
    BY <1>1, <2>1, <2>2
<1> HIDE DEF t
<1>5. /\ s.bbr \in BbrStruct /\ KeepsPipe(t.bbr, s.bbr)
      /\ KeepsLosses(t.bbr, s.bbr) /\ KeepsDip(t.bbr, s.bbr)
      /\ s.cwnd = t.cwnd
  BY <1>3, <1>4 DEF BbrStruct, KeepsPipe, KeepsLosses, KeepsDip
<1>6. KeepsPipe(b, s.bbr) /\ KeepsLosses(b, s.bbr)
  BY <1>2, <1>3, <1>5 DEF KeepsPipe, KeepsLosses
<1>7. b.min_rtt_stale \in BOOLEAN
  BY DEF BbrStruct
<1>8. CASE /\ t.bbr.mode = c.mode
           /\ t.bbr.min_rtt_stale = c.min_rtt_stale
           /\ t.bbr.prior_cwnd = c.prior_cwnd
           /\ t.cwnd = cwnd
  BY <1>2, <1>5, <1>6, <1>7, <1>8 DEF KeepsDip, ModeStays, DipBegins
<1>9. CASE /\ c.mode = "PROBE_RTT" /\ c.probe_rtt_done_stamp # "unset"
           /\ DipOver(c, t.bbr, cwnd, t.cwnd)
  <2>1. c.mode = b.mode /\ c.prior_cwnd = b.prior_cwnd
    BY <1>2, <1>9
  <2>2. DipOver(b, s.bbr, cwnd, s.cwnd)
    BY <1>2, <1>5, <1>9, <2>1 DEF DipOver, KeepsDip, KeepsPipe
  <2> QED
    BY <1>5, <1>6, <1>9, <2>1, <2>2
<1> QED
  BY <1>3, <1>8, <1>9

LEMMA Recover ==
  ASSUME NEW b \in BbrStruct, NEW cwnd \in 1..Clamp, NEW flight \in Nat,
         NEW rs \in RateSample, rs.acked_sacked > 0, ca_state \in CaStates,
         b.packet_conservation => b.prev_ca_state \in Losing
  PROVE  LET r == bbr_set_cwnd_to_recover_or_restore(b, rs, cwnd, flight)
         IN  /\ r.bbr \in BbrStruct
             /\ KeepsPipe(b, r.bbr) /\ KeepsDip(b, r.bbr)
             /\ r.bbr.prev_ca_state = ca_state
             /\ r.bbr.packet_conservation => ca_state \in Losing
             /\ r.cwnd \in Nat /\ r.cwnd >= 1
             /\ ca_state \notin Losing =>
                  r.cwnd >= IF b.prev_ca_state \in Losing THEN b.prior_cwnd
                            ELSE cwnd - MaxLost
<1> DEFINE r == bbr_set_cwnd_to_recover_or_restore(b, rs, cwnd, flight)
<1>1. /\ rs.losses \in Nat /\ rs.losses <= MaxLost
      /\ rs.acked_sacked \in Nat /\ MaxLost \in Nat /\ Clamp \in Nat
  BY BbrAssumption DEF RateSample
<1>2. b.prior_cwnd \in 0..Clamp /\ b.packet_conservation \in BOOLEAN
  BY DEF BbrStruct
<1>3. /\ r.bbr \in BbrStruct
      /\ KeepsPipe(b, r.bbr) /\ KeepsDip(b, r.bbr)
      /\ r.bbr.prev_ca_state = ca_state
      /\ r.bbr.packet_conservation
           = (Entered(b) \/ (b.packet_conservation /\ ~Left(b)))
  BY <1>2 DEF bbr_set_cwnd_to_recover_or_restore, BbrStruct, KeepsPipe,
     KeepsDip, Entered, Left
<1>4. r.bbr.packet_conservation => ca_state \in Losing
  BY <1>3 DEF Entered, Left, Losing
<1>5. r.cwnd = restored_cwnd(b, rs, cwnd, flight)
  BY DEF bbr_set_cwnd_to_recover_or_restore
<1>6. /\ MaxOf(cwnd - rs.losses, 1) \in Nat /\ MaxOf(cwnd - rs.losses, 1) >= 1
      /\ MaxOf(cwnd - rs.losses, 1) >= cwnd - MaxLost
  BY <1>1 DEF MaxOf
<1>7. restored_cwnd(b, rs, cwnd, flight) \in Nat
      /\ restored_cwnd(b, rs, cwnd, flight) >= 1
  BY <1>1, <1>2, <1>6 DEF restored_cwnd, MaxOf
<1>8. ca_state \notin Losing =>
        restored_cwnd(b, rs, cwnd, flight)
          >= IF b.prev_ca_state \in Losing THEN b.prior_cwnd ELSE cwnd - MaxLost
  BY <1>1, <1>2, <1>6 DEF restored_cwnd, MaxOf, Entered, Left, Losing
<1> QED
  BY <1>3, <1>4, <1>5, <1>7, <1>8

(* A window that is worth giving back survives the way to the target.      *)
Restored(b, new, base) ==
  \/ new >= base
  \/ b.full_bw_reached /\ \E t \in Targets : new = MinOf(t, Clamp)

LEMMA ApproachKeeps ==
  ASSUME NEW b \in BbrStruct, NEW cwnd \in Nat, cwnd >= 1, NEW acked \in Nat,
         NEW new \in Approach(b, cwnd, acked)
  PROVE  /\ new \in Nat /\ new >= 1
         /\ new >= cwnd \/ (b.full_bw_reached /\ new \in Targets)
<1>1. PICK target \in Targets :
        new = MaxOf(IF b.full_bw_reached THEN MinOf(cwnd + acked, target)
                    ELSE IF cwnd < target THEN cwnd + acked ELSE cwnd, MinTarget)
  BY DEF Approach
<1>2. target \in Nat /\ target >= MinTarget /\ MinTarget \in Nat /\ MinTarget >= 1
  BY BbrAssumption
<1>3. CASE b.full_bw_reached
  <2>1. new = MaxOf(MinOf(cwnd + acked, target), MinTarget)
    BY <1>1, <1>3
  <2>2. \/ new >= cwnd \/ new = target
    BY <1>2, <2>1 DEF MaxOf, MinOf
  <2>3. new \in Nat /\ new >= 1
    BY <1>2, <2>1 DEF MaxOf, MinOf
  <2> QED
    BY <1>3, <2>2, <2>3
<1>4. CASE ~b.full_bw_reached
  <2>1. new = MaxOf(IF cwnd < target THEN cwnd + acked ELSE cwnd, MinTarget)
    BY <1>1, <1>4
  <2> QED
    BY <1>2, <2>1 DEF MaxOf
<1> QED
  BY <1>3, <1>4

LEMMA SetCwnd ==
  ASSUME NEW b \in BbrStruct, NEW cwnd \in 1..Clamp, NEW flight \in Nat,
         NEW rs \in RateSample, ca_state \in CaStates,
         b.packet_conservation => b.prev_ca_state \in Losing,
         NEW w \in bbr_set_cwnd(b, rs, cwnd, flight)
  PROVE  /\ w.bbr \in BbrStruct /\ w.cwnd \in 1..Clamp
         /\ KeepsPipe(b, w.bbr) /\ KeepsDip(b, w.bbr)
         /\ w.bbr.packet_conservation => w.bbr.prev_ca_state \in Losing
         /\ b.mode = "PROBE_RTT" => w.cwnd <= MinTarget
         /\ \/ /\ w.bbr.prev_ca_state = b.prev_ca_state
               /\ b.mode # "PROBE_RTT" => w.cwnd = cwnd
            \/ /\ w.bbr.prev_ca_state = ca_state
               /\ ca_state \notin Losing /\ b.mode # "PROBE_RTT" =>
                    Restored(b, w.cwnd,
                             IF b.prev_ca_state \in Losing THEN b.prior_cwnd
                             ELSE cwnd - MaxLost)
<1> DEFINE r    == IF rs.acked_sacked = 0 THEN [bbr |-> b, cwnd |-> cwnd]
                   ELSE bbr_set_cwnd_to_recover_or_restore(b, rs, cwnd, flight)
           base == IF b.prev_ca_state \in Losing THEN b.prior_cwnd
                   ELSE cwnd - MaxLost
           cap  == IF b.mode = "PROBE_RTT" THEN MinOf(MinTarget, Clamp) ELSE Clamp
<1>1. /\ rs.acked_sacked \in Nat /\ MaxLost \in Nat /\ Clamp \in Nat
      /\ MinTarget \in Nat /\ MinTarget >= 1 /\ MinTarget <= Clamp
      /\ b.prior_cwnd \in Nat /\ b.prior_cwnd <= Clamp
  BY BbrAssumption DEF RateSample, BbrStruct
<1>2. cap \in 1..Clamp /\ (b.mode = "PROBE_RTT" => cap <= MinTarget)
        /\ (b.mode # "PROBE_RTT" => cap = Clamp)
  BY <1>1 DEF MinOf
<1>3. PICK new \in IF rs.acked_sacked = 0 THEN {cwnd}
                   ELSE IF r.bbr.packet_conservation
                   THEN {MaxOf(r.cwnd, flight + rs.acked_sacked)}
                   ELSE Approach(r.bbr, r.cwnd, rs.acked_sacked) :
        w = [bbr |-> r.bbr, cwnd |-> MinOf(new, cap)]
  BY DEF bbr_set_cwnd
<1>4. w.bbr = r.bbr /\ w.cwnd = MinOf(new, cap)
  BY <1>3
<1>5. base \in Int /\ base <= Clamp
  BY <1>1
<1> HIDE DEF cap
<1>6. ASSUME new \in Nat, new >= 1
      PROVE  /\ w.cwnd \in 1..Clamp
             /\ b.mode = "PROBE_RTT" => w.cwnd <= MinTarget
             /\ b.mode # "PROBE_RTT" => w.cwnd = MinOf(new, Clamp)
  BY <1>1, <1>2, <1>4, <1>6 DEF MinOf
<1>7. CASE rs.acked_sacked = 0
  <2>1. r = [bbr |-> b, cwnd |-> cwnd] /\ new = cwnd
    BY <1>3, <1>7
  <2>2. w.bbr = b
    BY <1>4, <2>1
  <2>3. MinOf(cwnd, Clamp) = cwnd
    BY <1>1 DEF MinOf
  <2> QED
    BY <1>6, <2>1, <2>2, <2>3 DEF KeepsPipe, KeepsDip
<1>8. CASE rs.acked_sacked # 0
  <2>1. r = bbr_set_cwnd_to_recover_or_restore(b, rs, cwnd, flight)
    BY <1>8
  <2>2. /\ r.bbr \in BbrStruct
        /\ KeepsPipe(b, r.bbr) /\ KeepsDip(b, r.bbr)
        /\ r.bbr.prev_ca_state = ca_state
        /\ r.bbr.packet_conservation => ca_state \in Losing
        /\ r.cwnd \in Nat /\ r.cwnd >= 1
        /\ ca_state \notin Losing => r.cwnd >= base
    BY <1>1, <1>8, <2>1, Recover
  <2> HIDE DEF r, base
  <2>3. CASE r.bbr.packet_conservation
    <3>1. new = MaxOf(r.cwnd, flight + rs.acked_sacked)
      BY <1>3, <1>8, <2>3 DEF r
    <3>2. new \in Nat /\ new >= 1
      BY <1>1, <2>2, <3>1 DEF MaxOf
    <3> QED
      BY <1>4, <1>6, <2>2, <2>3, <3>2
  <2>4. CASE ~r.bbr.packet_conservation
    <3>1. new \in Approach(r.bbr, r.cwnd, rs.acked_sacked)
      BY <1>3, <1>8, <2>4 DEF r
    <3>2. /\ new \in Nat /\ new >= 1
          /\ new >= r.cwnd \/ (r.bbr.full_bw_reached /\ new \in Targets)
      BY <1>1, <2>2, <3>1, ApproachKeeps
    <3>3. ASSUME ca_state \notin Losing, b.mode # "PROBE_RTT"
          PROVE  Restored(b, w.cwnd, base)
      <4>1. w.cwnd = MinOf(new, Clamp)
        BY <1>6, <3>2, <3>3
      <4>2. CASE new >= r.cwnd
        BY <1>1, <1>5, <2>2, <3>2, <3>3, <4>1, <4>2 DEF Restored, MinOf
      <4>3. CASE r.bbr.full_bw_reached /\ new \in Targets
        BY <2>2, <4>1, <4>3 DEF Restored, KeepsPipe
      <4> QED
        BY <3>2, <4>2, <4>3
    <3> QED
      BY <1>4, <1>6, <2>2, <3>2, <3>3 DEF base
  <2> QED
    BY <2>3, <2>4
<1> QED
  BY <1>1, <1>7, <1>8

----------------------------------------------------------------------------
(* The inductive invariant.                                                *)

(* The modes after STARTUP are entered with a full pipe.                   *)
ModeFull == bbr.mode \in {"DRAIN", "PROBE_BW"} => bbr.full_bw_reached

(* A recovery that no ACK has reached yet has left the window alone.       *)
UntouchedCut ==
  Cut /\ bbr.prev_ca_state \notin Losing /\ bbr.mode # "PROBE_RTT"
    => snd_cwnd >= good

(* With a baseline, the rounds that were counted were flat.                *)
CountedFlat ==
  ~bbr.full_bw_reached /\ bbr.full_bw = 1 => bbr.full_bw_cnt <= flat

Inv ==
  /\ TypeOK /\ CountLow(bbr) /\ ModeFull
  /\ DipIsShallow /\ ConservationOnlyInRecovery
  /\ GoodWindowSaved /\ UntouchedCut /\ CountedFlat

LEMMA InitInv == Init => Inv
<1> SUFFICES ASSUME Init PROVE Inv
  OBVIOUS
<1>1. bbr \in BbrStruct
  BY BbrAssumption DEF Init, BbrStruct, Modes, CaStates, Timers
<1>2. TypeOK
  BY <1>1, BbrAssumption DEF Init, TypeOK
<1> QED
  BY <1>2, BbrAssumption DEF Init, Inv, CountLow, ModeFull, DipIsShallow,
     ConservationOnlyInRecovery, GoodWindowSaved, UntouchedCut, CountedFlat

(* What an ACK does, seen from outside.  m is the mode before the estimate *)
(* of the round-trip time is looked at, mid the window after it.           *)
AckMoves(m, mid) ==
  /\ m \in Abstract!Forward(bbr.mode, bbr'.full_bw_reached)
  /\ \/ /\ bbr'.mode = m
        /\ bbr'.min_rtt_stale \in {FALSE, bbr.min_rtt_stale}
        /\ bbr'.prior_cwnd = bbr.prior_cwnd
        /\ mid = snd_cwnd
     \/ /\ bbr.min_rtt_stale /\ m # "PROBE_RTT" /\ bbr'.mode = "PROBE_RTT"
        /\ bbr'.min_rtt_stale \in BOOLEAN
        /\ bbr'.prior_cwnd >= snd_cwnd /\ bbr'.prior_cwnd >= bbr.prior_cwnd
        /\ mid = snd_cwnd
     \/ /\ m = "PROBE_RTT"
        /\ bbr'.mode = IF bbr'.full_bw_reached THEN "PROBE_BW" ELSE "STARTUP"
        /\ bbr'.min_rtt_stale = FALSE
        /\ bbr'.prior_cwnd = bbr.prior_cwnd
        /\ mid \in 1..Clamp /\ mid >= bbr.prior_cwnd

AckWindow(mid) ==
  \/ /\ bbr'.prev_ca_state = bbr.prev_ca_state
     /\ bbr'.mode # "PROBE_RTT" => snd_cwnd' = mid
  \/ /\ bbr'.prev_ca_state = ca_state
     /\ ca_state \notin Losing /\ bbr'.mode # "PROBE_RTT" =>
          Restored(bbr', snd_cwnd', IF bbr.prev_ca_state \in Losing
                                    THEN bbr'.prior_cwnd ELSE mid - MaxLost)

LEMMA AckSummary ==
  ASSUME Inv, NEW rs \in RateSample, NEW round \in BOOLEAN,
         NEW grown \in BOOLEAN, NEW flight \in Flights,
         bbr_main(rs, round, grown, flight)
  PROVE  /\ bbr' \in BbrStruct /\ snd_cwnd' \in 1..Clamp
         /\ CountLow(bbr')
         /\ bbr.full_bw_reached => bbr'.full_bw_reached
         /\ \E b \in bbr_check_full_bw_reached(bbr_update_bw(bbr, rs, round),
                                               rs, round, grown) :
              KeepsPipe(b, bbr')
         /\ bbr'.mode = "PROBE_RTT" => snd_cwnd' <= MinTarget
         /\ bbr'.packet_conservation => bbr'.prev_ca_state \in Losing
         /\ \E m \in Modes, mid \in 1..Clamp : AckMoves(m, mid) /\ AckWindow(mid)
<1> DEFINE a == bbr_update_bw(bbr, rs, round)
<1>1. PICK b \in bbr_check_full_bw_reached(a, rs, round, grown) :
      \E c \in bbr_check_drain(b) :
      \E s \in bbr_update_min_rtt(c, rs, round, flight, snd_cwnd) :
      \E w \in bbr_set_cwnd(s.bbr, rs, s.cwnd, flight) :
         bbr' = w.bbr /\ snd_cwnd' = w.cwnd
  BY DEF bbr_main
<1>2. PICK c \in bbr_check_drain(b) :
      \E s \in bbr_update_min_rtt(c, rs, round, flight, snd_cwnd) :
      \E w \in bbr_set_cwnd(s.bbr, rs, s.cwnd, flight) :
         bbr' = w.bbr /\ snd_cwnd' = w.cwnd
  BY <1>1
<1>3. PICK s \in bbr_update_min_rtt(c, rs, round, flight, snd_cwnd) :
      \E w \in bbr_set_cwnd(s.bbr, rs, s.cwnd, flight) :
         bbr' = w.bbr /\ snd_cwnd' = w.cwnd
  BY <1>2
<1>4. PICK w \in bbr_set_cwnd(s.bbr, rs, s.cwnd, flight) :
         bbr' = w.bbr /\ snd_cwnd' = w.cwnd
  BY <1>3
<1>5. /\ bbr \in BbrStruct /\ snd_cwnd \in 1..Clamp /\ ca_state \in CaStates
      /\ CountLow(bbr) /\ flight \in Nat
      /\ bbr.packet_conservation => bbr.prev_ca_state \in Losing
  BY BbrAssumption DEF Inv, TypeOK, ConservationOnlyInRecovery
<1>6. /\ a \in BbrStruct
      /\ KeepsPipe(bbr, a) /\ KeepsDip(bbr, a)
      /\ a.prev_ca_state = bbr.prev_ca_state
      /\ a.packet_conservation => bbr.packet_conservation
  BY <1>5, UpdateBw
<1> HIDE DEF a
<1>7. CountLow(a)
  BY <1>5, <1>6 DEF CountLow, KeepsPipe
<1>8. /\ b \in BbrStruct /\ CountLow(b)
      /\ KeepsLosses(a, b) /\ KeepsDip(a, b)
      /\ a.full_bw_reached => b.full_bw_reached
  BY <1>6, <1>7, CheckFull
<1>9. /\ c \in BbrStruct
      /\ KeepsPipe(b, c) /\ KeepsLosses(b, c)
      /\ c.min_rtt_stale = b.min_rtt_stale
      /\ c.probe_rtt_done_stamp = b.probe_rtt_done_stamp
      /\ c.prior_cwnd = b.prior_cwnd
      /\ c.mode \in Abstract!Forward(b.mode, b.full_bw_reached)
  BY <1>8, CheckDrain
<1>10. /\ s.bbr \in BbrStruct
       /\ KeepsPipe(c, s.bbr) /\ KeepsLosses(c, s.bbr)
       /\ \/ ModeStays(c, s.bbr, snd_cwnd, s.cwnd)
          \/ DipBegins(c, s.bbr, snd_cwnd, s.cwnd)
          \/ c.mode = "PROBE_RTT" /\ DipOver(c, s.bbr, snd_cwnd, s.cwnd)
  BY <1>5, <1>9, UpdateMinRtt
<1>11. /\ s.cwnd \in 1..Clamp
       /\ s.bbr.packet_conservation => s.bbr.prev_ca_state \in Losing
       /\ s.bbr.prev_ca_state = bbr.prev_ca_state
  BY <1>5, <1>6, <1>8, <1>9, <1>10
     DEF KeepsLosses, ModeStays, DipBegins, DipOver
<1>12. /\ w.bbr \in BbrStruct /\ w.cwnd \in 1..Clamp
       /\ KeepsPipe(s.bbr, w.bbr) /\ KeepsDip(s.bbr, w.bbr)
       /\ w.bbr.packet_conservation => w.bbr.prev_ca_state \in Losing
       /\ s.bbr.mode = "PROBE_RTT" => w.cwnd <= MinTarget
       /\ \/ /\ w.bbr.prev_ca_state = s.bbr.prev_ca_state
             /\ s.bbr.mode # "PROBE_RTT" => w.cwnd = s.cwnd
          \/ /\ w.bbr.prev_ca_state = ca_state
             /\ ca_state \notin Losing /\ s.bbr.mode # "PROBE_RTT" =>
                  Restored(s.bbr, w.cwnd,
                           IF s.bbr.prev_ca_state \in Losing
                           THEN s.bbr.prior_cwnd ELSE s.cwnd - MaxLost)
  BY <1>5, <1>10, <1>11, SetCwnd
<1>13. KeepsPipe(b, bbr') /\ CountLow(bbr')
       /\ (bbr.full_bw_reached => bbr'.full_bw_reached)
  BY <1>4, <1>6, <1>8, <1>9, <1>10, <1>12 DEF KeepsPipe, CountLow
<1>14. AckWindow(s.cwnd)
  BY <1>4, <1>11, <1>12 DEF AckWindow, Restored, KeepsPipe, KeepsDip
<1>15. c.mode \in Modes /\ c.mode \in Abstract!Forward(bbr.mode, bbr'.full_bw_reached)
  BY <1>6, <1>8, <1>9, <1>13 DEF KeepsDip, KeepsPipe, BbrStruct
<1>16. /\ c.min_rtt_stale = bbr.min_rtt_stale /\ c.prior_cwnd = bbr.prior_cwnd
       /\ c.full_bw_reached = bbr'.full_bw_reached
       /\ bbr'.mode = s.bbr.mode /\ bbr'.prior_cwnd = s.bbr.prior_cwnd
       /\ bbr'.min_rtt_stale = s.bbr.min_rtt_stale
  BY <1>4, <1>6, <1>8, <1>9, <1>12, <1>13 DEF KeepsDip, KeepsPipe
<1>17. AckMoves(c.mode, s.cwnd)
  BY <1>10, <1>15, <1>16 DEF AckMoves, ModeStays, DipBegins, DipOver
<1> QED
  BY <1>4, <1>11, <1>12, <1>13, <1>14, <1>15, <1>16, <1>17 DEF a, KeepsDip

LEMMA AckModeFull ==
  ASSUME Inv, NEW m \in Modes, NEW mid, AckMoves(m, mid),
         bbr.full_bw_reached => bbr'.full_bw_reached
  PROVE  ModeFull'
BY DEF Inv, ModeFull, AckMoves, Abstract!Forward, Modes

LEMMA AckGood ==
  ASSUME Inv, bbr' \in BbrStruct, NEW m \in Modes, NEW mid \in 1..Clamp,
         AckMoves(m, mid), AckWindow(mid), UNCHANGED ca_state, Remember(snd_cwnd)
  PROVE  good' \in 0..Clamp /\ GoodWindowSaved' /\ UntouchedCut'
<1>1. /\ good \in 0..Clamp /\ snd_cwnd \in 1..Clamp /\ Clamp \in Nat
      /\ bbr \in BbrStruct /\ bbr.prior_cwnd \in 0..Clamp
      /\ bbr'.prior_cwnd \in 0..Clamp
  BY BbrAssumption DEF Inv, TypeOK, BbrStruct
<1>2. good' = IF ~Cut' THEN 0 ELSE IF Cut THEN good ELSE snd_cwnd
  BY DEF Remember
<1>3. good' \in 0..Clamp
  BY <1>1, <1>2
<1>4. bbr'.prior_cwnd >= bbr.prior_cwnd
  <2>1. \/ bbr'.prior_cwnd = bbr.prior_cwnd
        \/ bbr'.prior_cwnd >= bbr.prior_cwnd
    BY DEF AckMoves
  <2> QED
    BY <1>1, <2>1
<1>5. ASSUME ~Cut, Cut'
      PROVE  bbr'.mode = "PROBE_RTT" /\ bbr'.prior_cwnd >= snd_cwnd
  <2>1. ca_state \notin Losing /\ bbr.prev_ca_state \notin Losing
        /\ bbr.mode # "PROBE_RTT"
    BY <1>5 DEF Cut
  <2>2. bbr'.prev_ca_state \notin Losing /\ ca_state' \notin Losing
    BY <2>1 DEF AckWindow
  <2>3. bbr'.mode = "PROBE_RTT"
    BY <1>5, <2>2 DEF Cut
  <2>4. m # "PROBE_RTT"
    BY <2>1 DEF AckMoves, Abstract!Forward
  <2> QED
    BY <2>3, <2>4 DEF AckMoves
<1>6. GoodWindowSaved'
  <2>1. CASE Cut
    BY <1>1, <1>2, <1>4, <2>1 DEF Inv, GoodWindowSaved
  <2>2. CASE ~Cut
    BY <1>1, <1>2, <1>5, <2>2 DEF GoodWindowSaved
  <2> QED
    BY <2>1, <2>2
<1>7. UntouchedCut'
  <2> SUFFICES ASSUME Cut', bbr'.prev_ca_state \notin Losing,
                      bbr'.mode # "PROBE_RTT"
               PROVE  snd_cwnd' >= good'
    BY DEF UntouchedCut
  <2>1. Cut /\ ca_state \in Losing /\ good' = good
    BY <1>2, <1>5 DEF Cut
  <2>2. bbr.prev_ca_state \notin Losing /\ snd_cwnd' = mid
    BY <2>1 DEF AckWindow
  <2>3. CASE m = "PROBE_RTT"
    <3>1. bbr.mode = "PROBE_RTT" /\ mid >= bbr.prior_cwnd
      BY <2>3 DEF AckMoves, Abstract!Forward
    <3>2. bbr.prior_cwnd >= good
      BY <2>1 DEF Inv, GoodWindowSaved
    <3> QED
      BY <1>1, <2>1, <2>2, <3>1, <3>2
  <2>4. CASE m # "PROBE_RTT"
    <3>1. bbr.mode # "PROBE_RTT" /\ mid = snd_cwnd
      BY <2>4 DEF AckMoves, Abstract!Forward
    <3> QED
      BY <2>1, <2>2, <3>1 DEF Inv, UntouchedCut
  <2> QED
    BY <2>3, <2>4
<1> QED
  BY <1>3, <1>6, <1>7

(* The code's count of flat rounds and the history's go together.          *)
LEMMA AckFlat ==
  ASSUME Inv, NEW rs \in RateSample, NEW round \in BOOLEAN,
         NEW grown \in BOOLEAN, bbr' \in BbrStruct,
         CountFlat(rs, round, grown),
         grown => round /\ ~rs.is_app_limited /\ ~bbr.full_bw_reached,
         NEW b \in bbr_check_full_bw_reached(bbr_update_bw(bbr, rs, round),
                                            rs, round, grown),
         KeepsPipe(b, bbr')
  PROVE  /\ flat' \in 0..FullBwCnt /\ CountedFlat'
         /\ bbr'.full_bw_reached /\ ~bbr.full_bw_reached => flat' = FullBwCnt
<1> DEFINE a == bbr_update_bw(bbr, rs, round)
<1>1. /\ bbr \in BbrStruct /\ CountLow(bbr) /\ flat \in 0..FullBwCnt
      /\ FullBwCnt \in Nat /\ FullBwCnt >= 1
      /\ bbr.full_bw_cnt \in 0..FullBwCnt
  BY BbrAssumption DEF Inv, TypeOK, BbrStruct
<1>2. a \in BbrStruct /\ KeepsPipe(bbr, a)
  BY <1>1, UpdateBw
<1> HIDE DEF a
<1>3. flat' \in 0..FullBwCnt
  BY <1>1 DEF CountFlat, MinOf
<1>4. /\ bbr'.full_bw_reached = b.full_bw_reached
      /\ bbr'.full_bw = b.full_bw /\ bbr'.full_bw_cnt = b.full_bw_cnt
  BY DEF KeepsPipe
<1>5. CASE a.full_bw_reached \/ ~round \/ rs.is_app_limited
  <2>1. b = a
    BY <1>5 DEF bbr_check_full_bw_reached, a
  <2>2. KeepsPipe(bbr, bbr')
    BY <1>2, <1>4, <2>1 DEF KeepsPipe
  <2>3. ~bbr.full_bw_reached => flat' = flat
    BY <1>2, <1>5 DEF CountFlat, KeepsPipe
  <2> QED
    BY <1>3, <2>2, <2>3 DEF Inv, CountedFlat, KeepsPipe
<1>6. CASE ~(a.full_bw_reached \/ ~round \/ rs.is_app_limited)
           /\ (a.full_bw = 0 \/ grown)
  <2>1. PICK x \in {a.full_bw, 1} : b = [a EXCEPT !.full_bw = x, !.full_bw_cnt = 0]
    BY <1>6 DEF bbr_check_full_bw_reached, a
  <2>2. b.full_bw_cnt = 0 /\ b.full_bw_reached = a.full_bw_reached
    BY <1>2, <2>1 DEF BbrStruct
  <2>3. ~bbr'.full_bw_reached /\ bbr'.full_bw_cnt = 0
    BY <1>4, <1>6, <2>2
  <2> QED
    BY <1>3, <2>3 DEF CountedFlat
<1>7. CASE ~(a.full_bw_reached \/ ~round \/ rs.is_app_limited)
           /\ ~(a.full_bw = 0 \/ grown)
  <2> DEFINE r == a.full_bw_cnt + 1 >= FullBwCnt
  <2>1. b = [a EXCEPT !.full_bw_cnt = a.full_bw_cnt + 1, !.full_bw_reached = r]
    BY <1>7 DEF bbr_check_full_bw_reached, a
  <2> r \in BOOLEAN
    OBVIOUS
  <2> HIDE DEF r
  <2>2. b.full_bw_cnt = a.full_bw_cnt + 1 /\ b.full_bw_reached = r
    BY <1>2, <2>1 DEF BbrStruct
  <2>3. ~bbr.full_bw_reached /\ bbr.full_bw = 1 /\ bbr.full_bw_cnt <= flat
        /\ bbr.full_bw_cnt < FullBwCnt
    BY <1>1, <1>2, <1>7 DEF Inv, CountedFlat, CountLow, KeepsPipe, BbrStruct
  <2>4. flat' = MinOf(flat + 1, FullBwCnt)
    BY <1>7, <2>3 DEF CountFlat
  <2>5. bbr'.full_bw_cnt = bbr.full_bw_cnt + 1 /\ bbr'.full_bw_reached = r
    BY <1>2, <1>4, <2>2 DEF KeepsPipe
  <2>6. bbr'.full_bw_cnt <= flat'
    BY <1>1, <2>3, <2>4, <2>5 DEF MinOf
  <2>7. r => flat' = FullBwCnt
    BY <1>1, <1>2, <2>3, <2>4 DEF MinOf, r, KeepsPipe
  <2> QED
    BY <1>3, <2>5, <2>6, <2>7 DEF CountedFlat
<1> QED
  BY <1>5, <1>6, <1>7

LEMMA AckInv ==
  ASSUME Inv, Ack
  PROVE  Inv'
<1>1. PICK rs \in RateSample, round \in BOOLEAN, grown \in BOOLEAN,
           flight \in Flights : bbr_main(rs, round, grown, flight)
  BY DEF Ack
<1>2. /\ bbr' \in BbrStruct /\ snd_cwnd' \in 1..Clamp
      /\ CountLow(bbr')
      /\ bbr.full_bw_reached => bbr'.full_bw_reached
      /\ \E b \in bbr_check_full_bw_reached(bbr_update_bw(bbr, rs, round),
                                            rs, round, grown) :
           KeepsPipe(b, bbr')
      /\ bbr'.mode = "PROBE_RTT" => snd_cwnd' <= MinTarget
      /\ bbr'.packet_conservation => bbr'.prev_ca_state \in Losing
      /\ \E m \in Modes, mid \in 1..Clamp : AckMoves(m, mid) /\ AckWindow(mid)
  BY <1>1, AckSummary
<1>3. /\ UNCHANGED ca_state /\ Remember(snd_cwnd) /\ CountFlat(rs, round, grown)
      /\ grown => round /\ ~rs.is_app_limited /\ ~bbr.full_bw_reached
  BY <1>1 DEF bbr_main
<1>4. ModeFull'
  BY <1>2, AckModeFull
<1>5. good' \in 0..Clamp /\ GoodWindowSaved' /\ UntouchedCut'
  BY <1>2, <1>3, AckGood
<1>6. flat' \in 0..FullBwCnt /\ CountedFlat'
  BY <1>2, <1>3, AckFlat
<1>7. TypeOK'
  BY <1>2, <1>3, <1>5, <1>6 DEF Inv, TypeOK
<1> QED
  BY <1>2, <1>4, <1>5, <1>6, <1>7
     DEF Inv, DipIsShallow, ConservationOnlyInRecovery, CountLow

----------------------------------------------------------------------------
(* The other hooks and the kernel.                                         *)

LEMMA CwndEventSummary ==
  ASSUME Inv, bbr_cwnd_event
  PROVE  /\ bbr' \in BbrStruct /\ snd_cwnd' \in 1..Clamp
         /\ KeepsPipe(bbr, bbr') /\ KeepsLosses(bbr, bbr')
         /\ bbr'.prior_cwnd = bbr.prior_cwnd
         /\ \/ /\ bbr'.mode = bbr.mode
               /\ bbr'.min_rtt_stale = bbr.min_rtt_stale
               /\ snd_cwnd' = snd_cwnd
            \/ /\ bbr.mode = "PROBE_RTT"
               /\ DipOver(bbr, bbr', snd_cwnd, snd_cwnd')
<1> DEFINE b == [bbr EXCEPT !.idle_restart = TRUE]
           s == bbr_check_probe_rtt_done(b, snd_cwnd)
<1>1. bbr \in BbrStruct /\ snd_cwnd \in 1..Clamp
  BY DEF Inv, TypeOK
<1>2. /\ b \in BbrStruct /\ KeepsPipe(bbr, b) /\ KeepsLosses(bbr, b)
      /\ KeepsDip(bbr, b)
  BY <1>1 DEF BbrStruct, KeepsPipe, KeepsLosses, KeepsDip
<1>3. \/ bbr' = b /\ snd_cwnd' = snd_cwnd
      \/ bbr.mode = "PROBE_RTT" /\ bbr' = s.bbr /\ snd_cwnd' = s.cwnd
  <2>1. b.mode = bbr.mode
    BY <1>2 DEF KeepsDip
  <2> QED
    BY <2>1 DEF bbr_cwnd_event
<1> HIDE DEF b
<1>4. CASE bbr' = b /\ snd_cwnd' = snd_cwnd
  BY <1>1, <1>2, <1>4 DEF KeepsDip
<1>5. CASE bbr.mode = "PROBE_RTT" /\ bbr' = s.bbr /\ snd_cwnd' = s.cwnd
  <2>1. /\ s.bbr \in BbrStruct
        /\ KeepsPipe(b, s.bbr) /\ KeepsLosses(b, s.bbr)
        /\ \/ KeepsDip(b, s.bbr) /\ s.cwnd = snd_cwnd
           \/ DipOver(b, s.bbr, snd_cwnd, s.cwnd)
    BY <1>1, <1>2, ProbeRttDone
  <2> HIDE DEF s
  <2>2. KeepsPipe(bbr, bbr') /\ KeepsLosses(bbr, bbr')
    BY <1>2, <1>5, <2>1 DEF KeepsPipe, KeepsLosses
  <2>3. CASE KeepsDip(b, s.bbr) /\ s.cwnd = snd_cwnd
    BY <1>1, <1>2, <1>5, <2>1, <2>2, <2>3 DEF KeepsDip
  <2>4. CASE DipOver(b, s.bbr, snd_cwnd, s.cwnd)
    <3>1. DipOver(bbr, bbr', snd_cwnd, snd_cwnd')
      BY <1>2, <1>5, <2>4 DEF DipOver, KeepsDip, KeepsPipe
    <3> QED
      BY <1>5, <2>1, <2>2, <3>1 DEF DipOver
  <2> QED
    BY <2>1, <2>3, <2>4
<1> QED
  BY <1>3, <1>4, <1>5

LEMMA CwndEventInv ==
  ASSUME Inv, bbr_cwnd_event
  PROVE  Inv'
<1>1. /\ bbr' \in BbrStruct /\ snd_cwnd' \in 1..Clamp
      /\ KeepsPipe(bbr, bbr') /\ KeepsLosses(bbr, bbr')
      /\ bbr'.prior_cwnd = bbr.prior_cwnd
      /\ \/ bbr'.mode = bbr.mode /\ snd_cwnd' = snd_cwnd
         \/ /\ bbr.mode = "PROBE_RTT"
            /\ DipOver(bbr, bbr', snd_cwnd, snd_cwnd')
  BY CwndEventSummary
<1>2. UNCHANGED <<ca_state, flat>> /\ Remember(snd_cwnd)
  BY DEF bbr_cwnd_event
<1>3. Cut' => Cut
  BY <1>1, <1>2 DEF Cut, KeepsLosses, DipOver
<1>4. good' = IF Cut' THEN good ELSE 0
  BY <1>2, <1>3 DEF Remember
<1>5. /\ good \in 0..Clamp /\ Clamp \in Nat /\ snd_cwnd \in 1..Clamp
      /\ bbr.prior_cwnd \in 0..Clamp
  BY BbrAssumption DEF Inv, TypeOK, BbrStruct
<1>6. TypeOK'
  BY <1>1, <1>2, <1>4, <1>5 DEF Inv, TypeOK
<1>7. CountLow(bbr') /\ CountedFlat' /\ ConservationOnlyInRecovery'
  BY <1>1, <1>2 DEF Inv, CountLow, CountedFlat, KeepsPipe, KeepsLosses,
     ConservationOnlyInRecovery
<1>8. ModeFull' /\ DipIsShallow'
  BY <1>1 DEF Inv, ModeFull, DipIsShallow, DipOver, KeepsPipe
<1>9. GoodWindowSaved'
  BY <1>1, <1>3, <1>4, <1>5 DEF Inv, GoodWindowSaved
<1>10. UntouchedCut'
  <2> SUFFICES ASSUME Cut', bbr'.prev_ca_state \notin Losing,
                      bbr'.mode # "PROBE_RTT"
               PROVE  snd_cwnd' >= good
    BY <1>4 DEF UntouchedCut
  <2>1. Cut /\ bbr.prev_ca_state \notin Losing /\ bbr.prior_cwnd >= good
    BY <1>1, <1>3 DEF KeepsLosses, Inv, GoodWindowSaved
  <2>2. CASE bbr'.mode = bbr.mode /\ snd_cwnd' = snd_cwnd
    BY <2>1, <2>2 DEF Inv, UntouchedCut
  <2>3. CASE DipOver(bbr, bbr', snd_cwnd, snd_cwnd')
    BY <1>5, <2>1, <2>3 DEF DipOver
  <2> QED
    BY <1>1, <2>2, <2>3
<1> QED
  BY <1>6, <1>7, <1>8, <1>9, <1>10 DEF Inv, CountLow

(* Saving the window in a cut never loses the one from before it.          *)
LEMMA SaveGood ==
  ASSUME Inv
  PROVE  LET b == bbr_save_cwnd(bbr, snd_cwnd)
         IN  /\ b \in BbrStruct
             /\ KeepsPipe(bbr, b) /\ KeepsLosses(bbr, b)
             /\ b.mode = bbr.mode /\ b.min_rtt_stale = bbr.min_rtt_stale
             /\ b.prior_cwnd >= snd_cwnd
             /\ Cut => b.prior_cwnd >= good
<1> DEFINE b == bbr_save_cwnd(bbr, snd_cwnd)
<1>1. bbr \in BbrStruct /\ snd_cwnd \in 1..Clamp /\ good \in 0..Clamp /\ Clamp \in Nat
  BY BbrAssumption DEF Inv, TypeOK
<1>2. /\ b \in BbrStruct /\ KeepsPipe(bbr, b) /\ KeepsLosses(bbr, b)
      /\ b.mode = bbr.mode /\ b.min_rtt_stale = bbr.min_rtt_stale
      /\ b.prior_cwnd >= snd_cwnd
      /\ bbr.prev_ca_state \in Losing \/ bbr.mode = "PROBE_RTT"
           => b.prior_cwnd >= bbr.prior_cwnd
  BY <1>1, SaveCwnd
<1> HIDE DEF b
<1>3. b.prior_cwnd \in 0..Clamp /\ bbr.prior_cwnd \in 0..Clamp
  BY <1>1, <1>2 DEF BbrStruct
<1>4. ASSUME Cut PROVE b.prior_cwnd >= good
  <2>1. CASE bbr.prev_ca_state \in Losing \/ bbr.mode = "PROBE_RTT"
    BY <1>1, <1>2, <1>3, <1>4, <2>1 DEF Inv, GoodWindowSaved
  <2>2. CASE ~(bbr.prev_ca_state \in Losing \/ bbr.mode = "PROBE_RTT")
    BY <1>1, <1>2, <1>3, <1>4, <2>2 DEF Inv, UntouchedCut
  <2> QED
    BY <2>1, <2>2
<1> QED
  BY <1>2, <1>4 DEF b

LEMMA EnterCWRInv ==
  ASSUME Inv, EnterCWR
  PROVE  Inv'
<1>1. /\ bbr' \in BbrStruct /\ KeepsPipe(bbr, bbr') /\ KeepsLosses(bbr, bbr')
      /\ bbr'.mode = bbr.mode /\ (Cut => bbr'.prior_cwnd >= good)
  BY SaveGood DEF EnterCWR, bbr_ssthresh
<1>2. UNCHANGED <<snd_cwnd, ca_state, good, flat>>
  BY DEF EnterCWR
<1>3. Cut' = Cut
  BY <1>1, <1>2 DEF Cut, KeepsLosses
<1> QED
  BY <1>1, <1>2, <1>3 DEF Inv, TypeOK, CountLow, ModeFull, DipIsShallow,
     ConservationOnlyInRecovery, GoodWindowSaved, UntouchedCut, CountedFlat,
     KeepsPipe, KeepsLosses

LEMMA EnterRecoveryInv ==
  ASSUME Inv, NEW fresh \in BOOLEAN, EnterRecovery(fresh)
  PROVE  Inv'
<1>1. /\ ca_state' = "Recovery" /\ UNCHANGED <<snd_cwnd, flat>>
      /\ fresh \/ ca_state = "Open"
      /\ Remember(IF fresh THEN snd_cwnd ELSE 0)
      /\ ca_state' \in CaStates /\ Cut'
  BY DEF EnterRecovery, CaStates, Cut, Losing
<1>2. /\ snd_cwnd \in 1..Clamp /\ good \in 0..Clamp /\ Clamp \in Nat
      /\ bbr.prior_cwnd \in 0..Clamp
  BY BbrAssumption DEF Inv, TypeOK, BbrStruct
<1>3. good' = IF Cut THEN good ELSE IF fresh THEN snd_cwnd ELSE 0
  BY <1>1 DEF Remember
<1>4. /\ bbr' \in BbrStruct /\ KeepsPipe(bbr, bbr') /\ KeepsLosses(bbr, bbr')
      /\ bbr'.mode = bbr.mode
      /\ fresh => bbr'.prior_cwnd >= snd_cwnd
      /\ Cut => bbr'.prior_cwnd >= good
  <2>1. CASE fresh
    BY <2>1, SaveGood DEF EnterRecovery, bbr_ssthresh
  <2>2. CASE ~fresh
    <3>1. bbr' = bbr
      BY <2>2 DEF EnterRecovery
    <3> QED
      BY <2>2, <3>1 DEF Inv, TypeOK, GoodWindowSaved, KeepsPipe, KeepsLosses
  <2> QED
    BY <2>1, <2>2
<1>5. bbr'.prior_cwnd \in 0..Clamp
  BY <1>4 DEF BbrStruct
<1>6. TypeOK'
  BY <1>1, <1>2, <1>3, <1>4 DEF Inv, TypeOK
<1>7. CountLow(bbr') /\ ModeFull' /\ DipIsShallow' /\ CountedFlat'
      /\ ConservationOnlyInRecovery'
  BY <1>1, <1>4 DEF Inv, CountLow, ModeFull, DipIsShallow, CountedFlat,
     ConservationOnlyInRecovery, KeepsPipe, KeepsLosses
<1>8. GoodWindowSaved'
  BY <1>2, <1>3, <1>4, <1>5 DEF GoodWindowSaved
<1>9. UntouchedCut'
  <2> SUFFICES ASSUME bbr.prev_ca_state \notin Losing, bbr.mode # "PROBE_RTT"
               PROVE  snd_cwnd >= good'
    BY <1>1, <1>4 DEF UntouchedCut, KeepsLosses
  <2> QED
    BY <1>2, <1>3 DEF Inv, UntouchedCut
<1> QED
  BY <1>6, <1>7, <1>8, <1>9 DEF Inv, CountLow

LEMMA EnterLossInv ==
  ASSUME Inv, NEW fresh \in BOOLEAN, EnterLoss(fresh)
  PROVE  Inv'
<1> DEFINE b == IF fresh THEN bbr_ssthresh(bbr) ELSE bbr
<1>1. /\ ca_state' = "Loss" /\ snd_cwnd' \in 1..snd_cwnd /\ flat' = 0
      /\ Remember(IF fresh THEN snd_cwnd ELSE 0)
      /\ ca_state' \in CaStates /\ Cut'
      /\ bbr' = [b EXCEPT !.prev_ca_state = "Loss", !.full_bw = 0]
  BY DEF EnterLoss, CaStates, Cut, Losing, bbr_set_state_Loss
<1>2. /\ snd_cwnd \in 1..Clamp /\ good \in 0..Clamp /\ Clamp \in Nat
      /\ FullBwCnt \in Nat /\ MinTarget \in Nat
  BY BbrAssumption DEF Inv, TypeOK
<1>3. good' = IF Cut THEN good ELSE IF fresh THEN snd_cwnd ELSE 0
  BY <1>1 DEF Remember
<1>4. /\ b \in BbrStruct /\ KeepsPipe(bbr, b) /\ KeepsLosses(bbr, b)
      /\ b.mode = bbr.mode
      /\ fresh => b.prior_cwnd >= snd_cwnd
      /\ Cut => b.prior_cwnd >= good
  <2>1. CASE fresh
    BY <2>1, SaveGood DEF bbr_ssthresh
  <2>2. CASE ~fresh
    BY <2>2 DEF Inv, TypeOK, GoodWindowSaved, KeepsPipe, KeepsLosses
  <2> QED
    BY <2>1, <2>2
<1> HIDE DEF b
<1>5. /\ bbr' \in BbrStruct
      /\ bbr'.mode = b.mode /\ bbr'.prior_cwnd = b.prior_cwnd
      /\ bbr'.full_bw_reached = b.full_bw_reached
      /\ bbr'.full_bw_cnt = b.full_bw_cnt
      /\ bbr'.full_bw = 0 /\ bbr'.prev_ca_state = "Loss"
  BY <1>1, <1>4 DEF BbrStruct, CaStates
<1>6. bbr'.prior_cwnd \in 0..Clamp
  BY <1>5 DEF BbrStruct
<1>7. TypeOK'
  BY <1>1, <1>2, <1>3, <1>5 DEF Inv, TypeOK
<1>8. CountLow(bbr') /\ ModeFull' /\ CountedFlat'
  BY <1>4, <1>5 DEF Inv, CountLow, ModeFull, CountedFlat, KeepsPipe
<1>9. ConservationOnlyInRecovery' /\ UntouchedCut'
  BY <1>5 DEF ConservationOnlyInRecovery, UntouchedCut, Losing
<1>10. DipIsShallow'
  BY <1>1, <1>2, <1>4, <1>5 DEF Inv, DipIsShallow
<1>11. GoodWindowSaved'
  BY <1>2, <1>3, <1>4, <1>5, <1>6 DEF GoodWindowSaved
<1> QED
  BY <1>7, <1>8, <1>9, <1>10, <1>11 DEF Inv, CountLow

(* Steps that begin no cut and leave the window and what was saved alone.  *)
LEMMA QuietInv ==
  ASSUME Inv, bbr' \in BbrStruct, KeepsLosses(bbr, bbr'),
         bbr'.mode = bbr.mode, bbr'.prior_cwnd = bbr.prior_cwnd,
         bbr'.full_bw_reached = bbr.full_bw_reached,
         CountLow(bbr'), CountedFlat', flat' \in 0..FullBwCnt,
         UNCHANGED snd_cwnd, ca_state' = ca_state \/ ca_state' = "Open",
         good' = IF Cut' THEN good ELSE 0
  PROVE  Inv'
<1>1. Cut' => Cut
  BY DEF Cut, KeepsLosses, Losing
<1>2. TypeOK'
  BY BbrAssumption DEF Inv, TypeOK, CaStates
<1>3. ModeFull' /\ DipIsShallow' /\ ConservationOnlyInRecovery'
  BY DEF Inv, ModeFull, DipIsShallow, ConservationOnlyInRecovery, KeepsLosses
<1>4. GoodWindowSaved' /\ UntouchedCut'
  BY <1>1 DEF Inv, GoodWindowSaved, UntouchedCut, KeepsLosses
<1> QED
  BY <1>2, <1>3, <1>4 DEF Inv, CountLow

LEMMA ExitReductionInv ==
  ASSUME Inv, ExitReduction
  PROVE  Inv'
<1>1. /\ UNCHANGED <<bbr, snd_cwnd, flat>> /\ ca_state' = "Open"
      /\ ca_state # "Open" /\ ca_state \in CaStates /\ Remember(0)
      /\ bbr \in BbrStruct
  BY DEF ExitReduction, Inv, TypeOK
<1>2. Cut
  BY <1>1 DEF Cut, CaStates, Losing
<1>3. good' = IF Cut' THEN good ELSE 0
  BY <1>1, <1>2 DEF Remember
<1>4. KeepsLosses(bbr, bbr') /\ CountLow(bbr') /\ CountedFlat'
      /\ flat' \in 0..FullBwCnt
  BY <1>1 DEF KeepsLosses, Inv, CountLow, CountedFlat, TypeOK
<1> QED
  BY <1>1, <1>3, <1>4, QuietInv

LEMMA UndoInv ==
  ASSUME Inv, Undo
  PROVE  Inv'
<1>1. /\ UNCHANGED snd_cwnd /\ ca_state' = "Open" /\ flat' = 0 /\ Remember(0)
      /\ bbr \in BbrStruct /\ good \in 0..Clamp
      /\ 0 \in 0..FullBwCnt /\ 0 < FullBwCnt
      /\ bbr' = [bbr EXCEPT !.full_bw = 0, !.full_bw_cnt = 0]
  BY BbrAssumption DEF Undo, bbr_undo_cwnd, Inv, TypeOK
<1>2. bbr' \in BbrStruct
  BY <1>1, SetPipe
<1>3. /\ KeepsLosses(bbr, bbr') /\ bbr'.mode = bbr.mode
      /\ bbr'.prior_cwnd = bbr.prior_cwnd
      /\ bbr'.full_bw_reached = bbr.full_bw_reached
      /\ bbr'.full_bw_cnt = 0 /\ bbr'.full_bw = 0
  BY <1>1 DEF KeepsLosses, BbrStruct
<1>4. Cut' => Cut
  BY <1>1, <1>3 DEF Cut, KeepsLosses, Losing
<1>5. good' = IF Cut' THEN good ELSE 0
  BY <1>1, <1>4 DEF Remember
<1>6. CountLow(bbr') /\ CountedFlat'
  BY <1>1, <1>3 DEF CountLow, CountedFlat
<1> QED
  BY <1>1, <1>2, <1>3, <1>5, <1>6, QuietInv

LEMMA ClockInv ==
  ASSUME Inv, MinRttExpires \/ ProbeRttTimePasses
  PROVE  Inv'
<1>1. /\ bbr' \in BbrStruct /\ KeepsLosses(bbr, bbr') /\ KeepsPipe(bbr, bbr')
      /\ bbr'.mode = bbr.mode /\ bbr'.prior_cwnd = bbr.prior_cwnd
  BY DEF Inv, TypeOK, MinRttExpires, ProbeRttTimePasses, BbrStruct,
     KeepsLosses, KeepsPipe, Timers
<1>2. UNCHANGED <<snd_cwnd, ca_state, good, flat>>
  BY DEF MinRttExpires, ProbeRttTimePasses
<1>3. Cut' = Cut
  BY <1>1, <1>2 DEF Cut, KeepsLosses
<1> QED
  BY <1>1, <1>2, <1>3 DEF Inv, TypeOK, CountLow, ModeFull, DipIsShallow,
     ConservationOnlyInRecovery, GoodWindowSaved, UntouchedCut, CountedFlat,
     KeepsPipe, KeepsLosses

LEMMA NextInv ==
  ASSUME Inv, [Next]_vars
  PROVE  Inv'
<1>1. CASE Ack
  BY <1>1, AckInv
<1>2. CASE bbr_cwnd_event
  BY <1>2, CwndEventInv
<1>3. CASE Kernel
  BY <1>3, EnterCWRInv, EnterRecoveryInv, EnterLossInv, ExitReductionInv,
     UndoInv, ClockInv DEF Kernel
<1>4. CASE UNCHANGED vars
  BY <1>4 DEF vars, Inv, TypeOK, CountLow, ModeFull, DipIsShallow,
     ConservationOnlyInRecovery, GoodWindowSaved, UntouchedCut, CountedFlat, Cut
<1> QED
  BY <1>1, <1>2, <1>3, <1>4 DEF Next

LEMMA Invariance == Spec => []Inv
<1>1. Init => Inv
  BY InitInv
<1>2. Inv /\ [Next]_vars => Inv'
  BY NextInv
<1> QED
  BY <1>1, <1>2, PTL DEF Spec

(* The record, the window and the history keep their types: the window     *)
(* stays within 1 and the clamp after every hook.                          *)
THEOREM TypeCorrect == Spec => []TypeOK
BY Invariance, PTL DEF Inv

(* bbr_set_cwnd and bbr_set_state never leave a window above four packets  *)
(* in a dip.                                                               *)
THEOREM DipStaysShallow == Spec => []DipIsShallow
BY Invariance, PTL DEF Inv

(* Through dips, recoveries and timeouts in any order, prior_cwnd remembers *)
(* a window as large as the one the first of them found.                   *)
THEOREM WindowRemembered == Spec => []GoodWindowSaved
BY Invariance, PTL DEF Inv

(* packet_conservation is only set between the first ACK of a recovery and *)
(* the first ACK after it.                                                 *)
THEOREM BrakeOnlyInRecovery == Spec => []ConservationOnlyInRecovery
BY Invariance, PTL DEF Inv

LEMMA AckGivesBack ==
  ASSUME Inv, Ack, Cut, ~Cut'
  PROVE  \/ snd_cwnd' >= good - MaxLost
         \/ /\ bbr'.full_bw_reached
            /\ \E t \in Targets : snd_cwnd' = MinOf(t, Clamp)
<1>1. PICK rs \in RateSample, round \in BOOLEAN, grown \in BOOLEAN,
           flight \in Flights : bbr_main(rs, round, grown, flight)
  BY DEF Ack
<1>2. bbr' \in BbrStruct /\ snd_cwnd' \in 1..Clamp
  BY <1>1, AckSummary
<1>3. PICK m \in Modes, mid \in 1..Clamp : AckMoves(m, mid) /\ AckWindow(mid)
  BY <1>1, AckSummary
<1>4. /\ ca_state \notin Losing /\ bbr'.prev_ca_state \notin Losing
      /\ bbr'.mode # "PROBE_RTT"
  BY <1>1 DEF bbr_main, Cut
<1>5. /\ bbr.prior_cwnd >= good /\ good \in 0..Clamp
      /\ bbr.prior_cwnd \in 0..Clamp /\ Clamp \in Nat /\ MaxLost \in Nat
  BY BbrAssumption DEF Inv, TypeOK, BbrStruct, GoodWindowSaved
<1>6. bbr'.prior_cwnd = bbr.prior_cwnd
  BY <1>3, <1>4 DEF AckMoves
<1>7. bbr.prev_ca_state \notin Losing => mid >= good
  <2> SUFFICES ASSUME bbr.prev_ca_state \notin Losing PROVE mid >= good
    OBVIOUS
  <2>1. bbr.mode = "PROBE_RTT"
    BY <1>4 DEF Cut
  <2>2. mid >= bbr.prior_cwnd
    BY <1>3, <1>4, <2>1 DEF AckMoves, Abstract!Forward
  <2> QED
    BY <1>5, <2>2
<1>8. CASE /\ bbr'.prev_ca_state = bbr.prev_ca_state
           /\ bbr'.mode # "PROBE_RTT" => snd_cwnd' = mid
  <2>1. snd_cwnd' >= good
    BY <1>4, <1>7, <1>8
  <2> QED
    BY <1>2, <1>5, <2>1
<1>9. CASE Restored(bbr', snd_cwnd', IF bbr.prev_ca_state \in Losing
                                     THEN bbr'.prior_cwnd ELSE mid - MaxLost)
  <2>1. CASE bbr.prev_ca_state \in Losing
    <3>1. Restored(bbr', snd_cwnd', bbr.prior_cwnd)
      BY <1>6, <1>9, <2>1
    <3>2. snd_cwnd' >= bbr.prior_cwnd => snd_cwnd' >= good - MaxLost
      BY <1>2, <1>5
    <3> QED
      BY <3>1, <3>2 DEF Restored
  <2>2. CASE bbr.prev_ca_state \notin Losing
    <3>1. Restored(bbr', snd_cwnd', mid - MaxLost)
      BY <1>9, <2>2
    <3>2. snd_cwnd' >= mid - MaxLost => snd_cwnd' >= good - MaxLost
      BY <1>2, <1>5, <1>7, <2>2
    <3> QED
      BY <3>1, <3>2 DEF Restored
  <2> QED
    BY <2>1, <2>2
<1> QED
  BY <1>3, <1>4, <1>8, <1>9 DEF AckWindow

(* Outside the ACKs a cut ends with the end of a dip, or when a recovery   *)
(* ends that no ACK has reached: the window is whole.                      *)
LEMMA QuietGivesBack ==
  ASSUME Inv, bbr_cwnd_event \/ Kernel, Cut, ~Cut'
  PROVE  snd_cwnd' >= good
<1>1. /\ bbr.prior_cwnd >= good /\ good \in 0..Clamp
      /\ bbr.prior_cwnd \in 0..Clamp /\ Clamp \in Nat
  BY BbrAssumption DEF Inv, TypeOK, BbrStruct, GoodWindowSaved
<1>2. CASE bbr_cwnd_event
  <2>1. ca_state' = ca_state
    BY <1>2 DEF bbr_cwnd_event
  <2>2. /\ KeepsLosses(bbr, bbr')
        /\ \/ bbr'.mode = bbr.mode
           \/ DipOver(bbr, bbr', snd_cwnd, snd_cwnd')
    BY <1>2, CwndEventSummary
  <2>3. DipOver(bbr, bbr', snd_cwnd, snd_cwnd')
    BY <2>1, <2>2 DEF Cut, KeepsLosses
  <2> QED
    BY <1>1, <2>3 DEF DipOver
<1>3. CASE EnterCWR
  <2>1. KeepsLosses(bbr, bbr') /\ bbr'.mode = bbr.mode
    BY <1>3, SaveGood DEF EnterCWR, bbr_ssthresh
  <2> QED
    BY <1>3, <2>1 DEF EnterCWR, Cut, KeepsLosses
<1>4. CASE \E fresh \in BOOLEAN : EnterRecovery(fresh) \/ EnterLoss(fresh)
  BY <1>4 DEF EnterRecovery, EnterLoss, Cut, Losing
<1>5. CASE ExitReduction \/ Undo
  <2>1. snd_cwnd' = snd_cwnd
    BY <1>5 DEF ExitReduction, Undo
  <2>2. bbr'.prev_ca_state = bbr.prev_ca_state /\ bbr'.mode = bbr.mode
    BY <1>5 DEF ExitReduction, Undo, bbr_undo_cwnd, Inv, TypeOK, BbrStruct
  <2> QED
    BY <2>1, <2>2 DEF Inv, UntouchedCut, Cut
<1>6. CASE MinRttExpires \/ ProbeRttTimePasses
  BY <1>6 DEF MinRttExpires, ProbeRttTimePasses, Cut, Inv, TypeOK, BbrStruct
<1> QED
  BY <1>2, <1>3, <1>4, <1>5, <1>6 DEF Kernel

(* When the last cut ends, in whatever order dips, recoveries and timeouts *)
(* overlapped, the window comes back.                                      *)
THEOREM WindowComesBack == Spec => GivesWindowBack
<1>1. ASSUME Inv, [Next]_vars, Cut, ~Cut'
      PROVE  \/ snd_cwnd' >= good - MaxLost
             \/ /\ bbr'.full_bw_reached
                /\ \E t \in Targets : snd_cwnd' = MinOf(t, Clamp)
  <2>1. CASE Ack
    BY <1>1, <2>1, AckGivesBack
  <2>2. CASE bbr_cwnd_event \/ Kernel
    <3>1. snd_cwnd' >= good
      BY <1>1, <2>2, QuietGivesBack
    <3>2. snd_cwnd' \in Nat /\ good \in Nat /\ MaxLost \in Nat
      BY <1>1, NextInv, BbrAssumption DEF Inv, TypeOK
    <3> QED
      BY <3>1, <3>2
  <2>3. CASE UNCHANGED vars
    BY <1>1, <2>3 DEF vars, Cut
  <2> QED
    BY <1>1, <2>1, <2>2, <2>3 DEF Next
<1>2. Inv /\ [Next]_vars =>
        [Cut /\ ~Cut' =>
           \/ snd_cwnd' >= good - MaxLost
           \/ /\ bbr'.full_bw_reached
              /\ \E t \in Targets : snd_cwnd' = MinOf(t, Clamp)]_vars
  BY <1>1
<1> QED
  BY <1>2, Invariance, PTL DEF Spec, GivesWindowBack

(* Only an ACK finds the pipe full.                                        *)
LEMMA OnlyAcksFill ==
  ASSUME Inv, bbr_cwnd_event \/ Kernel
  PROVE  bbr'.full_bw_reached = bbr.full_bw_reached
<1>1. bbr \in BbrStruct
  BY DEF Inv, TypeOK
<1>2. CASE bbr_cwnd_event
  BY <1>2, CwndEventSummary DEF KeepsPipe
<1>3. KeepsPipe(bbr, bbr_ssthresh(bbr)) /\ bbr_ssthresh(bbr) \in BbrStruct
  BY SaveGood DEF bbr_ssthresh
<1>4. CASE EnterCWR
  BY <1>3, <1>4 DEF EnterCWR, KeepsPipe
<1>5. ASSUME NEW fresh \in BOOLEAN, EnterRecovery(fresh)
      PROVE  bbr'.full_bw_reached = bbr.full_bw_reached
  BY <1>3, <1>5 DEF EnterRecovery, KeepsPipe
<1>6. ASSUME NEW fresh \in BOOLEAN, EnterLoss(fresh)
      PROVE  bbr'.full_bw_reached = bbr.full_bw_reached
  <2> DEFINE b == IF fresh THEN bbr_ssthresh(bbr) ELSE bbr
  <2>1. b \in BbrStruct /\ b.full_bw_reached = bbr.full_bw_reached
    BY <1>1, <1>3 DEF KeepsPipe
  <2>2. bbr' = [b EXCEPT !.prev_ca_state = "Loss", !.full_bw = 0]
    BY <1>6 DEF EnterLoss, bbr_set_state_Loss
  <2> HIDE DEF b
  <2> QED
    BY <2>1, <2>2 DEF BbrStruct
<1>7. CASE ExitReduction \/ Undo \/ MinRttExpires \/ ProbeRttTimePasses
  BY <1>1, <1>7 DEF ExitReduction, Undo, bbr_undo_cwnd, MinRttExpires,
     ProbeRttTimePasses, BbrStruct
<1> QED
  BY <1>2, <1>4, <1>5, <1>6, <1>7 DEF Kernel

(* full_bw_reached is set only after FullBwCnt rounds in a row without     *)
(* growth, with no timeout and no undo in between.                         *)
THEOREM FullOnlyWhenFlat == Spec => FullPipeNeedsFlatRounds
<1>1. ASSUME Inv, [Next]_vars, bbr'.full_bw_reached, ~bbr.full_bw_reached
      PROVE  flat' = FullBwCnt
  <2>1. CASE Ack
    <3>1. PICK rs \in RateSample, round \in BOOLEAN, grown \in BOOLEAN,
               flight \in Flights : bbr_main(rs, round, grown, flight)
      BY <2>1 DEF Ack
    <3>2. bbr' \in BbrStruct
      BY <1>1, <3>1, AckSummary
    <3>3. PICK b \in bbr_check_full_bw_reached(bbr_update_bw(bbr, rs, round),
                                               rs, round, grown) :
            KeepsPipe(b, bbr')
      BY <1>1, <3>1, AckSummary
    <3>4. /\ CountFlat(rs, round, grown)
          /\ grown => round /\ ~rs.is_app_limited /\ ~bbr.full_bw_reached
      BY <3>1 DEF bbr_main
    <3> QED
      BY <1>1, <3>2, <3>3, <3>4, AckFlat
  <2>2. CASE bbr_cwnd_event \/ Kernel
    BY <1>1, <2>2, OnlyAcksFill
  <2>3. CASE UNCHANGED vars
    BY <1>1, <2>3 DEF vars
  <2> QED
    BY <1>1, <2>1, <2>2, <2>3 DEF Next
<1>2. Inv /\ [Next]_vars =>
        [bbr'.full_bw_reached /\ ~bbr.full_bw_reached => flat' = FullBwCnt]_vars
  BY <1>1
<1> QED
  BY <1>2, Invariance, PTL DEF Spec, FullPipeNeedsFlatRounds

LEMMA AckImplements ==
  ASSUME Inv, Ack
  PROVE  Abstract!Next
<1>1. PICK rs \in RateSample, round \in BOOLEAN, grown \in BOOLEAN,
           flight \in Flights : bbr_main(rs, round, grown, flight)
  BY DEF Ack
<1>2. bbr' \in BbrStruct /\ (bbr.full_bw_reached => bbr'.full_bw_reached)
  BY <1>1, AckSummary
<1>3. PICK m \in Modes, mid \in 1..Clamp : AckMoves(m, mid)
  BY <1>1, AckSummary
<1>4. bbr \in BbrStruct /\ ModeFull
  BY DEF Inv, TypeOK
<1>5. Abstract!Measure
  <2>1. bbr'.full_bw_reached \in BOOLEAN /\ bbr.full_bw_reached \in BOOLEAN
        /\ bbr.mode \in Modes
    BY <1>2, <1>4 DEF BbrStruct
  <2> QED
    BY <1>2, <1>4, <2>1 DEF Abstract!Measure, ModeFull, Modes
<1>6. m = "PROBE_RTT" <=> bbr.mode = "PROBE_RTT"
  BY <1>3 DEF AckMoves, Abstract!Forward
<1> QED
  BY <1>3, <1>5, <1>6
     DEF AckMoves, Abstract!Next, Abstract!Advance, Abstract!Dip, Abstract!EndDip

(* The steps of the other hooks and of the kernel end a dip, let the       *)
(* estimate grow stale, or change nothing the abstract machine sees.       *)
LEMMA QuietImplements ==
  ASSUME Inv, bbr_cwnd_event \/ Kernel
  PROVE  Abstract!Next \/ UNCHANGED Abstract!vars
<1>1. bbr \in BbrStruct /\ bbr'.full_bw_reached = bbr.full_bw_reached
      /\ bbr.full_bw_reached \in BOOLEAN
  BY OnlyAcksFill DEF Inv, TypeOK, BbrStruct
<1>2. Abstract!Measure
  BY <1>1 DEF Abstract!Measure
<1>3. CASE bbr_cwnd_event
  <2>1. \/ /\ bbr'.mode = bbr.mode
           /\ bbr'.min_rtt_stale = bbr.min_rtt_stale
        \/ /\ bbr.mode = "PROBE_RTT"
           /\ DipOver(bbr, bbr', snd_cwnd, snd_cwnd')
    BY <1>3, CwndEventSummary
  <2> QED
    BY <1>1, <1>2, <2>1 DEF DipOver, Abstract!Next, Abstract!EndDip, Abstract!vars
<1>4. CASE EnterCWR \/ \E fresh \in BOOLEAN : EnterRecovery(fresh) \/ EnterLoss(fresh)
  <2> DEFINE saved == bbr_ssthresh(bbr)
  <2>1. /\ saved \in BbrStruct /\ saved.mode = bbr.mode
        /\ saved.min_rtt_stale = bbr.min_rtt_stale
    BY SaveGood DEF bbr_ssthresh
  <2> HIDE DEF saved
  <2>2. \E b \in {bbr, saved} : bbr' \in {b, [b EXCEPT !.prev_ca_state = "Loss",
                                                      !.full_bw = 0]}
    BY <1>4 DEF EnterCWR, EnterRecovery, EnterLoss, bbr_set_state_Loss, saved
  <2>3. ASSUME NEW b \in {bbr, saved}
        PROVE  LET c == [b EXCEPT !.prev_ca_state = "Loss", !.full_bw = 0]
               IN  /\ b.mode = bbr.mode /\ b.min_rtt_stale = bbr.min_rtt_stale
                   /\ c.mode = b.mode /\ c.min_rtt_stale = b.min_rtt_stale
    <3>1. b \in BbrStruct
      BY <1>1, <2>1
    <3>2. b.mode = bbr.mode /\ b.min_rtt_stale = bbr.min_rtt_stale
      BY <2>1
    <3> QED
      BY <3>1, <3>2 DEF BbrStruct
  <2>4. bbr'.mode = bbr.mode /\ bbr'.min_rtt_stale = bbr.min_rtt_stale
    BY <2>2, <2>3
  <2> QED
    BY <1>1, <2>4 DEF Abstract!vars
<1>5. CASE ExitReduction \/ Undo \/ ProbeRttTimePasses
  <2>1. bbr'.mode = bbr.mode /\ bbr'.min_rtt_stale = bbr.min_rtt_stale
    BY <1>1, <1>5 DEF ExitReduction, Undo, bbr_undo_cwnd, ProbeRttTimePasses,
       BbrStruct
  <2> QED
    BY <1>1, <2>1 DEF Abstract!vars
<1>6. CASE MinRttExpires
  <2>1. bbr'.mode = bbr.mode /\ bbr'.min_rtt_stale = TRUE
    BY <1>1, <1>6 DEF MinRttExpires, BbrStruct
  <2> QED
    BY <1>1, <2>1 DEF Abstract!Next, Abstract!GrowStale
<1> QED
  BY <1>3, <1>4, <1>5, <1>6 DEF Kernel

LEMMA StepImplements ==
  ASSUME Inv, [Next]_vars
  PROVE  [Abstract!Next]_(Abstract!vars)
<1>1. CASE Ack
  BY <1>1, AckImplements
<1>2. CASE bbr_cwnd_event \/ Kernel
  BY <1>2, QuietImplements
<1>3. CASE UNCHANGED vars
  BY <1>3 DEF vars, Abstract!vars
<1> QED
  BY <1>1, <1>2, <1>3 DEF Next

(* bpf_bbr's mode machine, with everything it measures, is the one of      *)
(* BbrModes.                                                               *)
THEOREM ModesImplement == Spec => ImplementsBbrModes
<1>1. Init => Abstract!Init
  BY DEF Init, Abstract!Init
<1>2. Inv /\ [Next]_vars => [Abstract!Next]_(Abstract!vars)
  BY StepImplements
<1> QED
  BY <1>1, <1>2, Invariance, PTL DEF Spec, Abstract!Spec, ImplementsBbrModes

(* STARTUP, with the highest gain, is over for good once the pipe is full: *)
(* no timeout that resets the baseline, no dip and no idle restart brings  *)
(* it back, and no measurement makes the pipe count as not full again      *)
(* (bbr.bpf.c:748-781, 785-797, 1005-1012).                                *)
THEOREM StartupOnce ==
  Spec => [][bbr.full_bw_reached =>
               bbr'.full_bw_reached /\ bbr'.mode # "STARTUP"]_vars
<1> DEFINE Filling == bbr.mode = "STARTUP" => ~bbr.full_bw_reached
           Over == bbr.full_bw_reached =>
                     bbr'.full_bw_reached /\ bbr'.mode # "STARTUP"
<1>1. Init => Filling
  BY DEF Init
<1>2. ASSUME Inv, Inv', Filling, [Next]_vars
      PROVE  Filling' /\ Over
  <2>1. /\ bbr.full_bw_reached \in BOOLEAN /\ bbr'.full_bw_reached \in BOOLEAN
        /\ bbr.mode \in Modes
    BY <1>2 DEF Inv, TypeOK, BbrStruct
  <2>2. CASE Abstract!Advance
    BY <1>2, <2>1, <2>2
    DEF Abstract!Advance, Abstract!Measure, Abstract!Forward, Modes
  <2>3. CASE Abstract!Dip
    BY <1>2, <2>1, <2>3 DEF Abstract!Dip, Abstract!Measure
  <2>4. CASE Abstract!EndDip
    BY <1>2, <2>1, <2>4 DEF Abstract!EndDip, Abstract!Measure
  <2>5. CASE Abstract!GrowStale \/ UNCHANGED Abstract!vars
    BY <1>2, <2>1, <2>5 DEF Abstract!GrowStale, Abstract!vars
  <2> QED
    BY <1>2, <2>2, <2>3, <2>4, <2>5, StepImplements DEF Abstract!Next
<1>3. Inv /\ Inv' /\ Filling /\ [Next]_vars => Filling' /\ [Over]_vars
  BY <1>2
<1>4. Spec => [][Over]_vars
  BY <1>1, <1>3, Invariance, PTL DEF Spec
<1> QED
  BY <1>4

----------------------------------------------------------------------------
(* The gains.                                                              *)

(* A dip paces at the estimate, and so does a policed path.                *)
DipPacesEvenly == mode = "PROBE_RTT" => gain.pacing_gain = BBR_UNIT

GainsInv == GainsTypeOK /\ DipPacesEvenly /\ PolicedNeverProbes /\ GainFitsPhase

(* The gains in order: draining, cruising, probing, filling the pipe.      *)
LEMMA GainValues ==
  /\ BBR_UNIT \in 0..bbr_high_gain
  /\ bbr_high_gain \in 0..bbr_high_gain
  /\ bbr_drain_gain \in 0..bbr_high_gain
  /\ \A i \in 0..(CYCLE_LEN - 1) : bbr_pacing_gain(i) \in 0..bbr_high_gain
BY BbrGainsAssumption DEF bbr_high_gain, bbr_drain_gain, bbr_pacing_gain

LEMMA Phases ==
  ASSUME NEW i \in Nat
  PROVE  (i + 1) % CYCLE_LEN \in 0..(CYCLE_LEN - 1)
BY BbrGainsAssumption

(* What the parts of an ACK leave alone.                                   *)
SameRate(g, h) == h.lt_use_bw = g.lt_use_bw /\ h.pacing_gain = g.pacing_gain

LEMMA Restart ==
  ASSUME NEW g \in GainFields,
         NEW h \in bbr_reset_probe_bw_mode(g)
  PROVE  h \in GainFields /\ SameRate(g, h)
<1>1. PICK i \in 1..(CYCLE_LEN - 1) : h = [g EXCEPT !.cycle_idx = (i + 1) % CYCLE_LEN]
  BY DEF bbr_reset_probe_bw_mode
<1> DEFINE k == (i + 1) % CYCLE_LEN
<1>2. k \in 0..(CYCLE_LEN - 1)
  BY BbrGainsAssumption, Phases
<1> HIDE DEF k
<1>3. h = [g EXCEPT !.cycle_idx = k]
  BY <1>1 DEF k
<1> QED
  BY <1>2, <1>3 DEF GainFields, SameRate

LEMMA NextPhase ==
  ASSUME NEW g \in GainFields, NEW losses \in BOOLEAN,
         NEW whole \in BOOLEAN, NEW hit \in BOOLEAN
  PROVE  LET h == bbr_update_cycle_phase(g, losses, whole, hit)
         IN  h \in GainFields /\ SameRate(g, h)
<1> DEFINE h == bbr_update_cycle_phase(g, losses, whole, hit)
           k == (g.cycle_idx + 1) % CYCLE_LEN
<1>1. h = g \/ h = [g EXCEPT !.cycle_idx = k]
  BY DEF bbr_update_cycle_phase, bbr_advance_cycle_phase
<1>2. k \in 0..(CYCLE_LEN - 1)
  BY BbrGainsAssumption, Phases DEF GainFields
<1> HIDE DEF k, h
<1>3. h \in GainFields /\ SameRate(g, h)
  BY <1>1, <1>2 DEF GainFields, SameRate
<1> QED
  BY <1>3 DEF h

LEMMA Move ==
  ASSUME NEW g \in GainFields, NEW h \in MoveMode(g)
  PROVE  h \in GainFields /\ SameRate(g, h)
<1>1. CASE h \in bbr_reset_probe_bw_mode(g)
  BY <1>1, Restart
<1>2. CASE h = g \/ h = [g EXCEPT !.cycle_idx = 0]
  BY BbrGainsAssumption, <1>2 DEF GainFields, SameRate
<1> QED
  BY <1>1, <1>2 DEF MoveMode

LEMMA SetGain ==
  ASSUME NEW g \in GainFields, NEW m \in Machine!Modes
  PROVE  LET h == bbr_update_gains(g, m)
         IN  /\ h \in GainFields
             /\ h.lt_use_bw = g.lt_use_bw
             /\ m = "PROBE_RTT" => h.pacing_gain = BBR_UNIT
             /\ m = "PROBE_BW" =>
                  h.pacing_gain = IF h.lt_use_bw THEN BBR_UNIT
                                  ELSE bbr_pacing_gain(h.cycle_idx)
<1> DEFINE p == CASE m = "STARTUP"   -> bbr_high_gain
                  [] m = "DRAIN"     -> bbr_drain_gain
                  [] m = "PROBE_BW"  -> IF g.lt_use_bw THEN BBR_UNIT
                                        ELSE bbr_pacing_gain(g.cycle_idx)
                  [] m = "PROBE_RTT" -> BBR_UNIT
           h == bbr_update_gains(g, m)
<1>1. h = [g EXCEPT !.pacing_gain = p]
  BY DEF bbr_update_gains
<1>2. /\ m = "PROBE_RTT" => p = BBR_UNIT
      /\ m = "PROBE_BW" => p = IF g.lt_use_bw THEN BBR_UNIT
                               ELSE bbr_pacing_gain(g.cycle_idx)
      /\ m = "STARTUP" => p = bbr_high_gain
      /\ m = "DRAIN" => p = bbr_drain_gain
  OBVIOUS
<1>3. m \in {"STARTUP", "DRAIN", "PROBE_BW", "PROBE_RTT"}
  BY DEF Machine!Modes
<1>4. g.cycle_idx \in 0..(CYCLE_LEN - 1)
  BY DEF GainFields
<1> HIDE DEF p, h
<1>5. p \in 0..bbr_high_gain
  BY <1>2, <1>3, <1>4, GainValues
<1> QED
  BY <1>1, <1>2, <1>5 DEF GainFields, h

(* What sampling does to a record: the number of rounds it counted stays   *)
(* in its bounds, and a policer that was just found sets the gain.         *)
Sampled(g, h) ==
  /\ h \in GainFields
  /\ h.lt_use_bw /\ ~g.lt_use_bw => h.pacing_gain = BBR_UNIT
  /\ h.pacing_gain \in {g.pacing_gain, BBR_UNIT}
  /\ \/ h.cycle_idx = g.cycle_idx
     \/ g.lt_use_bw /\ mode = "PROBE_BW" /\ h.pacing_gain = g.pacing_gain

LEMMA ResetSampling ==
  ASSUME NEW g \in GainFields
  PROVE  LET h == bbr_reset_lt_bw_sampling(g)
         IN  /\ h \in GainFields /\ ~h.lt_use_bw
             /\ h.pacing_gain = g.pacing_gain /\ h.cycle_idx = g.cycle_idx
<1>1. 0 \in 0..MaxLtCnt
  BY BbrGainsAssumption DEF MaxLtCnt
<1> QED
  BY <1>1 DEF bbr_reset_lt_bw_sampling, GainFields

LEMMA IntervalDone ==
  ASSUME NEW g \in GainFields,
         NEW h \in bbr_lt_bw_interval_done(g)
  PROVE  /\ h \in GainFields
         /\ h.lt_use_bw => h.pacing_gain = BBR_UNIT
         /\ h.pacing_gain \in {g.pacing_gain, BBR_UNIT}
         /\ h.cycle_idx = g.cycle_idx
<1> DEFINE found == g.lt_bw > 0
<1> found \in BOOLEAN
  OBVIOUS
<1> HIDE DEF found
<1>1. PICK w \in {0, 1}, use \in {FALSE, found} :
        h = [g EXCEPT !.lt_bw = w, !.lt_rtt_cnt = 0, !.lt_use_bw = use,
                      !.pacing_gain = IF use THEN BBR_UNIT ELSE g.pacing_gain]
  BY DEF bbr_lt_bw_interval_done, found
<1>2. 0 \in 0..MaxLtCnt
  BY BbrGainsAssumption DEF MaxLtCnt
<1>3. use \in BOOLEAN
  OBVIOUS
<1>4. BBR_UNIT \in 0..bbr_high_gain
  BY GainValues
<1> QED
  BY <1>1, <1>2, <1>3, <1>4 DEF GainFields

LEMMA Sample ==
  ASSUME NEW g \in GainFields, ~g.lt_use_bw,
         NEW losses \in BOOLEAN, NEW app_limited \in BOOLEAN,
         NEW round \in BOOLEAN,
         NEW h \in lt_sample(g, losses, app_limited, round)
  PROVE  Sampled(g, h)
<1> DEFINE on == IF g.lt_is_sampling THEN g
                 ELSE [g EXCEPT !.lt_is_sampling = TRUE, !.lt_rtt_cnt = 0]
           n  == on.lt_rtt_cnt + (IF round THEN 1 ELSE 0)
           at == [on EXCEPT !.lt_rtt_cnt = on.lt_rtt_cnt
                                             + (IF round THEN 1 ELSE 0)]
<1>1. /\ MaxLtCnt \in Nat /\ 4 * LtMinRtts <= MaxLtCnt /\ LtMinRtts \in Nat
  BY BbrGainsAssumption DEF MaxLtCnt
<1>2. /\ on \in GainFields /\ ~on.lt_use_bw
      /\ on.pacing_gain = g.pacing_gain /\ on.cycle_idx = g.cycle_idx
  <2>1. CASE g.lt_is_sampling
    BY <2>1 DEF GainFields
  <2>2. CASE ~g.lt_is_sampling
    <3>1. on = [g EXCEPT !.lt_is_sampling = TRUE, !.lt_rtt_cnt = 0]
      BY <2>2
    <3>2. 0 \in 0..MaxLtCnt
      BY <1>1
    <3> QED
      BY <3>1, <3>2 DEF GainFields
  <2> QED
    BY <2>1, <2>2
<1>3. at = [on EXCEPT !.lt_rtt_cnt = n] /\ at.lt_rtt_cnt = n /\ n \in Nat
  BY <1>2 DEF GainFields
<1> HIDE DEF on
<1>4. h = bbr_reset_lt_bw_sampling(on)
      \/ /\ ~(at.lt_rtt_cnt > 4 * LtMinRtts)
         /\ \/ h = at \/ h = bbr_reset_lt_bw_sampling(at)
            \/ h \in bbr_lt_bw_interval_done(at)
  BY DEF lt_sample, on
<1> HIDE DEF at, n
<1>5. CASE h = bbr_reset_lt_bw_sampling(on)
  BY <1>2, <1>5, ResetSampling DEF Sampled
<1>6. CASE /\ ~(at.lt_rtt_cnt > 4 * LtMinRtts)
           /\ \/ h = at \/ h = bbr_reset_lt_bw_sampling(at)
              \/ h \in bbr_lt_bw_interval_done(at)
  <2>1. n \in 0..MaxLtCnt
    BY <1>1, <1>3, <1>6
  <2>2. /\ at \in GainFields /\ ~at.lt_use_bw
        /\ at.pacing_gain = g.pacing_gain /\ at.cycle_idx = g.cycle_idx
    BY <1>2, <1>3, <2>1 DEF GainFields
  <2>3. CASE h = at
    BY <2>2, <2>3 DEF Sampled
  <2>4. CASE h = bbr_reset_lt_bw_sampling(at)
    BY <2>2, <2>4, ResetSampling DEF Sampled
  <2>5. CASE h \in bbr_lt_bw_interval_done(at)
    BY <2>2, <2>5, IntervalDone DEF Sampled
  <2> QED
    BY <1>6, <2>3, <2>4, <2>5
<1> QED
  BY <1>4, <1>5, <1>6

LEMMA Sampling ==
  ASSUME NEW g \in GainFields,
         NEW losses \in BOOLEAN, NEW app_limited \in BOOLEAN,
         NEW round \in BOOLEAN,
         NEW h \in bbr_lt_bw_sampling(g, losses, app_limited, round)
  PROVE  Sampled(g, h)
<1>1. CASE g.lt_use_bw /\ mode = "PROBE_BW" /\ round
  <2>1. CASE g.lt_rtt_cnt + 1 >= LtMaxRtts
    <3> DEFINE r == bbr_reset_lt_bw_sampling(g)
    <3>1. h \in bbr_reset_probe_bw_mode(r)
      BY <1>1, <2>1 DEF bbr_lt_bw_sampling
    <3>2. r \in GainFields /\ ~r.lt_use_bw /\ r.pacing_gain = g.pacing_gain
      BY ResetSampling
    <3> HIDE DEF r
    <3> QED
      BY <1>1, <3>1, <3>2, Restart DEF Sampled, SameRate
  <2>2. CASE ~(g.lt_rtt_cnt + 1 >= LtMaxRtts)
    <3>1. h = [g EXCEPT !.lt_rtt_cnt = g.lt_rtt_cnt + 1]
      BY <1>1, <2>2 DEF bbr_lt_bw_sampling
    <3>2. MaxLtCnt \in Nat /\ LtMaxRtts <= MaxLtCnt /\ LtMaxRtts \in Nat
      BY BbrGainsAssumption DEF MaxLtCnt
    <3>3. g.lt_rtt_cnt + 1 \in 0..MaxLtCnt
      BY <2>2, <3>2 DEF GainFields
    <3> QED
      BY <1>1, <3>1, <3>3 DEF Sampled, GainFields
  <2> QED
    BY <2>1, <2>2
<1>2. CASE ~(g.lt_use_bw /\ mode = "PROBE_BW" /\ round)
           /\ ~g.lt_use_bw /\ (g.lt_is_sampling \/ losses)
  <2>1. h \in lt_sample(g, losses, app_limited, round)
    BY <1>2 DEF bbr_lt_bw_sampling
  <2> QED
    BY <1>2, <2>1, Sample
<1>3. CASE ~(g.lt_use_bw /\ mode = "PROBE_BW" /\ round)
           /\ ~(~g.lt_use_bw /\ (g.lt_is_sampling \/ losses))
  <2>1. h = g
    BY <1>3 DEF bbr_lt_bw_sampling
  <2> QED
    BY <2>1 DEF Sampled
<1> QED
  BY <1>1, <1>2, <1>3

LEMMA GainsInitInv == ASSUME GainsInit PROVE GainsInv
<1>1. gain \in GainFields
  BY BbrGainsAssumption, GainValues DEF GainsInit, GainFields, MaxLtCnt
<1> QED
  BY <1>1 DEF GainsInit, Machine!Init, Machine!Modes, GainsInv, GainsTypeOK, DipPacesEvenly,
     PolicedNeverProbes, GainFitsPhase

(* The abstract mode machine keeps its types.                              *)
LEMMA MachineTypes ==
  ASSUME GainsTypeOK, Machine!Next
  PROVE  mode' \in Machine!Modes /\ full' \in BOOLEAN /\ stale' \in BOOLEAN
<1>1. mode \in Machine!Modes /\ full \in BOOLEAN /\ stale \in BOOLEAN
  BY DEF GainsTypeOK
<1>2. CASE Machine!Advance
  <2>1. full' \in BOOLEAN /\ stale' \in {FALSE, stale}
        /\ mode' \in Machine!Forward(mode, full')
    BY <1>2 DEF Machine!Advance, Machine!Measure
  <2>2. mode' \in {"DRAIN", "PROBE_BW", "STARTUP", mode}
    BY <2>1 DEF Machine!Forward
  <2> QED
    BY <1>1, <2>1, <2>2 DEF Machine!Modes
<1>3. CASE Machine!Dip
  BY <1>3 DEF Machine!Dip, Machine!Measure, Machine!Modes
<1>4. CASE Machine!EndDip
  BY <1>4 DEF Machine!EndDip, Machine!Measure, Machine!Modes
<1>5. CASE Machine!GrowStale
  BY <1>1, <1>5 DEF Machine!GrowStale
<1> QED
  BY <1>2, <1>3, <1>4, <1>5 DEF Machine!Next

(* After an ACK the gain is that of the mode and phase.                    *)
LEMMA GainsAckInv ==
  ASSUME GainsInv, GainsAck
  PROVE  GainsInv'
<1>1. PICK losses \in BOOLEAN, app_limited \in BOOLEAN, valid \in BOOLEAN,
           round \in BOOLEAN : GainsOnAck(losses, app_limited, valid, round)
  BY DEF GainsAck
<1>2. Machine!Next /\ gain \in GainFields
  BY <1>1 DEF GainsOnAck, Machine!Next, GainsInv, GainsTypeOK
<1>3. mode' \in Machine!Modes /\ full' \in BOOLEAN /\ stale' \in BOOLEAN
  BY <1>2, MachineTypes DEF GainsInv
<1>4. PICK g \in IF valid
                 THEN bbr_lt_bw_sampling(gain, losses, app_limited, round)
                 ELSE {gain}, whole \in BOOLEAN, hit \in BOOLEAN :
        \E h \in MoveMode(bbr_update_cycle_phase(g, losses, whole, hit)) :
          gain' = bbr_update_gains(h, mode')
  BY <1>1 DEF GainsOnAck
<1>5. PICK h \in MoveMode(bbr_update_cycle_phase(g, losses, whole, hit)) :
        gain' = bbr_update_gains(h, mode')
  BY <1>4
<1>6. g \in GainFields
  <2>1. CASE valid
    BY <1>2, <2>1, Sampling DEF Sampled
  <2>2. CASE ~valid
    BY <1>2, <2>2
  <2> QED
    BY <2>1, <2>2
<1>7. bbr_update_cycle_phase(g, losses, whole, hit) \in GainFields
  BY <1>6, NextPhase
<1>8. h \in GainFields
  BY <1>7, Move
<1>9. /\ gain' \in GainFields
      /\ mode' = "PROBE_RTT" => gain'.pacing_gain = BBR_UNIT
      /\ mode' = "PROBE_BW" =>
           gain'.pacing_gain = IF gain'.lt_use_bw THEN BBR_UNIT
                               ELSE bbr_pacing_gain(gain'.cycle_idx)
  BY <1>3, <1>5, <1>8, SetGain
<1> QED
  BY <1>3, <1>9 DEF GainsInv, GainsTypeOK, DipPacesEvenly, PolicedNeverProbes, GainFitsPhase

(* A dip that ends between two ACKs leaves its even gain to the phase.     *)
LEMMA GainsCwndEventInv ==
  ASSUME GainsInv, GainsOnRestart
  PROVE  GainsInv'
<1>1. /\ Machine!Next /\ mode = "PROBE_RTT" /\ mode' # "PROBE_RTT"
      /\ gain' \in MoveMode(gain) /\ gain \in GainFields
  BY DEF GainsOnRestart, Machine!Next, Machine!EndDip, GainsInv, GainsTypeOK
<1>2. mode' \in Machine!Modes /\ full' \in BOOLEAN /\ stale' \in BOOLEAN
  BY <1>1, MachineTypes DEF GainsInv
<1>3. gain' \in GainFields /\ SameRate(gain, gain')
  BY <1>1, Move
<1>4. gain'.pacing_gain = BBR_UNIT
  BY <1>1, <1>3 DEF GainsInv, DipPacesEvenly, SameRate
<1> QED
  BY <1>1, <1>2, <1>3, <1>4 DEF GainsInv, GainsTypeOK, DipPacesEvenly,
     PolicedNeverProbes, GainFitsPhase

(* A timeout may find a policer or give up on one.                         *)
LEMMA LossInv ==
  ASSUME GainsInv, GainsOnTimeout
  PROVE  GainsInv'
<1>1. /\ gain \in GainFields /\ UNCHANGED <<mode, full, stale>>
      /\ gain' \in bbr_lt_bw_sampling(gain, TRUE, FALSE, TRUE)
  BY DEF GainsOnTimeout, GainsInv, GainsTypeOK
<1>2. Sampled(gain, gain')
  BY <1>1, Sampling
<1>3. GainsTypeOK' /\ DipPacesEvenly'
  BY <1>1, <1>2 DEF Sampled, GainsInv, GainsTypeOK, DipPacesEvenly
<1>4. PolicedNeverProbes'
  BY <1>1, <1>2 DEF Sampled, GainsInv, PolicedNeverProbes
<1>5. GainFitsPhase'
  <2>1. CASE gain'.cycle_idx = gain.cycle_idx
    BY <1>1, <1>2, <2>1 DEF Sampled, GainsInv, GainFitsPhase
  <2>2. CASE /\ gain.lt_use_bw /\ mode = "PROBE_BW"
             /\ gain'.pacing_gain = gain.pacing_gain
    BY <1>1, <2>2 DEF GainsInv, PolicedNeverProbes, GainFitsPhase
  <2> QED
    BY <1>2, <2>1, <2>2 DEF Sampled
<1> QED
  BY <1>3, <1>4, <1>5 DEF GainsInv

LEMMA GainsUndoInv ==
  ASSUME GainsInv, GainsOnUndo
  PROVE  GainsInv'
<1>1. /\ UNCHANGED <<mode, full, stale>>
      /\ gain' \in GainFields /\ ~gain'.lt_use_bw
      /\ gain'.pacing_gain = gain.pacing_gain
      /\ gain'.cycle_idx = gain.cycle_idx
  BY ResetSampling DEF GainsOnUndo, GainsInv, GainsTypeOK
<1> QED
  BY <1>1 DEF GainsInv, GainsTypeOK, DipPacesEvenly, PolicedNeverProbes, GainFitsPhase

LEMMA GainsNextInv ==
  ASSUME GainsInv, [GainsNext]_gainsVars
  PROVE  GainsInv'
<1>1. CASE GainsStale
  BY <1>1 DEF GainsStale, Machine!GrowStale, GainsInv, GainsTypeOK, DipPacesEvenly,
     PolicedNeverProbes, GainFitsPhase
<1>2. CASE UNCHANGED gainsVars
  BY <1>2 DEF gainsVars, GainsInv, GainsTypeOK, DipPacesEvenly, PolicedNeverProbes, GainFitsPhase
<1> QED
  BY <1>1, <1>2, GainsAckInv, GainsCwndEventInv, LossInv, GainsUndoInv DEF GainsNext

LEMMA GainsInvariance == GainsSpec => []GainsInv
<1>1. GainsInit => GainsInv
  BY GainsInitInv
<1>2. GainsInv /\ [GainsNext]_gainsVars => GainsInv'
  BY GainsNextInv
<1> QED
  BY <1>1, <1>2, PTL DEF GainsSpec

(* Gains, phases and counts of rounds stay in their ranges.                *)
THEOREM GainsTyped == GainsSpec => []GainsTypeOK
BY GainsInvariance, PTL DEF GainsInv

(* A policer that was found, by an ACK or by a timeout between two ACKs,   *)
(* stops the probing at once, for every cycle and interval.                *)
THEOREM NeverProbesWhenPoliced == GainsSpec => []PolicedNeverProbes
BY GainsInvariance, PTL DEF GainsInv

(* In PROBE_BW no gain outlives its phase or its mode.                     *)
THEOREM GainOfThePhase == GainsSpec => []GainFitsPhase
BY GainsInvariance, PTL DEF GainsInv

(* The gain cycle and the long-term rate move the mode only as BbrModes    *)
(* promises, which is what Bbr is shown to do (ModesImplement): the two    *)
(* parts of struct bbr agree on the mode they share (bbr.bpf.c:740-781,    *)
(* 797-815, 961-1010).                                                     *)
THEOREM GainsImplementModes == GainsSpec => Machine!Spec
<1>1. GainsInit => Machine!Init
  BY DEF GainsInit
<1>2. [GainsNext]_gainsVars => [Machine!Next]_Machine!vars
  <2>1. ASSUME NEW losses, NEW app_limited, NEW valid, NEW round,
               GainsOnAck(losses, app_limited, valid, round)
        PROVE  Machine!Next
    BY <2>1 DEF GainsOnAck, Machine!Next
  <2>2. GainsAck => Machine!Next
    BY <2>1 DEF GainsAck
  <2>3. GainsOnRestart \/ GainsStale => Machine!Next
    BY DEF GainsOnRestart, GainsStale, Machine!Next
  <2>4. GainsOnTimeout \/ GainsOnUndo \/ UNCHANGED gainsVars
          => UNCHANGED Machine!vars
    BY DEF GainsOnTimeout, GainsOnUndo, gainsVars, Machine!vars
  <2> QED
    BY <2>2, <2>3, <2>4 DEF GainsNext
<1> QED
  BY <1>1, <1>2, PTL DEF GainsSpec, Machine!Spec

----------------------------------------------------------------------------
(* The estimate of ACK aggregation.  The slot in use holds the largest     *)
(* excess of the rounds since the slots last took turns, and the other one *)
(* that of the WinRtts rounds before, as long as these fit a slot.         *)
LargestOf(v, r, lo, hi) ==
  (\A k \in lo..hi : r[k] < U16) =>
    /\ \A k \in lo..hi : r[k] <= v
    /\ \E k \in lo..hi : r[k] = v

Slots(a, r) ==
  /\ a \in AggrFields /\ r \in [Ages -> Nat]
  /\ LargestOf(a.extra_acked[a.extra_acked_win_idx], r,
               0, a.extra_acked_win_rtts)
  /\ LargestOf(a.extra_acked[1 - a.extra_acked_win_idx], r,
               a.extra_acked_win_rtts + 1, a.extra_acked_win_rtts + WinRtts)

AggrInv == Slots(aggr, recent)

LEMMA AgedIs ==
  ASSUME NEW r \in [Ages -> Nat]
  PROVE  /\ Aged(r) \in [Ages -> Nat] /\ Aged(r)[0] = 0
         /\ \A k \in Ages : k # 0 => Aged(r)[k] = r[k - 1]
<1>1. \A k \in Ages : k # 0 => k - 1 \in Ages
  BY BbrAggrAssumption DEF Ages
<1>2. 0 \in Ages
  BY BbrAggrAssumption DEF Ages
<1> QED
  BY <1>1, <1>2 DEF Aged

(* A maximum over some ages is one over the next ages of the aged history. *)
LEMMA LargestAges ==
  ASSUME NEW r \in [Ages -> Nat], NEW v, NEW lo \in Nat, NEW hi \in Nat,
         hi + 1 \in Ages, LargestOf(v, r, lo, hi)
  PROVE  LargestOf(v, Aged(r), lo + 1, hi + 1)
<1> DEFINE q == Aged(r)
<1>1. \A k \in lo..hi : k + 1 \in (lo + 1)..(hi + 1) /\ q[k + 1] = r[k]
  <2>1. \A k \in lo..hi : k + 1 \in Ages /\ k + 1 # 0 /\ (k + 1) - 1 = k
    BY BbrAggrAssumption DEF Ages
  <2> QED
    BY <2>1, AgedIs
<1>2. \A k \in (lo + 1)..(hi + 1) : k - 1 \in lo..hi /\ q[k] = r[k - 1]
  <2>1. \A k \in (lo + 1)..(hi + 1) : k \in Ages /\ k # 0 /\ k - 1 \in lo..hi
    BY BbrAggrAssumption DEF Ages
  <2> QED
    BY <2>1, AgedIs
<1> HIDE DEF q
<1> SUFFICES ASSUME \A k \in (lo + 1)..(hi + 1) : q[k] < U16
             PROVE  /\ \A k \in (lo + 1)..(hi + 1) : q[k] <= v
                    /\ \E k \in (lo + 1)..(hi + 1) : q[k] = v
  BY DEF LargestOf, q
<1>3. \A k \in lo..hi : r[k] < U16
  BY <1>1
<1>4. /\ \A k \in lo..hi : r[k] <= v
      /\ \E k \in lo..hi : r[k] = v
  BY <1>3 DEF LargestOf
<1> QED
  BY <1>1, <1>2, <1>4

(* A maximum up to the present is one with a round of no excess more.      *)
LEMMA LargestFromNow ==
  ASSUME NEW r \in [Ages -> Nat], NEW v \in Nat, NEW hi \in Nat,
         hi + 1 \in Ages, LargestOf(v, r, 0, hi)
  PROVE  LargestOf(v, Aged(r), 0, hi + 1)
<1> DEFINE q == Aged(r)
<1>1. LargestOf(v, q, 1, hi + 1) /\ q[0] = 0
  BY LargestAges, AgedIs
<1> HIDE DEF q
<1>2. \A k \in 0..(hi + 1) : k = 0 \/ k \in 1..(hi + 1)
  OBVIOUS
<1>3. \A k \in 1..(hi + 1) : k \in 0..(hi + 1)
  OBVIOUS
<1> QED
  BY <1>1, <1>2, <1>3 DEF LargestOf, q

LEMMA AgeSlots ==
  ASSUME NEW a \in AggrFields, NEW r \in [Ages -> Nat], Slots(a, r)
  PROVE  Slots(age_extra_acked(a), Aged(r))
<1> DEFINE i == a.extra_acked_win_idx
           w == a.extra_acked_win_rtts
           e == a.extra_acked
           b == age_extra_acked(a)
           q == Aged(r)
<1>1. /\ WinRtts \in Nat /\ WinRtts >= 1 /\ U16 \in Nat /\ U16 >= 1
      /\ EpochMax \in Nat
  BY BbrAggrAssumption
<1>2. /\ a \in AggrFields /\ r \in [Ages -> Nat]
      /\ i \in {0, 1} /\ 1 - i \in {0, 1} /\ w \in 0..(WinRtts - 1)
      /\ e \in [{0, 1} -> 0..(U16 - 1)]
      /\ LargestOf(e[i], r, 0, w)
      /\ LargestOf(e[1 - i], r, w + 1, w + WinRtts)
  BY DEF Slots, AggrFields
<1>3. q \in [Ages -> Nat] /\ q[0] = 0
  BY <1>2, AgedIs
<1>4. CASE w + 1 < WinRtts
  <2>1. b = [a EXCEPT !.extra_acked_win_rtts = w + 1]
    BY <1>4 DEF age_extra_acked
  <2>2. /\ b \in AggrFields
        /\ b.extra_acked_win_idx = i /\ b.extra_acked_win_rtts = w + 1
        /\ b.extra_acked = e
    BY <1>1, <1>2, <1>4, <2>1 DEF AggrFields
  <2>3. w \in Nat /\ w + 1 \in Ages /\ (w + WinRtts) + 1 \in Ages
        /\ w + WinRtts \in Nat /\ e[i] \in Nat
        /\ (w + WinRtts) + 1 = (w + 1) + WinRtts
    <3>1. w \in Nat /\ w + 1 \in Nat /\ e[i] \in 0..(U16 - 1)
      BY <1>1, <1>2
    <3> HIDE DEF w, e, i
    <3> QED
      BY <1>1, <1>4, <3>1 DEF Ages
  <2>4. LargestOf(e[i], q, 0, w + 1)
    BY <1>2, <2>3, LargestFromNow
  <2>5. LargestOf(e[1 - i], q, (w + 1) + 1, (w + WinRtts) + 1)
    BY <1>2, <2>3, LargestAges
  <2>6. b.extra_acked[1 - i] = e[1 - i] /\ b.extra_acked[i] = e[i]
    BY <2>2
  <2> HIDE DEF b, q, e, i, w
  <2>7. /\ LargestOf(b.extra_acked[b.extra_acked_win_idx], q,
                     0, b.extra_acked_win_rtts)
        /\ LargestOf(b.extra_acked[1 - b.extra_acked_win_idx], q,
                     b.extra_acked_win_rtts + 1,
                     b.extra_acked_win_rtts + WinRtts)
    BY <2>2, <2>3, <2>4, <2>5, <2>6
  <2>8. Slots(b, q)
    BY <1>3, <2>2, <2>7 DEF Slots
  <2> QED
    BY <2>8 DEF b, q
<1>5. CASE ~(w + 1 < WinRtts)
  <2>1. w = WinRtts - 1
    BY <1>1, <1>2, <1>5
  <2>2. b = [a EXCEPT !.extra_acked_win_rtts = 0, !.extra_acked_win_idx = 1 - i,
                      !.extra_acked = [e EXCEPT ![1 - i] = 0]]
    BY <1>2, <1>5 DEF age_extra_acked, AggrFields
  <2>3. [e EXCEPT ![1 - i] = 0] \in [{0, 1} -> 0..(U16 - 1)]
    BY <1>1, <1>2
  <2>4. /\ b \in AggrFields
        /\ b.extra_acked_win_idx = 1 - i /\ b.extra_acked_win_rtts = 0
        /\ b.extra_acked = [e EXCEPT ![1 - i] = 0]
    <3>1. 0 \in 0..(WinRtts - 1)
      BY <1>1
    <3> HIDE DEF e, i, w
    <3> QED
      BY <1>2, <2>2, <2>3, <3>1 DEF AggrFields
  <2>5. /\ b.extra_acked[1 - i] = 0
        /\ b.extra_acked[1 - (1 - i)] = e[i]
    BY <1>2, <2>4
  <2>6. LargestOf(0, q, 0, 0)
    BY <1>3 DEF LargestOf
  <2>7. w \in Nat /\ w + 1 \in Ages /\ w + 1 = 0 + WinRtts
    BY <1>1, <1>2, <2>1 DEF Ages
  <2>8. LargestOf(e[i], q, 0 + 1, 0 + WinRtts)
    BY <1>2, <2>7, LargestAges
  <2> HIDE DEF b, q, e, i, w
  <2>9. /\ LargestOf(b.extra_acked[b.extra_acked_win_idx], q,
                     0, b.extra_acked_win_rtts)
        /\ LargestOf(b.extra_acked[1 - b.extra_acked_win_idx], q,
                     b.extra_acked_win_rtts + 1,
                     b.extra_acked_win_rtts + WinRtts)
    BY <2>4, <2>5, <2>6, <2>8
  <2>10. Slots(b, q)
    BY <1>3, <2>4, <2>9 DEF Slots
  <2> QED
    BY <2>10 DEF b, q
<1> QED
  BY <1>4, <1>5

LEMMA KeepExcess ==
  ASSUME NEW a \in AggrFields, NEW r \in [Ages -> Nat], Slots(a, r), NEW n \in 0..EpochMax, NEW x \in Nat
  PROVE  Slots(keep_extra_acked([a EXCEPT !.ack_epoch_acked = n], x),
               [r EXCEPT ![0] = Larger(@, x)])
<1> DEFINE i == a.extra_acked_win_idx
           w == a.extra_acked_win_rtts
           e == a.extra_acked
           v == IF x > e[i] THEN x % U16 ELSE e[i]
           b == keep_extra_acked([a EXCEPT !.ack_epoch_acked = n], x)
           q == [r EXCEPT ![0] = Larger(@, x)]
<1>1. /\ WinRtts \in Nat /\ WinRtts >= 1 /\ U16 \in Nat /\ U16 >= 1
  BY BbrAggrAssumption
<1>2. /\ a \in AggrFields /\ r \in [Ages -> Nat]
      /\ i \in {0, 1} /\ 1 - i \in {0, 1} /\ 1 - i # i /\ w \in 0..(WinRtts - 1)
      /\ e \in [{0, 1} -> 0..(U16 - 1)]
      /\ LargestOf(e[i], r, 0, w)
      /\ LargestOf(e[1 - i], r, w + 1, w + WinRtts)
  BY DEF Slots, AggrFields
<1>3. v \in 0..(U16 - 1)
  BY <1>1, <1>2
<1>4. b = [a EXCEPT !.ack_epoch_acked = n, !.extra_acked = [e EXCEPT ![i] = v]]
  BY <1>2 DEF keep_extra_acked, AggrFields
<1>5. /\ b \in AggrFields
      /\ b.extra_acked_win_idx = i /\ b.extra_acked_win_rtts = w
      /\ b.extra_acked[i] = v /\ b.extra_acked[1 - i] = e[1 - i]
  <2>1. [e EXCEPT ![i] = v] \in [{0, 1} -> 0..(U16 - 1)]
    BY <1>2, <1>3
  <2> HIDE DEF v, e, i, w
  <2> QED
    BY <1>2, <1>4, <2>1 DEF AggrFields, e, i, w
<1>6. /\ 0 \in Ages /\ \A k \in 0..(w + WinRtts) : k \in Ages
      /\ r[0] \in Nat
  BY <1>1, <1>2 DEF Ages
<1>7. /\ q \in [Ages -> Nat] /\ q[0] = Larger(r[0], x)
      /\ \A k \in Ages : k # 0 => q[k] = r[k]
  BY <1>2, <1>6 DEF Larger
<1>8. LargestOf(v, q, 0, w)
  <2> HIDE DEF b, q, w
  <2>0. \A k \in 0..w : k \in Ages /\ r[k] \in Nat
    BY <1>1, <1>2, <1>6
  <2> SUFFICES ASSUME \A k \in 0..w : q[k] < U16
               PROVE  (\A k \in 0..w : q[k] <= v) /\ \E k \in 0..w : q[k] = v
    BY DEF LargestOf
  <2>1. 0 \in 0..w
    BY <1>1, <1>2
  <2>2. x < U16 /\ r[0] < U16
    BY <1>1, <1>6, <1>7, <2>1 DEF Larger
  <2>3. \A k \in 0..w : r[k] < U16
    BY <1>7, <2>0, <2>2
  <2>4. (\A k \in 0..w : r[k] <= e[i]) /\ \E k \in 0..w : r[k] = e[i]
    BY <1>2, <2>3 DEF LargestOf
  <2>5. v = Larger(x, e[i]) /\ e[i] \in Nat
    BY <1>1, <1>2, <2>2 DEF Larger
  <2> HIDE DEF v, e, i
  <2>6. \A k \in 0..w : q[k] <= v
    BY <1>6, <1>7, <2>0, <2>1, <2>4, <2>5 DEF Larger
  <2>7. \E k \in 0..w : q[k] = v
    <3>1. CASE x > e[i]
      BY <1>6, <1>7, <2>1, <2>4, <2>5, <3>1 DEF Larger
    <3>2. CASE ~(x > e[i])
      <4>1. PICK k \in 0..w : r[k] = e[i]
        BY <2>4
      <4>2. q[k] = e[i]
        BY <1>6, <1>7, <2>0, <2>5, <3>2, <4>1 DEF Larger
      <4> QED
        BY <2>5, <3>2, <4>1, <4>2 DEF Larger
    <3> QED
      BY <3>1, <3>2
  <2> QED
    BY <2>6, <2>7
<1>9. LargestOf(e[1 - i], q, w + 1, w + WinRtts)
  <2>1. \A k \in (w + 1)..(w + WinRtts) : k \in Ages /\ k # 0
    <3>1. w \in 0..(WinRtts - 1)
      BY <1>2
    <3> HIDE DEF w
    <3> QED
      BY <1>1, <3>1 DEF Ages
  <2>2. \A k \in (w + 1)..(w + WinRtts) : q[k] = r[k]
    BY <1>7, <2>1
  <2> HIDE DEF q, e, i, w
  <2> QED
    BY <1>2, <2>2 DEF LargestOf
<1> HIDE DEF v, q, b, e, i, w
<1> QED
  BY <1>5, <1>7, <1>8, <1>9 DEF Slots, b, q

LEMMA AggrInvInit == AggrInit => AggrInv
<1> SUFFICES ASSUME AggrInit PROVE AggrInv
  OBVIOUS
<1>1. /\ WinRtts \in Nat /\ WinRtts >= 1 /\ U16 \in Nat /\ U16 >= 1
      /\ EpochMax \in Nat
  BY BbrAggrAssumption
<1>2. aggr \in AggrFields /\ recent \in [Ages -> Nat]
  BY <1>1 DEF AggrInit, AggrFields
<1>3. \A k \in 0..WinRtts : recent[k] = 0
  BY <1>1 DEF AggrInit, Ages
<1>4. LargestOf(0, recent, 0, 0) /\ LargestOf(0, recent, 0 + 1, 0 + WinRtts)
  BY <1>1, <1>3 DEF LargestOf
<1>5. /\ aggr.extra_acked_win_idx = 0 /\ aggr.extra_acked_win_rtts = 0
      /\ aggr.extra_acked[0] = 0 /\ aggr.extra_acked[1 - 0] = 0
  BY DEF AggrInit
<1> QED
  BY <1>2, <1>4, <1>5 DEF AggrInv, Slots

LEMMA AggrInvNext == AggrInv /\ [AggrNext]_aggrVars => AggrInv'
<1> SUFFICES ASSUME AggrInv, [AggrNext]_aggrVars PROVE AggrInv'
  OBVIOUS
<1>1. CASE AggrOnAck
  <2>1. PICK round \in BOOLEAN, sacked \in Sacked, expected \in Expected,
             cwnd \in Windows :
          bbr_update_ack_aggregation(round, sacked, expected, cwnd)
    BY <1>1 DEF AggrOnAck
  <2> DEFINE a == IF round THEN age_extra_acked(aggr) ELSE aggr
             r == IF round THEN Aged(recent) ELSE recent
             on == EpochGoesOn(a.ack_epoch_acked, sacked, expected)
             n == Smaller(EpochMax,
                          sacked + (IF on THEN a.ack_epoch_acked ELSE 0))
             x == Smaller(n - (IF on THEN expected ELSE 0), cwnd)
  <2>2. Slots(a, r) /\ a \in AggrFields /\ r \in [Ages -> Nat]
    <3>1. /\ Slots(aggr, recent) /\ aggr \in AggrFields
          /\ recent \in [Ages -> Nat]
      BY DEF AggrInv, Slots
    <3>2. Slots(age_extra_acked(aggr), Aged(recent))
      BY <3>1, AgeSlots
    <3>3. Slots(a, r)
      BY <3>1, <3>2
    <3> HIDE DEF a, r
    <3> QED
      BY <3>3 DEF Slots
  <2>3. /\ sacked \in Nat /\ expected \in Nat /\ cwnd \in Nat /\ EpochMax \in Nat
    BY BbrAggrAssumption
  <2>4. a.ack_epoch_acked \in 0..EpochMax
    BY <2>2 DEF Slots, AggrFields
  <2>5. /\ aggr' = keep_extra_acked([a EXCEPT !.ack_epoch_acked = n], x)
        /\ recent' = [r EXCEPT ![0] = Larger(@, x)]
    BY <2>1 DEF bbr_update_ack_aggregation
  <2> HIDE DEF a, r
  <2>6. n \in 0..EpochMax /\ x \in Nat
    BY <2>3, <2>4 DEF EpochGoesOn, Smaller
  <2> HIDE DEF n, x
  <2>7. Slots(aggr', recent')
    BY <2>2, <2>5, <2>6, KeepExcess
  <2> QED
    BY <2>7 DEF AggrInv
<1>2. CASE AggrOnRestart
  <2>1. /\ aggr' = [aggr EXCEPT !.ack_epoch_acked = 0] /\ recent' = recent
        /\ aggr \in AggrFields /\ 0 \in 0..EpochMax
    BY <1>2, BbrAggrAssumption DEF AggrOnRestart, AggrInv, Slots
  <2>2. /\ aggr' \in AggrFields
        /\ aggr'.extra_acked = aggr.extra_acked
        /\ aggr'.extra_acked_win_idx = aggr.extra_acked_win_idx
        /\ aggr'.extra_acked_win_rtts = aggr.extra_acked_win_rtts
    BY <2>1 DEF AggrFields
  <2> QED
    BY <2>1, <2>2 DEF AggrInv, Slots
<1>3. CASE UNCHANGED aggrVars
  BY <1>3 DEF aggrVars, AggrInv
<1> QED
  BY <1>1, <1>2, <1>3 DEF AggrNext

LEMMA AggrInvCovers == AggrInv => CoversRecentRounds
<1> SUFFICES ASSUME AggrInv, \A k \in Ages : recent[k] < U16
             PROVE  /\ \A k \in Ages : k <= WinRtts => recent[k] <= bbr_extra_acked
                    /\ \E k \in Ages : recent[k] = bbr_extra_acked
  BY DEF CoversRecentRounds
<1> DEFINE i == aggr.extra_acked_win_idx
           w == aggr.extra_acked_win_rtts
           e == aggr.extra_acked
<1>1. WinRtts \in Nat /\ WinRtts >= 1 /\ U16 \in Nat
  BY BbrAggrAssumption
<1>2. /\ i \in {0, 1} /\ w \in 0..(WinRtts - 1) /\ e[0] \in Nat /\ e[1] \in Nat
      /\ LargestOf(e[i], recent, 0, w)
      /\ LargestOf(e[1 - i], recent, w + 1, w + WinRtts)
  BY <1>1 DEF AggrInv, Slots, AggrFields
<1>3. /\ \A k \in 0..w : k \in Ages
      /\ \A k \in (w + 1)..(w + WinRtts) : k \in Ages
      /\ \A k \in Ages : k <= WinRtts => k \in 0..w \/ k \in (w + 1)..(w + WinRtts)
  BY <1>1, <1>2 DEF Ages
<1>4. \A k \in Ages : recent[k] \in Nat
  BY DEF AggrInv, Slots
<1>5. bbr_extra_acked = Larger(e[i], e[1 - i])
  BY <1>2 DEF bbr_extra_acked, Larger
<1>6. e[i] \in Nat /\ e[1 - i] \in Nat
  BY <1>2
<1> HIDE DEF i, w, e
<1>7. /\ \A k \in 0..w : recent[k] <= e[i]
      /\ \E k \in 0..w : recent[k] = e[i]
  BY <1>2, <1>3 DEF LargestOf
<1>8. /\ \A k \in (w + 1)..(w + WinRtts) : recent[k] <= e[1 - i]
      /\ \E k \in (w + 1)..(w + WinRtts) : recent[k] = e[1 - i]
  BY <1>2, <1>3 DEF LargestOf
<1>9. \A k \in Ages : k <= WinRtts => recent[k] <= bbr_extra_acked
  <2>1. /\ bbr_extra_acked \in Nat
        /\ e[i] <= bbr_extra_acked /\ e[1 - i] <= bbr_extra_acked
    BY <1>5, <1>6 DEF Larger
  <2> SUFFICES ASSUME NEW k \in Ages, k <= WinRtts
               PROVE  recent[k] <= bbr_extra_acked
    OBVIOUS
  <2>2. recent[k] \in Nat /\ (recent[k] <= e[i] \/ recent[k] <= e[1 - i])
    BY <1>3, <1>4, <1>7, <1>8
  <2> QED
    BY <1>6, <2>1, <2>2
<1>10. \E k \in Ages : recent[k] = bbr_extra_acked
  BY <1>3, <1>5, <1>7, <1>8 DEF Larger
<1> QED
  BY <1>9, <1>10

(* The fields of the estimate stay in their ranges.                        *)
THEOREM AggrTyped == AggrSpec => []AggrTypeOK
<1>1. AggrInv => AggrTypeOK
  BY DEF AggrInv, Slots, AggrTypeOK
<1> QED
  BY <1>1, AggrInvInit, AggrInvNext, PTL DEF AggrSpec

(* The estimate of ACK aggregation is a maximum over the last rounds, for  *)
(* every length of the window and width of the slots.                      *)
THEOREM RecentRoundsCovered == AggrSpec => []CoversRecentRounds
BY AggrInvInit, AggrInvNext, AggrInvCovers, PTL DEF AggrSpec
=============================================================================
