------------------------------ MODULE BbrAggr -------------------------------
(***************************************************************************)
(* bpf_bbr's estimate of ACK aggregation (bbr_update_ack_aggregation of    *)
(* bpf_bbr/bbr.bpf.c): how much more than expected is acknowledged at      *)
(* once.  The largest excess of the last rounds is added to the window, so *)
(* that sending goes on between two bursts of ACKs.  Two slots hold the    *)
(* largest excess of WinRtts rounds each and take turns.                   *)
(*                                                                         *)
(* What the bandwidth and the clock lead to expect is a choice, and so is  *)
(* the congestion window.  An ACK without a valid sample, or that delivers *)
(* nothing, returns early and starts no round; it is left out.             *)
(***************************************************************************)
EXTENDS Integers

CONSTANTS WinRtts,     \* bbr_extra_acked_win_rtts, 5
          EpochMax,    \* 0xFFFFF, one below bbr_ack_epoch_acked_reset_thresh
          U16,         \* 2^16, the range of a slot
          Sacked,      \* numbers of packets an ACK delivers
          Expected,    \* numbers of packets expected
          Windows      \* congestion windows

ASSUME BbrAggrAssumption ==
  /\ WinRtts \in Nat /\ WinRtts >= 1
  /\ EpochMax \in Nat
  /\ U16 \in Nat /\ U16 >= 1
  /\ Sacked \subseteq Nat \ {0}
  /\ Expected \subseteq Nat
  /\ Windows \subseteq Nat

VARIABLES aggr   \* the fields "for tracking ACK aggregation" of struct bbr

(* History: nothing below reads it.                                        *)
VARIABLES recent   \* the largest excess of each round, by its age

aggrVars == <<aggr, recent>>

Ages == 0..(2 * WinRtts - 1)

AggrFields ==
  [ack_epoch_acked: 0..EpochMax, extra_acked: [{0, 1} -> 0..(U16 - 1)],
   extra_acked_win_rtts: 0..(WinRtts - 1), extra_acked_win_idx: {0, 1}]

AggrTypeOK == aggr \in AggrFields /\ recent \in [Ages -> Nat]

Larger(x, y) == IF x >= y THEN x ELSE y
Smaller(x, y) == IF x <= y THEN x ELSE y

bbr_extra_acked == Larger(aggr.extra_acked[0], aggr.extra_acked[1])

----------------------------------------------------------------------------
clears_slot_in_use(a) ==   \* a slip: clears, then takes the other slot
  IF a.extra_acked_win_rtts + 1 < WinRtts
  THEN [a EXCEPT !.extra_acked_win_rtts = @ + 1]
  ELSE [a EXCEPT !.extra_acked_win_rtts = 0,
                 !.extra_acked_win_idx = 1 - @,
                 !.extra_acked[a.extra_acked_win_idx] = 0]

(* A round starts.  The bound of 31 on the age is out of reach.            *)
age_extra_acked(a) ==
  IF a.extra_acked_win_rtts + 1 < WinRtts
  THEN [a EXCEPT !.extra_acked_win_rtts = @ + 1]
  ELSE [a EXCEPT !.extra_acked_win_rtts = 0,
                 !.extra_acked_win_idx = 1 - @,
                 !.extra_acked[1 - a.extra_acked_win_idx] = 0]

(* A larger excess is kept in the 16 bits of its slot.                     *)
keep_extra_acked(a, excess) ==
  [a EXCEPT !.extra_acked[a.extra_acked_win_idx] =
     IF excess > @ THEN excess % U16 ELSE @]

Aged(r) == [k \in Ages |-> IF k = 0 THEN 0 ELSE r[k - 1]]

(* The epoch goes on as long as the ACKs are ahead of what is expected and *)
(* their count fits its field.                                             *)
EpochGoesOn(acked, sacked, expected) ==
  acked > expected /\ acked + sacked <= EpochMax

bbr_update_ack_aggregation(round, sacked, expected, cwnd) ==
  LET a      == IF round THEN age_extra_acked(aggr) ELSE aggr
      on     == EpochGoesOn(a.ack_epoch_acked, sacked, expected)
      acked  == Smaller(EpochMax, sacked + (IF on THEN a.ack_epoch_acked ELSE 0))
      excess == Smaller(acked - (IF on THEN expected ELSE 0), cwnd)
  IN  /\ aggr' = keep_extra_acked([a EXCEPT !.ack_epoch_acked = acked], excess)
      /\ recent' = [(IF round THEN Aged(recent) ELSE recent)
                      EXCEPT ![0] = Larger(@, excess)]

AggrOnAck ==
  \E round \in BOOLEAN, sacked \in Sacked, expected \in Expected, cwnd \in Windows :
    bbr_update_ack_aggregation(round, sacked, expected, cwnd)

(* bbr_cwnd_event, when an idle connection sends again.                    *)
AggrOnRestart ==
  /\ aggr' = [aggr EXCEPT !.ack_epoch_acked = 0]
  /\ UNCHANGED recent

AggrInit ==
  /\ aggr = [ack_epoch_acked |-> 0, extra_acked |-> [i \in {0, 1} |-> 0],
             extra_acked_win_rtts |-> 0, extra_acked_win_idx |-> 0]
  /\ recent = [k \in Ages |-> 0]

AggrNext == AggrOnAck \/ AggrOnRestart

AggrSpec == AggrInit /\ [][AggrNext]_aggrVars

----------------------------------------------------------------------------
(* As the comment on bbr_update_ack_aggregation says, the estimate is a    *)
(* maximum over a sliding window: it misses no excess of the round under   *)
(* way and the WinRtts before it, and is itself an excess of the last      *)
(* 2 * WinRtts rounds.  This holds while windows fit a slot of 16 bits:    *)
(* a larger excess is cut (line 737) and can lower the maximum.            *)
CoversRecentRounds ==
  (\A k \in Ages : recent[k] < U16) =>
    /\ \A k \in Ages : k <= WinRtts => recent[k] <= bbr_extra_acked
    /\ \E k \in Ages : recent[k] = bbr_extra_acked
=============================================================================
