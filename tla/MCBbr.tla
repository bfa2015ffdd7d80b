------------------------------- MODULE MCBbr --------------------------------
(* BBR with windows of up to three packets and a dip to one, its gain      *)
(* cycle with four phases, and its estimate of ACK aggregation over two to *)
(* four rounds.  The three modules share no variable: side says which of   *)
(* them a behavior runs.                                                   *)
EXTENDS Bbr, BbrGains, BbrAggr

VARIABLES side

MCTargets == {MinTarget, Clamp}
MCFlights == {0, 2}

MCInit ==
  /\ Init /\ GainsInit /\ AggrInit
  /\ side \in {"window", "gains", "acks"}
  /\ side # "window" => snd_cwnd = 1 /\ ca_state = "Open"

MCNext ==
  /\ UNCHANGED side
  /\ \/ side = "window" /\ Next /\ UNCHANGED <<mode, full, stale, gain, aggrVars>>
     \/ side = "gains" /\ GainsNext /\ UNCHANGED <<vars, aggrVars>>
     \/ side = "acks" /\ AggrNext /\ UNCHANGED <<vars, gainsVars>>

MCSpec ==
  /\ MCInit /\ [][MCNext]_<<vars, gainsVars, aggrVars, side>>
  /\ WF_vars(side = "window" /\ DrainedAck)
  /\ WF_vars(side = "window" /\ ProbeRttTimePasses)
  /\ WF_gainsVars(side = "gains" /\ RoundAck)
=============================================================================
