-------------------------------- MODULE Aimd --------------------------------
(***************************************************************************)
(* What a loss-driven controller promises, without saying how: additive    *)
(* increase paid for by acknowledged packets, multiplicative decrease.     *)
(* bpf_reno/bpfreno.bpf.c:56 states the increase as "snd_cwnd += 1 /       *)
(* snd_cwnd for every packet that was ACKed", bpf_cubic/bpfcubic.bpf.c:390 *)
(* as at most one segment for two packets; here a packet that is not yet   *)
(* turned into window is one unit of credit, and the controllers differ in *)
(* the price of a segment and in what a loss leaves.                       *)
(***************************************************************************)
EXTENDS Integers

CONSTANTS Clamp, MaxAcked, Ssthreshes, Credits,
          Price,    \* the least credit a segment costs, by window
          Reduced,  \* the threshold after a loss, by window
          EndsEarly \* slow start may end before a loss

VARIABLES cwnd,      \* the window
          ssthresh,  \* below it the window grows by one per packet
          credit,    \* acknowledged packets not yet spent
          high,      \* the window when the last loss episode began
          reducing   \* the window is being steered down to ssthresh

vars == <<cwnd, ssthresh, credit, high, reducing>>

Init ==
  /\ cwnd \in 1..Clamp
  /\ ssthresh \in Ssthreshes
  /\ credit \in Credits
  /\ high = 0
  /\ reducing \in BOOLEAN

(* An ACK of n packets.  Up to the threshold, s of them buy a segment      *)
(* each; beyond it a segment has its price in credit.                      *)
Ack(n) ==
  /\ ~reducing
  /\ \E s \in 0..n, k \in 0..(credit + n) :
       LET w == cwnd + s
       IN  /\ w <= Clamp /\ (s > 0 => w <= ssthresh)
           /\ k > 0 => w >= ssthresh \/ w = Clamp
           /\ k * Price[w] <= credit + n - s
           /\ cwnd' = IF w + k < Clamp THEN w + k ELSE Clamp
           /\ credit' \in 0..(credit + n - s - k * Price[w])
  /\ UNCHANGED <<ssthresh, high, reducing>>

(* Slow start ends where it is.                                            *)
EndSlowStart ==
  /\ EndsEarly
  /\ cwnd < ssthresh
  /\ ssthresh' = cwnd
  /\ UNCHANGED <<cwnd, credit, high, reducing>>

(* A loss episode lowers the threshold, remembers the window and forgets   *)
(* the credit.                                                             *)
LossEpisode ==
  /\ ssthresh' = Reduced[cwnd]
  /\ high' = cwnd
  /\ credit' = 0
  /\ cwnd' \in 1..cwnd
  /\ reducing' \in BOOLEAN

(* While reducing, the window follows what is in flight, and ends at the   *)
(* threshold.                                                              *)
Reduce ==
  /\ reducing
  /\ cwnd' \in 1..Clamp
  /\ cwnd' <= cwnd \/ cwnd' <= ssthresh
  /\ credit' \in {0, credit}
  /\ reducing' \in BOOLEAN
  /\ UNCHANGED <<ssthresh, high>>

(* An idle or timed out sender gives up window, never gains it.            *)
Decay ==
  /\ cwnd' \in 1..cwnd
  /\ ssthresh' \in {t \in Ssthreshes : t >= ssthresh}
  /\ credit' \in {0, credit}
  /\ reducing' = FALSE
  /\ UNCHANGED high

(* A spurious episode gives back at least the window it took.              *)
Restore ==
  /\ cwnd' = IF cwnd > high THEN cwnd ELSE high
  /\ ssthresh' \in {t \in Ssthreshes : t >= ssthresh}
  /\ reducing' = FALSE
  /\ UNCHANGED <<credit, high>>

Next ==
  \/ \E n \in 1..MaxAcked : Ack(n)
  \/ EndSlowStart
  \/ LossEpisode
  \/ Reduce
  \/ Decay
  \/ Restore

Spec == Init /\ [][Next]_vars
=============================================================================
