------------------------------ MODULE TcpSock ------------------------------
(***************************************************************************)
(* The part of the kernel's struct tcp_sock that the struct_ops            *)
(* controllers of this repository read and write, the window arithmetic    *)
(* they share (each .bpf.c file carries its own copy of the same helpers), *)
(* and the kernel's side of the contract: the steps of the TCP sender that *)
(* call the hooks.  Reno, Vegas and Cubic extend this module.              *)
(*                                                                         *)
(* The kernel calls every hook with the socket locked, so a hook runs to   *)
(* its end before the next one starts: one hook call is one action.  The   *)
(* kernel is not part of the repository; its steps are external            *)
(* definitions, kept as loose as the hooks allow.                          *)
(*                                                                         *)
(* Simplifications: windows stay far below 2^32, so snd_cwnd + acked does  *)
(* not wrap; prior_ssthresh = 0 stands for "nothing to undo", which the    *)
(* kernel keeps in undo_marker.                                            *)
(***************************************************************************)
EXTENDS Integers

CONSTANTS Clamp,        \* snd_cwnd_clamp
          InitCwnd,     \* the initial (and restart) window
          InfSsthresh,  \* TCP_INFINITE_SSTHRESH
          MaxAcked,     \* the most packets one ACK covers
          MaxCnt        \* the most credit a socket is handed over with

ASSUME TcpSockAssumption ==
  /\ Clamp \in Nat /\ Clamp >= 2
  /\ InitCwnd \in 1..Clamp
  /\ InfSsthresh \in Nat /\ InfSsthresh >= 2
  /\ MaxAcked \in Nat /\ MaxAcked >= 1
  /\ MaxCnt \in Nat

VARIABLES snd_cwnd,       \* congestion window, in packets
          snd_cwnd_cnt,   \* credit: ACKed packets not yet turned into window
          snd_ssthresh,   \* slow start threshold
          prior_cwnd,     \* the window when the last loss episode began
          prior_ssthresh, \* the threshold to restore if it was spurious, or 0
          ca_state        \* icsk_ca_state

sockVars == <<snd_cwnd, snd_cwnd_cnt, snd_ssthresh, prior_cwnd,
              prior_ssthresh, ca_state>>

CaStates == {"Open", "Disorder", "CWR", "Recovery", "Loss"}

Ssthreshes == 1..Clamp \cup {InfSsthresh}

SockTypeOK ==
  /\ snd_cwnd \in 1..Clamp
  /\ snd_cwnd_cnt \in Nat
  /\ snd_ssthresh \in Ssthreshes
  /\ prior_cwnd \in 0..Clamp
  /\ prior_ssthresh \in Ssthreshes \cup {0}
  /\ ca_state \in CaStates

----------------------------------------------------------------------------
(* The helpers the controllers share.                                      *)

MinOf(a, b) == IF a < b THEN a ELSE b
MaxOf(a, b) == IF a > b THEN a ELSE b

tcp_in_slow_start == snd_cwnd < snd_ssthresh

(* mpo is max_packets_out and lim is is_cwnd_limited, both of which the    *)
(* kernel measures.                                                        *)
tcp_is_cwnd_limited(mpo, lim) ==
  IF tcp_in_slow_start THEN snd_cwnd < 2 * mpo ELSE lim

(* The new window, and how many of the acked packets slow start left over. *)
tcp_slow_start(acked) ==
  LET cwnd == MinOf(snd_cwnd + acked, snd_ssthresh)
  IN  [cwnd |-> MinOf(cwnd, Clamp), left |-> acked - (cwnd - snd_cwnd)]

(* Slips a copy of the next helper could contain; runs use them to show    *)
(* that their properties can fail.  The first forgets to charge for what   *)
(* it bought, the second buys one segment per call however large the       *)
(* credit, the third drops what is left over.                              *)
ai_charges_nothing(cwnd, cnt, w, acked) ==
  [cwnd |-> MinOf(cwnd + (cnt + acked) \div w, Clamp), cnt |-> cnt + acked]

ai_buys_one(cwnd, cnt, w, acked) ==
  IF cnt + acked >= w
  THEN [cwnd |-> MinOf(cwnd + 1, Clamp), cnt |-> cnt + acked - w]
  ELSE [cwnd |-> cwnd, cnt |-> cnt + acked]

ai_drops_rest(cwnd, cnt, w, acked) ==
  [cwnd |-> MinOf(cwnd + (cnt + acked) \div w, Clamp), cnt |-> 0]

(* The new window and credit after acked packets at one segment per w.     *)
tcp_cong_avoid_ai(cwnd, cnt, w, acked) ==
  LET cwnd1 == IF cnt >= w THEN cwnd + 1 ELSE cwnd
      cnt1  == (IF cnt >= w THEN 0 ELSE cnt) + acked
      delta == cnt1 \div w
  IN  [cwnd |-> MinOf(cwnd1 + delta, Clamp), cnt |-> cnt1 - delta * w]

(* Reno's window and credit after an ACK of acked packets.                 *)
tcp_reno_cong_avoid(mpo, lim, acked) ==
  LET ss == IF tcp_in_slow_start THEN tcp_slow_start(acked)
            ELSE [cwnd |-> snd_cwnd, left |-> acked]
  IN  IF ~tcp_is_cwnd_limited(mpo, lim)
      THEN [cwnd |-> snd_cwnd, cnt |-> snd_cwnd_cnt]
      ELSE IF ss.left = 0
      THEN [cwnd |-> ss.cwnd, cnt |-> snd_cwnd_cnt]
      ELSE tcp_cong_avoid_ai(ss.cwnd, snd_cwnd_cnt, ss.cwnd, ss.left)

reno_ssthresh_no_floor == snd_cwnd \div 2   \* a slip: no minimum of two

tcp_reno_ssthresh == MaxOf(snd_cwnd \div 2, 2)

tcp_reno_undo_cwnd == MaxOf(snd_cwnd, prior_cwnd)

tcp_in_cwnd_reduction == ca_state \in {"CWR", "Recovery"}

tcp_current_ssthresh(cwnd, ssthresh) ==
  IF tcp_in_cwnd_reduction THEN ssthresh
  ELSE MaxOf(ssthresh, (cwnd \div 2) + (cwnd \div 4))

----------------------------------------------------------------------------
(* The kernel's sender.  thresh and undo are the values the controller's   *)
(* ssthresh and undo_cwnd hooks return.                                    *)

(* A controller may be attached to a live socket (TCP_CONGESTION is set    *)
(* mid-connection), in any state the previous controller left it in.       *)
SockInit ==
  /\ snd_cwnd \in 1..Clamp
  /\ snd_cwnd_cnt \in 0..MaxCnt
  /\ snd_ssthresh \in Ssthreshes
  /\ prior_cwnd = 0
  /\ prior_ssthresh = 0
  /\ ca_state \in CaStates

(* cong_avoid is called for an ACK of new data, except while the kernel    *)
(* itself steers the window down.                                          *)
MayRaiseCwnd == ~tcp_in_cwnd_reduction

(* Duplicate ACKs or SACKs seen, no loss declared yet; and back.           *)
KernelDisorder ==
  /\ ca_state = "Open"
  /\ ca_state' = "Disorder"
  /\ UNCHANGED <<snd_cwnd, snd_cwnd_cnt, snd_ssthresh, prior_cwnd,
                 prior_ssthresh>>

KernelOrder ==
  /\ ca_state = "Disorder"
  /\ ca_state' = "Open"
  /\ UNCHANGED <<snd_cwnd, snd_cwnd_cnt, snd_ssthresh, prior_cwnd,
                 prior_ssthresh>>

(* Congestion is signalled (CWR) or a loss is detected (Recovery).  A CWR  *)
(* that turns into Recovery keeps the reduction already under way.         *)
KernelEnterReduction(st, thresh) ==
  /\ ca_state \in {"Open", "Disorder"}
  /\ prior_cwnd' = snd_cwnd
  /\ prior_ssthresh' = IF st = "CWR" THEN 0
                       ELSE tcp_current_ssthresh(snd_cwnd, snd_ssthresh)
  /\ snd_ssthresh' = thresh
  /\ snd_cwnd_cnt' = 0
  /\ ca_state' = st
  /\ UNCHANGED snd_cwnd

KernelCwrToRecovery ==
  /\ ca_state = "CWR"
  /\ ca_state' = "Recovery"
  /\ UNCHANGED <<snd_cwnd, snd_cwnd_cnt, snd_ssthresh, prior_cwnd,
                 prior_ssthresh>>

(* Proportional rate reduction follows what is in flight.                  *)
KernelReduce ==
  /\ tcp_in_cwnd_reduction
  /\ \E c \in 1..Clamp :
       /\ c <= snd_cwnd \/ c <= snd_ssthresh
       /\ snd_cwnd' = c
  /\ UNCHANGED <<snd_cwnd_cnt, snd_ssthresh, prior_cwnd, prior_ssthresh,
                 ca_state>>

KernelEndReduction ==
  /\ tcp_in_cwnd_reduction
  /\ snd_cwnd' = IF snd_ssthresh < InfSsthresh THEN snd_ssthresh ELSE snd_cwnd
  /\ ca_state' = "Open"
  /\ UNCHANGED <<snd_cwnd_cnt, snd_ssthresh, prior_cwnd, prior_ssthresh>>

(* The retransmission timer fires.  Only a timeout that starts a new loss  *)
(* episode asks for a new threshold.                                       *)
KernelEnterLoss(fresh, thresh) ==
  /\ fresh \/ ca_state \notin {"Open", "Disorder"}
  /\ IF fresh
     THEN /\ prior_cwnd' = snd_cwnd
          /\ prior_ssthresh' = tcp_current_ssthresh(snd_cwnd, snd_ssthresh)
          /\ snd_ssthresh' = thresh
     ELSE UNCHANGED <<prior_cwnd, prior_ssthresh, snd_ssthresh>>
  /\ \E c \in 1..snd_cwnd : snd_cwnd' = c
  /\ snd_cwnd_cnt' = 0
  /\ ca_state' = "Loss"

KernelExitLoss ==
  /\ ca_state = "Loss"
  /\ ca_state' = "Open"
  /\ UNCHANGED <<snd_cwnd, snd_cwnd_cnt, snd_ssthresh, prior_cwnd,
                 prior_ssthresh>>

(* The loss turns out to be spurious, possibly after the episode is over.  *)
KernelUndo(undo) ==
  /\ ca_state # "CWR"
  /\ prior_ssthresh # 0
  /\ snd_cwnd' = undo
  /\ snd_ssthresh' = MaxOf(snd_ssthresh, prior_ssthresh)
  /\ prior_ssthresh' = 0
  /\ ca_state' = "Open"
  /\ UNCHANGED <<snd_cwnd_cnt, prior_cwnd>>

(* The window decays after an idle period, or because the application does *)
(* not fill it; no hook may object.                                        *)
KernelShrink ==
  /\ ca_state = "Open"
  /\ \E c \in MinOf(InitCwnd, snd_cwnd)..snd_cwnd : snd_cwnd' = c
  /\ snd_ssthresh' = tcp_current_ssthresh(snd_cwnd, snd_ssthresh)
  /\ UNCHANGED <<snd_cwnd_cnt, prior_cwnd, prior_ssthresh, ca_state>>
=============================================================================
