-------------------------------- MODULE Reno --------------------------------
(***************************************************************************)
(* bpf_reno: the controller of bpf_reno/bpfreno.bpf.c driven by the        *)
(* kernel's sender.  It has no state of its own: the credit it accumulates *)
(* is the socket's snd_cwnd_cnt.                                           *)
(***************************************************************************)
EXTENDS TcpSock

vars == sockVars

TypeOK == SockTypeOK

Init == SockInit

(* tcp_reno_cong_avoid.  max_packets_out never exceeds the window.         *)
CongAvoid(acked, mpo, lim) ==
  /\ MayRaiseCwnd
  /\ LET r == tcp_reno_cong_avoid(mpo, lim, acked)
     IN  snd_cwnd' = r.cwnd /\ snd_cwnd_cnt' = r.cnt
  /\ UNCHANGED <<snd_ssthresh, prior_cwnd, prior_ssthresh, ca_state>>

Ack == \E acked \in 1..MaxAcked, mpo \in 0..snd_cwnd, lim \in BOOLEAN :
         CongAvoid(acked, mpo, lim)

EnterReduction == \E st \in {"CWR", "Recovery"} :
                    KernelEnterReduction(st, tcp_reno_ssthresh)

EnterLoss == \E fresh \in BOOLEAN :
               KernelEnterLoss(fresh, tcp_reno_ssthresh)

Undo == KernelUndo(tcp_reno_undo_cwnd)

Kernel ==
  \/ KernelDisorder
  \/ KernelOrder
  \/ EnterReduction
  \/ KernelCwrToRecovery
  \/ KernelReduce
  \/ KernelEndReduction
  \/ EnterLoss
  \/ KernelExitLoss
  \/ Undo
  \/ KernelShrink

Next == Ack \/ Kernel

Spec == Init /\ [][Next]_vars

(* A busy sender: ACKs of one packet or more keep coming while the window  *)
(* is full.                                                                *)
BusyAck == \E acked \in 1..MaxAcked : CongAvoid(acked, snd_cwnd, TRUE)

FairSpec == Spec /\ WF_vars(BusyAck)

----------------------------------------------------------------------------
(* Every step of the controller is one the additive-increase contract      *)
(* allows: what an ACK adds beyond the threshold has been paid for, one    *)
(* window's worth of acknowledged packets per segment, across credits      *)
(* carried over from larger windows and other controllers.                 *)
Contract == INSTANCE Aimd WITH
              cwnd      <- snd_cwnd,
              ssthresh  <- snd_ssthresh,
              credit    <- snd_cwnd_cnt,
              high      <- prior_cwnd,
              reducing  <- tcp_in_cwnd_reduction,
              Credits   <- 0..MaxCnt,
              Price     <- [w \in 1..Clamp |-> w],
              Reduced   <- [w \in 1..Clamp |-> MaxOf(w \div 2, 2)],
              EndsEarly <- FALSE

ImplementsAimd == Contract!Spec

(* After an ACK in congestion avoidance the remaining credit is less than  *)
(* the price of a segment: no acknowledged packet is kept from the window, *)
(* whatever credit the socket was handed over with.                        *)
CreditIsSpent ==
  [][BusyAck /\ ~tcp_in_slow_start => snd_cwnd_cnt' < snd_cwnd']_vars

(* A busy sender left alone by losses climbs to the clamp: the fractions   *)
(* of a segment that single ACKs earn add up and are never lost.           *)
Climbs ==
  <>[](ca_state = "Open") /\ <>[][~KernelShrink]_vars
    => <>(snd_cwnd = Clamp)
=============================================================================
