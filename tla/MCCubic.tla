------------------------------- MODULE MCCubic ------------------------------
(* Cubic on a window of a few packets, with the constants of the file      *)
(* scaled down in proportion.                                              *)
EXTENDS Cubic

(* With hystart_low_window above the clamp, hystart_update never runs and  *)
(* nothing reads the fields it keeps: this view leaves them out.           *)
GrowthView ==
  <<sockVars, now, lsndtime,
    ca.cnt, ca.last_max_cwnd, ca.last_cwnd, ca.last_time,
    ca.bic_origin_point, ca.bic_K, ca.delay_min, ca.epoch_start, ca.ack_cnt,
    ca.tcp_cwnd>>
=============================================================================
