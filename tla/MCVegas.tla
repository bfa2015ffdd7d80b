------------------------------- MODULE MCVegas ------------------------------
(* Vegas on a small window.  Sequence numbers enter the behaviour only     *)
(* through their differences, so states that agree up to a shift of all    *)
(* sequence numbers are one state (the VIEW).                              *)
EXTENDS Vegas

ShiftedView ==
  <<sockVars, doing_vegas_now, cntRTT, minRTT, baseRTT, fresh, InFlight,
    (beg_snd_nxt - snd_una) % SeqMod, (mark - snd_una) % SeqMod>>
=============================================================================
