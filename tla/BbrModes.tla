------------------------------ MODULE BbrModes ------------------------------
(***************************************************************************)
(* What the mode machine of BBR promises, without saying how it measures:  *)
(* STARTUP until the pipe is full, DRAIN after it, then PROBE_BW for good, *)
(* with dips into PROBE_RTT whenever the estimate of the minimum           *)
(* round-trip time has grown stale.  A pipe once found full stays full.    *)
(* (bpf_bbr/bbr.h:9-15, bbr.bpf.c:740-781, 797-815.)                       *)
(***************************************************************************)

VARIABLES mode,   \* one of Modes
          full,   \* STARTUP has filled the pipe
          stale   \* the minimum round-trip time is older than its window

vars == <<mode, full, stale>>

Modes == {"STARTUP", "DRAIN", "PROBE_BW", "PROBE_RTT"}

Init == mode = "STARTUP" /\ full = FALSE /\ stale = FALSE

(* A mode that is not a dip moves forward, once the pipe is full.          *)
Forward(m, f) ==
  CASE m = "STARTUP" -> IF f THEN {"DRAIN", "PROBE_BW"} ELSE {"STARTUP"}
    [] m = "DRAIN" -> {"DRAIN", "PROBE_BW"}
    [] OTHER -> {m}

(* The pipe is found full by measurements before steady state only.        *)
Measure ==
  /\ full' \in BOOLEAN
  /\ full' # full => full' /\ mode \in {"STARTUP", "PROBE_RTT"}

Advance ==
  /\ Measure
  /\ mode' \in Forward(mode, full')
  /\ stale' \in {FALSE, stale}

Dip ==
  /\ Measure
  /\ stale /\ mode # "PROBE_RTT" /\ mode' = "PROBE_RTT"
  /\ stale' \in BOOLEAN

(* A dip ends with a fresh estimate, where the pipe says.                  *)
EndDip ==
  /\ Measure
  /\ mode = "PROBE_RTT"
  /\ mode' = IF full' THEN "PROBE_BW" ELSE "STARTUP"
  /\ stale' = FALSE

GrowStale == stale' = TRUE /\ UNCHANGED <<mode, full>>

Next == Advance \/ Dip \/ EndDip \/ GrowStale

Spec == Init /\ [][Next]_vars
=============================================================================
