------------------------------ MODULE FileCopy ------------------------------
(***************************************************************************)
(* What a transfer promises about the destination, without saying how the  *)
(* blocks travel.  The file only grows, at its end, by blocks that follow  *)
(* the last one it has in the source: a slow copy without a gap, a fast    *)
(* one (copy_2 of client.c) perhaps with gaps, where a local write was     *)
(* short.  A file that was there before is left alone.  A slow copy that   *)
(* reports OK to a client whose server is there has brought every block.   *)
(* (client.c:176-237, server.c:251-326.)                                   *)
(***************************************************************************)
EXTENDS Integers, Sequences

CONSTANTS SrcLen     \* length of the source file, in blocks

VARIABLES fast,      \* the copy may leave blocks out
          up,        \* the server child is alive
          dst_file,  \* the destination: absent, ours or foreign
          dst,       \* what was written to it
          outcome    \* how the client ended, "none" before

vars == <<fast, up, dst_file, dst, outcome>>

(* The last block of the source that has arrived.                          *)
Copied == IF dst = <<>> THEN 0 ELSE dst[Len(dst)]

Blocks(first, n) == [i \in 1..n |-> first + i - 1]

Init ==
  /\ fast \in BOOLEAN /\ up = TRUE
  /\ dst_file \in {"absent", "foreign"} /\ dst = <<>>
  /\ outcome = "none"

(* The server may die of the reply that would report it.                   *)
Write ==
  /\ dst_file # "foreign" /\ dst_file' = "ours"
  /\ \E n \in 1..(SrcLen - Copied), first \in (Copied + 1)..SrcLen :
       /\ first + n - 1 <= SrcLen
       /\ ~fast => first = Copied + 1
       /\ dst' = dst \o Blocks(first, n)
  /\ up' \in {up, FALSE}
  /\ UNCHANGED <<fast, outcome>>

(* The client that opens the destination may be killed by its next call.   *)
Open ==
  /\ dst_file = "absent" /\ dst_file' = "ours"
  /\ up' \in {up, FALSE}
  /\ \/ outcome' = outcome
     \/ outcome = "none" /\ outcome' = "killed"
  /\ UNCHANGED <<fast, dst>>

Finish ==
  /\ outcome = "none" /\ outcome' \in {"OK", "error", "crashed", "killed"}
  /\ outcome' = "OK" => /\ fast \/ up => dst_file = "ours"
                        /\ ~fast /\ up => Copied = SrcLen
  /\ UNCHANGED <<fast, up, dst_file, dst>>

ServerStops ==
  up /\ up' = FALSE /\ UNCHANGED <<fast, dst_file, dst, outcome>>

Next == Write \/ Open \/ Finish \/ ServerStops

Spec == Init /\ [][Next]_vars

----------------------------------------------------------------------------
(* No block is written twice or out of order.                              *)
InOrder == \A i, j \in 1..Len(dst) : i < j => dst[i] < dst[j]
=============================================================================
