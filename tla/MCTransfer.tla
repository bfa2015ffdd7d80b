----------------------------- MODULE MCTransfer -----------------------------
(* A file of three blocks, copied two blocks at a time.                    *)
EXTENDS Transfer
=============================================================================
