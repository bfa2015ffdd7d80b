------------------------------- MODULE MCReno -------------------------------
(* Reno on windows of up to Clamp packets, handed over with any credit.    *)
EXTENDS Reno
=============================================================================
