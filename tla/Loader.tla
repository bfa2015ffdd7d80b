------------------------------- MODULE Loader -------------------------------
(***************************************************************************)
(* The controllers a host holds, and the programs that load them.  Each of *)
(* bpf_reno, bpf_vegas and bpf_cubic has a loader with one static pointer  *)
(* to a libbpf skeleton (bpf_*/bpf*.c).  libcc drives the loaders through  *)
(* a table of two function pointers, bpfcc is a command around them.       *)
(*                                                                         *)
(* libbpf and the kernel are external: a controller is registered under    *)
(* its name when its struct_ops map is attached, a second one of that name *)
(* is refused, and it stays until its link is destroyed.  The loaders drop *)
(* the link, so destroying the skeleton or leaving the process does not    *)
(* end a registration.                                                     *)
(***************************************************************************)
EXTENDS Integers, Sequences

CONSTANTS Foreign   \* the controllers that the command bpfcc is used with

Bpf == {"bpf_cubic", "bpf_vegas", "bpf_reno"}

ASSUME LoaderAssumption == Foreign \subseteq Bpf

VARIABLES registered,   \* the kernel: names of the attached controllers
          app           \* the skeleton of a program that uses libcc

loaderVars == <<registered, app>>

Skels == {"null", "opened", "attached", "freed"}

LoaderTypeOK == registered \subseteq Bpf /\ app \in Skels

init_destroys_on_error(x) ==   \* a slip: on every failure
  {[skel |-> "null", registered |-> registered],
   [skel |-> "freed", registered |-> registered],
   IF x \in registered
   THEN [skel |-> "freed", registered |-> registered]
   ELSE [skel |-> "attached", registered |-> registered \cup {x}]}

(* The outcomes of bpf_*_init for controller x, which no caller looks at:  *)
(* the skeleton does not open, does not load, or is attached; a skeleton   *)
(* whose map is refused is destroyed and the pointer kept.                 *)
bpf_init(x) ==
  {[skel |-> "null", registered |-> registered],
   [skel |-> "opened", registered |-> registered],
   IF x \in registered
   THEN [skel |-> "freed", registered |-> registered]
   ELSE [skel |-> "attached", registered |-> registered \cup {x}]}

(* bpf_*_stop destroys the skeleton.  A null pointer is left alone; the    *)
(* outcome of destroying one twice is undefined.                           *)
bpf_stop(skel) == IF skel = "null" THEN "null" ELSE "freed"

stop_unregisters(x) == registered \ {x}   \* a slip, if it is one

(* What is registered after some process ran bpf_*_stop for x.             *)
StopLeaves(x) == registered

----------------------------------------------------------------------------
(* Other programs on the host.                                             *)

(* The table that libcc starts with drives bpf_reno, and bpfcc_select      *)
(* returns before it changes the table: every type differs from one of the *)
(* two it is compared with.                                                *)
bpfcc_select(t) == "bpf_reno"

AppLoad ==
  \E t \in Bpf : \E o \in bpf_init(bpfcc_select(t)) :
    app' = o.skel /\ registered' = o.registered

AppUnload ==
  /\ app' = bpf_stop(app)
  /\ registered' = StopLeaves(bpfcc_select("bpf_reno"))

(* bpfcc loads in one process and unloads in another, whose skeleton is    *)
(* null; both exit.                                                        *)
CommandLoad ==
  /\ \E x \in Foreign : \E o \in bpf_init(x) : registered' = o.registered
  /\ UNCHANGED app

CommandUnload ==
  /\ \E x \in Foreign : registered' = StopLeaves(x)
  /\ UNCHANGED app

OtherPrograms == AppLoad \/ AppUnload \/ CommandLoad \/ CommandUnload
=============================================================================
