------------------------------ MODULE Endpoint ------------------------------
(***************************************************************************)
(* One process of bpfcc-tcp-client-server, a client or a server child, and *)
(* the controllers of its two connections (server.c:203-213,               *)
(* client.c:271-278, message.c).  It installs the controller of its -c     *)
(* option, and while it transfers logs a rate for every 10 MB in each      *)
(* direction; with -b, a rate below the one before makes it switch to the  *)
(* next controller it has not used.                                        *)
(*                                                                         *)
(* Other programs of the host run between any two calls.  A signal may     *)
(* arrive at any time.  A rate list is the sequence of its rates and a     *)
(* pointer into it an index, 0 for the head.  The default controller of    *)
(* the host, which the process also sets, concerns later sockets only.     *)
(***************************************************************************)
EXTENDS Loader

CONSTANTS Options,     \* values of -c, "none" when it is not given
          Rates,       \* measured rates
          MaxRecv,     \* rates logged in each direction
          MaxSend

ASSUME EndpointAssumption ==
  /\ Options \subseteq Bpf \cup {"none", "cubic"}
  /\ Rates \subseteq Nat
  /\ MaxRecv \in Nat /\ MaxSend \in Nat

VARIABLES opt,        \* env.bpfcc
          bandwidth,  \* -b
          pc,         \* where the process is
          target,     \* the controller being installed
          resume,     \* where it goes on when that is done
          skel,       \* its skeletons
          flags,      \* the controllers it has used
          cmd_cc,     \* the controller of cmd_csd
          data_cc,    \* the controller of data_csd
          log,        \* recv_list and send_list
          cursor      \* recv_it and send_it

(* History: nothing below reads it.                                        *)
VARIABLES installs,   \* the controllers installed so far, in order
          crash       \* why it died: "none" if it did not, or by a signal

procVars == <<opt, bandwidth, pc, target, resume, skel, flags, cmd_cc,
              data_cc, log, cursor, installs, crash>>
endpointVars == <<loaderVars, procVars>>

(* The connections start with what the listening sockets had.              *)
Names == Bpf \cup {"none", "cubic", "inherited"}
Streams == {"recv", "send"}

EndpointTypeOK ==
  /\ LoaderTypeOK
  /\ opt \in Options /\ bandwidth \in BOOLEAN
  /\ pc \in {"load", "set_cmd", "set_data", "serve", "scan_recv",
             "scan_send", "dead"}
  /\ target \in Names /\ resume \in {"serve", "scan_send"}
  /\ skel \in [Bpf -> Skels]
  /\ flags \subseteq Bpf
  /\ cmd_cc \in Names /\ data_cc \in Names
  /\ log \in [Streams -> Seq(Rates)]
  /\ \A s \in Streams : cursor[s] \in 0..Len(log[s])
  /\ installs \in Seq(Names)
  /\ crash \in {"none", "exit", "null name", "double free"}

----------------------------------------------------------------------------
(* Installing a controller: load it, set it on both connections, note it.  *)

Install(x, next) ==
  /\ target' = x /\ resume' = next
  /\ pc' = IF x \in Bpf THEN "load" ELSE "set_cmd"

(* The process exits when it may not lock memory.                          *)
LoadBpf ==
  /\ pc = "load"
  /\ \/ /\ \E o \in bpf_init(target) :
             /\ skel' = [skel EXCEPT ![target] = o.skel]
             /\ registered' = o.registered
        /\ pc' = "set_cmd"
        /\ UNCHANGED crash
     \/ /\ pc' = "dead" /\ crash' = "exit"
        /\ UNCHANGED <<skel, registered>>
  /\ UNCHANGED <<app, opt, bandwidth, target, resume, flags, cmd_cc, data_cc,
                 log, cursor, installs>>

(* The kernel refuses a name it does not hold.                             *)
settcpcc(cc, name) == IF name \in registered \cup {"cubic"} THEN name ELSE cc

(* Without -c the name is a null pointer.                                  *)
SetCmd ==
  /\ pc = "set_cmd"
  /\ IF target = "none"
     THEN pc' = "dead" /\ crash' = "null name" /\ UNCHANGED <<cmd_cc, installs>>
     ELSE /\ cmd_cc' = settcpcc(cmd_cc, target)
          /\ pc' = "set_data"
          /\ installs' = Append(installs, target)
          /\ UNCHANGED crash
  /\ UNCHANGED <<loaderVars, opt, bandwidth, target, resume, skel, flags,
                 data_cc, log, cursor>>

forgets_flag == flags   \* a slip: the first controller is not noted

noted_flags == flags \cup ({target} \cap Bpf)

SetData ==
  /\ pc = "set_data"
  /\ data_cc' = settcpcc(data_cc, target)
  /\ flags' = noted_flags
  /\ pc' = resume
  /\ UNCHANGED <<loaderVars, opt, bandwidth, target, resume, skel, cmd_cc, log,
                 cursor, installs, crash>>

----------------------------------------------------------------------------
(* The rate log.                                                           *)

MaxSlices == [recv |-> MaxRecv, send |-> MaxSend]

(* log_data, when the counter of 10 MB goes up.                            *)
LogData(s, bw) ==
  /\ pc = "serve" /\ Len(log[s]) < MaxSlices[s]
  /\ log' = [log EXCEPT ![s] = Append(@, bw)]
  /\ pc' = IF bandwidth THEN "scan_recv" ELSE "serve"
  /\ UNCHANGED <<loaderVars, opt, bandwidth, target, resume, skel, flags,
                 cmd_cc, data_cc, cursor, installs, crash>>

(* The controllers in the order switch_bpfcc tries them.                   *)
SwitchOrder == <<"bpf_cubic", "bpf_vegas", "bpf_reno">>

Unused == {i \in 1..3 : SwitchOrder[i] \notin flags}

(* The first position of a search.                                         *)
First(S) == CHOOSE i \in S : \A j \in S : i <= j

switch_bpfcc(next) ==
  IF Unused = {}
  THEN pc' = next /\ UNCHANGED <<target, resume>>
  ELSE Install(SwitchOrder[First(Unused)], next)

scan_skips_first(s) ==   \* a slip: starts one slice too late
  {i \in (cursor[s] + 2)..(Len(log[s]) - 1) : log[s][i + 1] < log[s][i]}

(* The slices that are followed by a lower one, from the cursor on.        *)
drops(s) ==
  {i \in (cursor[s] + 1)..(Len(log[s]) - 1) : log[s][i + 1] < log[s][i]}

cursor_passes_drop(i) == i + 2   \* a slip

(* The cursor moves to the lower slice.                                    *)
after_drop(i) == i + 1

bandwidth_analyzer(s, next) ==
  /\ IF drops(s) = {}
     THEN pc' = next /\ UNCHANGED <<target, resume, cursor>>
     ELSE /\ cursor' = [cursor EXCEPT ![s] = after_drop(First(drops(s)))]
          /\ switch_bpfcc(next)
  /\ UNCHANGED <<loaderVars, opt, bandwidth, skel, flags, cmd_cc, data_cc, log,
                 installs, crash>>

ScanRecv == pc = "scan_recv" /\ bandwidth_analyzer("recv", "scan_send")

ScanSend == pc = "scan_send" /\ bandwidth_analyzer("send", "serve")

----------------------------------------------------------------------------
(* A signal, or the end of a client's copy: release unloads the controller *)
(* of -c, then the process exits.  Destroying a skeleton twice may crash   *)
(* it before.                                                              *)
Release ==
  /\ pc # "dead"
  /\ pc' = "dead"
  /\ IF opt \in Bpf
     THEN /\ skel' = [skel EXCEPT ![opt] = bpf_stop(@)]
          /\ registered' = StopLeaves(opt)
          /\ crash' = IF skel[opt] = "freed" THEN "double free" ELSE "none"
     ELSE UNCHANGED <<skel, registered, crash>>
  /\ UNCHANGED <<app, opt, bandwidth, target, resume, flags, cmd_cc, data_cc,
                 log, cursor, installs>>

EndpointInit ==
  /\ registered = {} /\ app = "null"
  /\ opt \in Options /\ bandwidth \in BOOLEAN
  /\ pc = IF opt \in Bpf THEN "load" ELSE "set_cmd"
  /\ target = opt /\ resume = "serve"
  /\ skel = [x \in Bpf |-> "null"]
  /\ flags = {}
  /\ cmd_cc = "inherited" /\ data_cc = "inherited"
  /\ log = [s \in Streams |-> <<>>] /\ cursor = [s \in Streams |-> 0]
  /\ installs = <<>> /\ crash = "none"

EndpointNext ==
  \/ LoadBpf
  \/ SetCmd
  \/ SetData
  \/ \E s \in Streams, bw \in Rates : LogData(s, bw)
  \/ ScanRecv
  \/ ScanSend
  \/ Release
  \/ pc # "dead" /\ OtherPrograms /\ UNCHANGED procVars

EndpointSpec == EndpointInit /\ [][EndpointNext]_endpointVars

----------------------------------------------------------------------------
(* A process never loads the same controller twice, which would lose the   *)
(* skeleton of the first load (message.c:46-74, server.c:58-104): -c and   *)
(* every switch leave a flag.                                              *)
InstalledOnce == \A i, j \in 1..Len(installs) : installs[i] = installs[j] => i = j

(* Since when a connection has had its controller.                         *)
Since(cc) == IF cc = "inherited" THEN 0
             ELSE CHOOSE i \in 1..Len(installs) : installs[i] = cc

(* The data connection, which carries the file, never runs a controller    *)
(* older than the one of the command connection: a name that was there for *)
(* the first setsockopt is there for the second, whatever other programs   *)
(* load and unload in between.                                             *)
DataNotBehind ==
  pc \in {"serve", "scan_recv", "scan_send"} => Since(data_cc) >= Since(cmd_cc)

(* With -b, every drop of a rate is acted on when it is logged, and none   *)
(* twice (message.c:76-115): past the cursor the rates do not fall, and the *)
(* cursor itself is a rate that fell.  The pair that the cursor begins is  *)
(* never compared, so two drops in a row make one switch.                  *)
CursorAtLastDrop ==
  pc = "serve" /\ bandwidth =>
    \A s \in Streams :
      /\ \A i \in (cursor[s] + 1)..(Len(log[s]) - 1) : log[s][i] <= log[s][i + 1]
      /\ cursor[s] # 0 => log[s][cursor[s]] < log[s][cursor[s] - 1]

(* A process interrupted at any point destroys a skeleton twice only if    *)
(* the kernel already held its controller when it was loaded, so that      *)
(* attaching it was refused (bpfvegas.c:67-71, 76-81): a skeleton that     *)
(* does not open or load may be stopped safely.                            *)
DoubleFreeOnlyIfTaken == crash = "double free" => opt \in registered
=============================================================================
