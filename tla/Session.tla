------------------------------ MODULE Session -------------------------------
(***************************************************************************)
(* How clients get a server child (server.c:190-243, client.c:257-267).  A *)
(* client connects its command connection to one port, then its data       *)
(* connection to another.  The server takes one connection from each       *)
(* listening socket and forks a child for the two; nothing in them says    *)
(* which client they come from.                                            *)
(*                                                                         *)
(* The listening sockets are external: queues of completed connections,    *)
(* which wait outside when the queue is full.  A client is killed between  *)
(* its connects, or its second one fails, at any time; one that has made   *)
(* both may leave too, which changes no queue and is left out.             *)
(***************************************************************************)
EXTENDS Integers, Sequences, SequencesExt

CONSTANTS Clients,
          Backlog   \* connections a listening socket holds

ASSUME SessionAssumption == Backlog \in Nat /\ Backlog >= 1

VARIABLES cl,        \* where each client is
          cmd_sd,    \* the queue of the command port
          data_sd,   \* the queue of the data port
          parent,    \* where the server's loop is
          accepted,  \* the clients that cmd_csd and data_csd come from
          children,  \* the pairs handed to children, in order
          refused    \* the pairs closed because the fork failed

(* History: two clients were between their connects at once, or one gave   *)
(* up there.                                                               *)
VARIABLES overlapped

sessionVars ==
  <<cl, cmd_sd, data_sd, parent, accepted, children, refused, overlapped>>

NoClient == "nobody"
Pairs == [cmd: Clients \cup {NoClient}, data: Clients \cup {NoClient}]

SessionTypeOK ==
  /\ cl \in [Clients -> {"idle", "cmd", "both", "half"}]
  /\ cmd_sd \in Seq(Clients) /\ Len(cmd_sd) <= Backlog
  /\ data_sd \in Seq(Clients) /\ Len(data_sd) <= Backlog
  /\ parent \in {"accept_cmd", "accept_data", "fork", "down"}
  /\ accepted \in Pairs
  /\ children \in Seq(Pairs) /\ refused \in Seq(Pairs)
  /\ overlapped \in BOOLEAN

----------------------------------------------------------------------------
(* Clients.                                                                *)

ConnectCmd(c) ==
  /\ cl[c] = "idle" /\ parent # "down" /\ Len(cmd_sd) < Backlog
  /\ cl' = [cl EXCEPT ![c] = "cmd"]
  /\ cmd_sd' = Append(cmd_sd, c)
  /\ overlapped' = (overlapped \/ \E d \in Clients : cl[d] = "cmd")
  /\ UNCHANGED <<data_sd, parent, accepted, children, refused>>

ConnectData(c) ==
  /\ cl[c] = "cmd" /\ parent # "down" /\ Len(data_sd) < Backlog
  /\ cl' = [cl EXCEPT ![c] = "both"]
  /\ data_sd' = Append(data_sd, c)
  /\ UNCHANGED <<cmd_sd, parent, accepted, children, refused, overlapped>>

GiveUp(c) ==
  /\ cl[c] = "cmd"
  /\ cl' = [cl EXCEPT ![c] = "half"]
  /\ overlapped' = TRUE
  /\ UNCHANGED <<cmd_sd, data_sd, parent, accepted, children, refused>>

----------------------------------------------------------------------------
(* The server's loop.                                                      *)

goes_on_to_data == "accept_data"   \* a slip: the wrong accept comes first

next_accept == "accept_cmd"

AcceptCmd ==
  /\ parent = "accept_cmd" /\ cmd_sd # <<>>
  /\ accepted' = [accepted EXCEPT !.cmd = Head(cmd_sd)]
  /\ cmd_sd' = Tail(cmd_sd)
  /\ parent' = "accept_data"
  /\ UNCHANGED <<cl, data_sd, children, refused, overlapped>>

AcceptData ==
  /\ parent = "accept_data" /\ data_sd # <<>>
  /\ accepted' = [accepted EXCEPT !.data = Head(data_sd)]
  /\ data_sd' = Tail(data_sd)
  /\ parent' = "fork"
  /\ UNCHANGED <<cl, cmd_sd, children, refused, overlapped>>

(* The parent closes both, whether or not there is a child that has them.  *)
Fork ==
  /\ parent = "fork"
  /\ \/ children' = Append(children, accepted) /\ UNCHANGED refused
     \/ refused' = Append(refused, accepted) /\ UNCHANGED children
  /\ parent' = next_accept
  /\ UNCHANGED <<cl, cmd_sd, data_sd, accepted, overlapped>>

(* accept fails, or a signal ends the server.                              *)
ServerEnds ==
  /\ parent # "down" /\ parent' = "down"
  /\ cmd_sd' = <<>> /\ data_sd' = <<>>
  /\ UNCHANGED <<cl, accepted, children, refused, overlapped>>

Parent == AcceptCmd \/ AcceptData \/ Fork

SessionInit ==
  /\ cl = [c \in Clients |-> "idle"]
  /\ cmd_sd = <<>> /\ data_sd = <<>>
  /\ parent = "accept_cmd"
  /\ accepted = [cmd |-> NoClient, data |-> NoClient]
  /\ children = <<>> /\ refused = <<>>
  /\ overlapped = FALSE

SessionNext ==
  \/ \E c \in Clients : ConnectCmd(c) \/ ConnectData(c) \/ GiveUp(c)
  \/ Parent
  \/ ServerEnds

(* The server is scheduled, and a client that is not killed goes on to its *)
(* second connect.                                                         *)
SessionFairness ==
  /\ WF_sessionVars(Parent)
  /\ \A c \in Clients : WF_sessionVars(ConnectData(c))

SessionSpec == SessionInit /\ [][SessionNext]_sessionVars /\ SessionFairness

----------------------------------------------------------------------------
(* The two connections of a child come from the same client as long as no  *)
(* two clients connect at the same time and none gives up half way         *)
(* (server.c:193-202): a failed fork or a full queue does not shift the    *)
(* two ports against each other.                                           *)
PairedInTurn ==
  ~overlapped =>
    \A p \in ToSet(children) \cup ToSet(refused) : p.cmd = p.data

(* A client that has both connections gets a child, or loses them to a     *)
(* failed fork, even when clients race and their connections are crossed,  *)
(* unless the server ends or some client gave up half way: then every      *)
(* later one is served with a connection of another, and the last waits.   *)
Handled(c) == \E p \in ToSet(children) \cup ToSet(refused) : p.cmd = c

EventuallyServed ==
  \A c \in Clients :
    cl[c] = "both" ~>
      Handled(c) \/ parent = "down" \/ \E d \in Clients : cl[d] = "half"

(* The server's loop never waits for a connection while a client that has  *)
(* made both of its own is left out: unless some client is half way, the   *)
(* two queues run dry together, and every connection made is with a child  *)
(* or a failed fork, whichever were crossed (server.c:190-243).            *)
Waiting ==
  \/ parent = "accept_cmd" /\ cmd_sd = <<>>
  \/ parent = "accept_data" /\ data_sd = <<>>

HandledData(c) == \E p \in ToSet(children) \cup ToSet(refused) : p.data = c

NobodyStranded ==
  Waiting /\ (\A c \in Clients : cl[c] \notin {"cmd", "half"}) =>
    \A c \in Clients : cl[c] = "both" => Handled(c) /\ HandledData(c)
=============================================================================
