------------------------------ MODULE Transfer ------------------------------
(***************************************************************************)
(* One file transfer of bpfcc-tcp-client-server: a client process, the     *)
(* child the server forks for it, and their two TCP connections, one for   *)
(* commands and one for the bulk data of the fast mode.                    *)
(*                                                                         *)
(* In the slow mode (copy) the client drives a stop-and-wait protocol:     *)
(* READ a buffer of the source, WRITE it to the destination, both on the   *)
(* server.  In the fast mode (copy_2) one READ makes the server push the   *)
(* whole file over the data connection; the client writes it locally.      *)
(*                                                                         *)
(* Files are sequences of blocks; block i of the source is the number i.   *)
(* A message is one item: it fits one TCP segment and at most one is under *)
(* way in each direction, so recv returns whole messages.  Either process  *)
(* may be killed at any time; any read may be short and any disk access    *)
(* may fail.                                                               *)
(***************************************************************************)
EXTENDS Integers, Sequences

CONSTANTS SrcLen,     \* length of the source file, in blocks
          BUF_SIZE,   \* blocks per message
          StreamCap   \* blocks the data connection holds

ASSUME TransferAssumption ==
  /\ SrcLen \in Nat
  /\ BUF_SIZE \in Nat /\ BUF_SIZE >= 1
  /\ StreamCap \in Nat /\ StreamCap >= 1

E_BAD_OPCODE == -1
E_IO == -3

Src == [i \in 1..SrcLen |-> i]

VARIABLES fast,      \* client: fast_transfer
          cpc,       \* client: where it is
          m1,        \* client: the fields of its message that it looks at
          position,  \* client: position in the file
          outcome,   \* client: how it ended
          c2s, s2c,  \* the command connection, in both directions
          stream,    \* the data connection, server to client
          up,        \* server: the child is alive
          pushing,   \* server: inside the loop of do_read
          last,      \* server: m1, the request it handled last
          rpos,      \* server: file position of rfd
          src_ok,    \* the source can be opened
          dst_file,  \* the destination: absent, ours (wfd open) or foreign
          dst        \* what we wrote to it

client == <<fast, cpc, m1, position, outcome>>
wires  == <<c2s, s2c, stream>>
server == <<up, pushing, last, rpos>>
files  == <<src_ok, dst_file, dst>>

vars == <<client, wires, server, files>>

Requests ==
  [op: {"READ"}, offset: 0..SrcLen, all: BOOLEAN]
    \cup [op: {"WRITE"}, offset: 0..SrcLen, data: Seq(1..SrcLen)]

NoRequest == [op |-> "NONE"]

Replies == [result: -3..SrcLen, data: Seq(1..SrcLen)]

TypeOK ==
  /\ fast \in BOOLEAN
  /\ cpc \in {"send_read", "wait_read", "send_write", "wait_write", "pull",
              "wait_status", "ended"}
  /\ m1 \in Replies
  /\ position \in -3..SrcLen
  /\ outcome \in {"none", "OK", "error", "crashed", "killed"}
  /\ c2s \in Seq(Requests) /\ s2c \in Seq(Replies) /\ stream \in Seq(1..SrcLen)
  /\ up \in BOOLEAN /\ pushing \in BOOLEAN
  /\ last \in Requests \cup {NoRequest}
  /\ rpos \in 0..SrcLen
  /\ src_ok \in BOOLEAN
  /\ dst_file \in {"absent", "ours", "foreign"}
  /\ dst \in Seq(0..SrcLen)

MinOf(a, b) == IF a < b THEN a ELSE b
MaxOf(a, b) == IF a > b THEN a ELSE b

(* lseek to offset, then write; a hole reads as 0.                         *)
Overwrite(file, offset, data) ==
  [i \in 1..MaxOf(Len(file), offset + Len(data)) |->
     IF i \in (offset + 1)..(offset + Len(data)) THEN data[i - offset]
     ELSE IF i <= Len(file) THEN file[i] ELSE 0]

----------------------------------------------------------------------------
(* The client.                                                             *)

Blank == [result |-> 0, data |-> <<>>]

End(how) == cpc' = "ended" /\ outcome' = how

(* The request arrives, or is lost with the server gone; the signal that a *)
(* dead connection raises may then kill the client.                        *)
Request(r, next) ==
  \/ up /\ c2s' = Append(c2s, r) /\ cpc' = next /\ UNCHANGED outcome
  \/ ~up /\ UNCHANGED c2s /\ cpc' = next /\ UNCHANGED outcome
  \/ ~up /\ UNCHANGED c2s /\ End("killed")

SendRead ==
  /\ cpc = "send_read" /\ ~fast
  /\ m1' = Blank
  /\ Request([op |-> "READ", offset |-> position, all |-> FALSE], "wait_read")
  /\ UNCHANGED <<fast, position, s2c, stream, server, files>>

(* A message arrives; or the connection has failed, and m1 keeps what the  *)
(* client asked with: ifri_receive then reports an error nobody looks at,  *)
(* or decodes a buffer that still holds the request.                       *)
Answer ==
  \/ s2c # <<>> /\ m1' = Head(s2c) /\ s2c' = Tail(s2c)
  \/ s2c = <<>> /\ ~up /\ UNCHANGED <<m1, s2c>>

ReceiveRead ==
  /\ cpc = "wait_read"
  /\ Answer
  /\ cpc' = "send_write"
  /\ UNCHANGED <<fast, position, outcome, c2s, stream, server, files>>

(* The result of the READ is the length of the WRITE.  A negative one is a *)
(* huge length to memcpy.                                                  *)
SendWrite ==
  /\ cpc = "send_write"
  /\ IF m1.result < 0 THEN End("crashed") /\ UNCHANGED c2s
     ELSE Request([op |-> "WRITE", offset |-> position,
                   data |-> SubSeq(m1.data, 1, m1.result)], "wait_write")
  /\ UNCHANGED <<fast, m1, position, s2c, stream, server, files>>

(* Slips of the loop: one advances by a buffer whatever was written, one   *)
(* takes a short buffer for the last, one goes on after an empty one.      *)
advance_by_buffer(result) ==
  [position |-> position + BUF_SIZE, again |-> result > 0]

stops_on_short(result) ==
  [position |-> position + result, again |-> result = BUF_SIZE]

never_stops(result) ==
  [position |-> position + result, again |-> result >= 0]

advance(result) ==
  [position |-> position + result, again |-> result > 0]

ReceiveWrite ==
  /\ cpc = "wait_write"
  /\ Answer
  /\ LET a == advance(m1'.result)
     IN  /\ position' = a.position
         /\ IF a.again THEN cpc' = "send_read" /\ UNCHANGED outcome
            ELSE End(IF m1'.result >= 0 THEN "OK" ELSE "error")
  /\ UNCHANGED <<fast, c2s, stream, server, files>>

(* copy_2 opens the destination with O_EXCL, then asks for everything.     *)
SendReadAll ==
  /\ cpc = "send_read" /\ fast
  /\ IF dst_file = "foreign"
     THEN End("error") /\ UNCHANGED <<c2s, dst_file>>
     ELSE /\ dst_file' = "ours"
          /\ Request([op |-> "READ", offset |-> 0, all |-> TRUE], "pull")
  /\ UNCHANGED <<fast, m1, position, s2c, stream, server, src_ok, dst>>

(* read and write: a write of fewer blocks loses the others, a failed one  *)
(* ends the loop.                                                          *)
Pull ==
  /\ cpc = "pull" /\ stream # <<>>
  /\ \E n \in 1..Len(stream) :
       /\ stream' = SubSeq(stream, n + 1, Len(stream))
       /\ \/ \E w \in 1..n : dst' = dst \o SubSeq(stream, 1, w)
             /\ UNCHANGED cpc
          \/ cpc' = "wait_status" /\ UNCHANGED dst
  /\ UNCHANGED <<fast, m1, position, outcome, c2s, s2c, server, src_ok,
                 dst_file>>

(* The data connection ends only with the server child.                    *)
PullEnd ==
  /\ cpc = "pull" /\ stream = <<>> /\ ~up
  /\ \/ cpc' = "wait_status" /\ UNCHANGED outcome
     \/ End("error")
  /\ UNCHANGED <<fast, m1, position, wires, server, files>>

ReceiveStatus ==
  /\ cpc = "wait_status"
  /\ Answer
  /\ End(IF m1'.result >= 0 THEN "OK" ELSE "error")
  /\ position' = position + m1'.result
  /\ UNCHANGED <<fast, c2s, stream, server, files>>

----------------------------------------------------------------------------
(* The server child.                                                       *)

ClientGone == cpc = "ended"

(* A reply to a client that has gone is lost, or raises the signal that    *)
(* kills the child.                                                        *)
Reply(result, data) ==
  \/ /\ ~ClientGone
     /\ s2c' = Append(s2c, [result |-> result, data |-> data])
     /\ UNCHANGED up
  \/ ClientGone /\ UNCHANGED s2c /\ up' \in BOOLEAN

(* do_read of one buffer.                                                  *)
DoRead(req) ==
  /\ \/ /\ src_ok /\ req.offset < SrcLen
        /\ \E r \in 1..MinOf(BUF_SIZE, SrcLen - req.offset) :
             /\ rpos' = req.offset + r
             /\ Reply(r, SubSeq(Src, req.offset + 1, req.offset + r))
     \/ src_ok /\ req.offset >= SrcLen /\ rpos' = req.offset /\ Reply(0, <<>>)
     \/ UNCHANGED rpos /\ Reply(E_IO, <<>>)
  /\ UNCHANGED <<pushing, stream, files>>

(* do_write; the open fails on a destination that exists already.          *)
DoWrite(req) ==
  /\ \/ /\ dst_file # "foreign" /\ dst_file' = "ours"
        /\ \E r \in MinOf(1, Len(req.data))..Len(req.data) :
             /\ dst' = Overwrite(dst, req.offset, SubSeq(req.data, 1, r))
             /\ Reply(r, <<>>)
     \/ /\ \/ dst_file' = dst_file
           \/ dst_file = "absent" /\ dst_file' = "ours"
        /\ UNCHANGED dst
        /\ Reply(E_IO, <<>>)
  /\ UNCHANGED <<pushing, rpos, stream, src_ok>>

(* do_read of the whole file starts its loop.                              *)
BeginPush ==
  \/ src_ok /\ pushing' = TRUE /\ UNCHANGED <<up, rpos, s2c, stream, files>>
  \/ ~src_ok /\ Reply(E_IO, <<>>) /\ UNCHANGED <<pushing, rpos, stream, files>>

BadOpcode ==
  Reply(E_BAD_OPCODE, <<>>) /\ UNCHANGED <<pushing, rpos, stream, files>>

Handle(req) ==
  /\ last' = req
  /\ \/ req.op = "WRITE" /\ DoWrite(req)
     \/ req.op = "READ" /\ ~req.all /\ DoRead(req)
     \/ req.op = "READ" /\ req.all /\ BeginPush
     \/ req.op = "NONE" /\ BadOpcode

Serve ==
  /\ up /\ ~pushing /\ c2s # <<>>
  /\ Handle(Head(c2s))
  /\ c2s' = Tail(c2s)
  /\ UNCHANGED client

(* The client has gone.  At the end of the connection the buffer that is   *)
(* decoded still holds the last reply, whose opcode is 0; after an error   *)
(* m1 keeps the last request, and the server handles it once more.         *)
ServeNobody ==
  /\ up /\ ~pushing /\ c2s = <<>> /\ ClientGone
  /\ Handle(NoRequest) \/ Handle(last)
  /\ UNCHANGED <<client, c2s>>

(* One turn of the loop.  Blocks for a client that has gone are lost.      *)
Push ==
  /\ up /\ pushing /\ rpos < SrcLen
  /\ \E n \in 1..(SrcLen - rpos) :
       /\ rpos' = rpos + n
       /\ \/ /\ ~ClientGone /\ Len(stream) + n <= StreamCap
             /\ stream' = stream \o SubSeq(Src, rpos + 1, rpos + n)
             /\ UNCHANGED up
          \/ ClientGone /\ up' \in BOOLEAN /\ UNCHANGED stream
  /\ UNCHANGED <<client, c2s, s2c, pushing, last, files>>

(* The end of the file, or an error; the data connection stays open.       *)
PushEnd ==
  /\ up /\ pushing
  /\ \/ rpos = SrcLen /\ Reply(0, <<>>)
     \/ Reply(-1, <<>>)
  /\ pushing' = FALSE
  /\ UNCHANGED <<client, c2s, stream, last, rpos, files>>

----------------------------------------------------------------------------
Init ==
  /\ fast \in BOOLEAN
  /\ cpc = "send_read"
  /\ m1 = Blank
  /\ position = 0
  /\ outcome = "none"
  /\ c2s = <<>> /\ s2c = <<>> /\ stream = <<>>
  /\ up = TRUE
  /\ pushing = FALSE
  /\ last = NoRequest
  /\ rpos = 0
  /\ src_ok \in BOOLEAN
  /\ dst_file \in {"absent", "foreign"}
  /\ dst = <<>>

ClientStep ==
  SendRead \/ ReceiveRead \/ SendWrite \/ ReceiveWrite \/ SendReadAll \/ Pull
    \/ PullEnd \/ ReceiveStatus

ServerStep == Serve \/ ServeNobody \/ Push \/ PushEnd

(* Either process is killed; what is under way from it may be lost.        *)
ClientDies ==
  /\ cpc # "ended"
  /\ End("killed")
  /\ c2s' \in {c2s, <<>>}
  /\ UNCHANGED <<fast, m1, position, s2c, stream, server, files>>

ServerDies ==
  /\ up /\ up' = FALSE
  /\ s2c' \in {s2c, <<>>} /\ stream' \in {stream, <<>>}
  /\ UNCHANGED <<client, c2s, pushing, last, rpos, files>>

Next == ClientStep \/ ServerStep \/ ClientDies \/ ServerDies

Spec == Init /\ [][Next]_vars

(* Both processes are scheduled; nobody has to be killed.                  *)
FairSpec == Spec /\ WF_vars(ClientStep) /\ WF_vars(ServerStep)

----------------------------------------------------------------------------
(* Short reads, short writes, failures of either side and requests that    *)
(* are handled twice never put a wrong block into the destination of a     *)
(* slow copy, nor leave a hole (client.c:176-201, server.c:251-286).       *)
SlowCopyIsPrefix ==
  ~fast => /\ Len(dst) <= SrcLen
           /\ \A i \in 1..Len(dst) : dst[i] = Src[i]

(* Whenever a live client of a live server asks for the next buffer, it    *)
(* does so at the very end of what the server has written: the two count   *)
(* the same blocks, whatever was cut short (client.c:189-197).             *)
PositionIsEndOfFile ==
  cpc = "send_read" /\ ~fast /\ up => position = Len(dst)

(* A slow copy that reports OK with the server still there is complete.    *)
SlowOkMeansComplete == ~fast /\ outcome = "OK" /\ up => dst = Src

(* Short reads, short writes, failures of either side and requests that    *)
(* are handled twice leave in the destination what FileCopy promises: no   *)
(* wrong block, in a slow copy no hole, in a fast one no block out of      *)
(* order, nothing over a file that was there; and no slow copy reports OK  *)
(* too early (client.c:176-237, server.c:251-326).                         *)
Copy == INSTANCE FileCopy

ImplementsFileCopy == Copy!Spec

(* A slow copy ends, whatever fails.                                       *)
SlowCopyEnds == ~fast ~> (cpc = "ended")

(* What README.md:93-103 says of the example, a fast copy: the transfer     *)
(* ends.  Once the server has sent the whole file the client has all it    *)
(* needs to return (client.c:223-237).                                     *)
FastCopyEnds == (pushing /\ rpos = SrcLen) ~> (cpc = "ended")

(* What message.h:20 says of OK: the operation was performed correctly.    *)
OkMeansComplete == outcome = "OK" => dst = Src
=============================================================================
