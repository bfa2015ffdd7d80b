---------------------------- MODULE ServerProofs ----------------------------
(***************************************************************************)
(* Proofs about Session and Endpoint: any number of clients, any backlog,  *)
(* any rates and logs of any length.                                       *)
(***************************************************************************)
EXTENDS MCServer, SequenceTheorems, FiniteSetTheorems, TLAPS

(* What appending to and taking from a sequence does to what it holds.     *)
LEMMA HeldAppend ==
  ASSUME NEW S, NEW s \in Seq(S), NEW x \in S
  PROVE  ToSet(Append(s, x)) = ToSet(s) \cup {x}
<1> DEFINE t == Append(s, x)
<1>1. /\ DOMAIN t = 1..(Len(s) + 1) /\ DOMAIN s = 1..Len(s) /\ Len(s) \in Nat
      /\ \A i \in 1..Len(s) : t[i] = s[i]
      /\ t[Len(s) + 1] = x
  OBVIOUS
<1> HIDE DEF t
<1>2. ASSUME NEW y \in ToSet(t) PROVE y \in ToSet(s) \cup {x}
  <2>1. PICK i \in 1..(Len(s) + 1) : y = t[i]
    BY <1>1 DEF ToSet
  <2>2. i \in 1..Len(s) \/ i = Len(s) + 1
    BY <1>1
  <2> QED
    BY <1>1, <2>1, <2>2 DEF ToSet
<1>3. ASSUME NEW y \in ToSet(s) \cup {x} PROVE y \in ToSet(t)
  <2>1. CASE y = x
    BY <1>1, <2>1 DEF ToSet
  <2>2. CASE y \in ToSet(s)
    <3>1. PICK i \in 1..Len(s) : y = s[i]
      BY <1>1, <2>2 DEF ToSet
    <3>2. i \in 1..(Len(s) + 1) /\ y = t[i]
      BY <1>1, <3>1
    <3> QED
      BY <1>1, <3>2 DEF ToSet
  <2> QED
    BY <2>1, <2>2
<1> QED
  BY <1>2, <1>3 DEF t

----------------------------------------------------------------------------
(* Session: the two queues stay in step.                                   *)

Connecting == {c \in Clients : cl[c] = "cmd"}

(* At most one client is between its connects.                             *)
OneAtATime == \A c, d \in Connecting : c = d

(* The clients whose data connection the server has not taken, in the      *)
(* order of their command connections.                                     *)
Coming == IF Connecting = {} THEN data_sd
          ELSE Append(data_sd, CHOOSE c \in Connecting : TRUE)

InStep ==
  /\ parent = "accept_data" =>
       /\ Coming # <<>>
       /\ Head(Coming) = accepted.cmd /\ Tail(Coming) = cmd_sd
  /\ parent \in {"accept_cmd", "fork"} => Coming = cmd_sd

AllPaired == \A p \in ToSet(children) \cup ToSet(refused) : p.cmd = p.data

Orderly ==
  ~overlapped => /\ OneAtATime /\ InStep /\ AllPaired
                 /\ parent = "fork" => accepted.cmd = accepted.data

SessionInv == SessionTypeOK /\ Orderly

LEMMA SessionInitInv == SessionInit => SessionInv
<1> SUFFICES ASSUME SessionInit PROVE SessionInv
  OBVIOUS
<1>1. Connecting = {}
  BY DEF SessionInit, Connecting
<1>2. OneAtATime /\ InStep
  BY <1>1 DEF SessionInit, OneAtATime, InStep, Coming
<1>3. ToSet(children) = {} /\ ToSet(refused) = {}
  <2>1. children = <<>> /\ refused = <<>> /\ DOMAIN <<>> = {}
    BY DEF SessionInit
  <2> QED
    BY <2>1 DEF ToSet
<1>4. SessionTypeOK
  <2>1. /\ <<>> \in Seq(Clients) /\ <<>> \in Seq(Pairs) /\ Len(<<>>) = 0
        /\ 0 <= Backlog
    BY SessionAssumption
  <2>2. accepted \in Pairs
    BY DEF SessionInit, Pairs
  <2>3. cl \in [Clients -> {"idle", "cmd", "both", "half"}]
    BY DEF SessionInit
  <2> QED
    BY <2>1, <2>2, <2>3 DEF SessionInit, SessionTypeOK
<1> QED
  BY <1>2, <1>3, <1>4 DEF SessionInit, SessionInv, Orderly, AllPaired

LEMMA SessionTypes ==
  ASSUME SessionTypeOK, [SessionNext]_sessionVars
  PROVE  SessionTypeOK'
<1> USE SessionAssumption DEF SessionTypeOK
<1>1. ASSUME NEW c \in Clients, ConnectCmd(c) PROVE SessionTypeOK'
  BY <1>1 DEF ConnectCmd
<1>2. ASSUME NEW c \in Clients, ConnectData(c) PROVE SessionTypeOK'
  BY <1>2 DEF ConnectData
<1>3. ASSUME NEW c \in Clients, GiveUp(c) PROVE SessionTypeOK'
  BY <1>3 DEF GiveUp
<1>4. CASE AcceptCmd
  <2>1. Head(cmd_sd) \in Clients /\ Tail(cmd_sd) \in Seq(Clients)
        /\ Len(Tail(cmd_sd)) <= Backlog
    BY <1>4, HeadTailProperties DEF AcceptCmd
  <2>2. accepted' \in Pairs
    BY <1>4, <2>1 DEF AcceptCmd, Pairs
  <2> QED
    BY <1>4, <2>1, <2>2 DEF AcceptCmd
<1>5. CASE AcceptData
  <2>1. Head(data_sd) \in Clients /\ Tail(data_sd) \in Seq(Clients)
        /\ Len(Tail(data_sd)) <= Backlog
    BY <1>5, HeadTailProperties DEF AcceptData
  <2>2. accepted' \in Pairs
    BY <1>5, <2>1 DEF AcceptData, Pairs
  <2> QED
    BY <1>5, <2>1, <2>2 DEF AcceptData
<1>6. CASE Fork
  <2>1. /\ Append(children, accepted) \in Seq(Pairs)
        /\ Append(refused, accepted) \in Seq(Pairs)
    BY AppendProperties
  <2>2. children' \in Seq(Pairs) /\ refused' \in Seq(Pairs)
    BY <1>6, <2>1 DEF Fork
  <2> QED
    BY <1>6, <2>2 DEF Fork, next_accept
<1>7. CASE ServerEnds
  BY <1>7 DEF ServerEnds
<1>8. CASE UNCHANGED sessionVars
  BY <1>8 DEF sessionVars
<1> QED
  BY <1>1, <1>2, <1>3, <1>4, <1>5, <1>6, <1>7, <1>8 DEF SessionNext, Parent

(* A client that connects alone joins both ends of the line.               *)
LEMMA ConnectCmdOrderly ==
  ASSUME SessionInv, NEW c \in Clients, ConnectCmd(c)
  PROVE  Orderly'
<1> SUFFICES ASSUME ~overlapped'
             PROVE  (OneAtATime /\ InStep /\ AllPaired)'
                    /\ (parent = "fork" => accepted.cmd = accepted.data)'
  BY DEF Orderly
<1>1. /\ ~overlapped /\ Connecting = {}
      /\ cl \in [Clients -> {"idle", "cmd", "both", "half"}]
      /\ cl' = [cl EXCEPT ![c] = "cmd"] /\ cmd_sd' = Append(cmd_sd, c)
      /\ UNCHANGED <<data_sd, parent, accepted, children, refused>>
      /\ parent \in {"accept_cmd", "accept_data", "fork"}
      /\ cmd_sd \in Seq(Clients) /\ data_sd \in Seq(Clients)
  BY DEF ConnectCmd, Connecting, SessionInv, SessionTypeOK
<1>2. Connecting' = {c}
  BY <1>1 DEF Connecting
<1>3. Coming = data_sd /\ Coming' = Append(data_sd, c)
  BY <1>1, <1>2 DEF Coming
<1>4. InStep'
  <2>1. CASE parent = "accept_data"
    <3>1. data_sd # <<>> /\ Head(data_sd) = accepted.cmd /\ Tail(data_sd) = cmd_sd
      BY <1>1, <1>3, <2>1 DEF SessionInv, Orderly, InStep
    <3>2. /\ Append(data_sd, c) # <<>>
          /\ Head(Append(data_sd, c)) = Head(data_sd)
          /\ Tail(Append(data_sd, c)) = Append(Tail(data_sd), c)
      BY <1>1, <3>1, HeadTailAppend, AppendProperties
    <3> QED
      BY <1>1, <1>3, <2>1, <3>1, <3>2 DEF InStep
  <2>2. CASE parent # "accept_data"
    <3>1. data_sd = cmd_sd
      BY <1>1, <1>3, <2>2 DEF SessionInv, Orderly, InStep
    <3> QED
      BY <1>1, <1>3, <2>2, <3>1 DEF InStep
  <2> QED
    BY <2>1, <2>2
<1>5. AllPaired' /\ (parent = "fork" => accepted.cmd = accepted.data)'
  BY <1>1 DEF SessionInv, Orderly, AllPaired
<1> QED
  BY <1>2, <1>4, <1>5 DEF OneAtATime

LEMMA ConnectDataOrderly ==
  ASSUME SessionInv, NEW c \in Clients, ConnectData(c)
  PROVE  Orderly'
<1> SUFFICES ASSUME ~overlapped
             PROVE  (OneAtATime /\ InStep /\ AllPaired)'
                    /\ (parent = "fork" => accepted.cmd = accepted.data)'
  BY DEF Orderly, ConnectData
<1>1. /\ cl[c] = "cmd" /\ OneAtATime /\ InStep
      /\ cl \in [Clients -> {"idle", "cmd", "both", "half"}]
      /\ cl' = [cl EXCEPT ![c] = "both"] /\ data_sd' = Append(data_sd, c)
      /\ UNCHANGED <<cmd_sd, parent, accepted, children, refused>>
  BY DEF ConnectData, SessionInv, SessionTypeOK, Orderly
<1>2. Connecting = {c} /\ Connecting' = {}
  BY <1>1 DEF Connecting, OneAtATime
<1>3. Coming' = Coming
  BY <1>1, <1>2 DEF Coming
<1>4. InStep'
  BY <1>1, <1>3 DEF InStep
<1>5. AllPaired' /\ (parent = "fork" => accepted.cmd = accepted.data)'
  BY <1>1 DEF SessionInv, Orderly, AllPaired
<1> QED
  BY <1>2, <1>4, <1>5 DEF OneAtATime

LEMMA AcceptCmdOrderly ==
  ASSUME SessionInv, AcceptCmd
  PROVE  Orderly'
<1> SUFFICES ASSUME ~overlapped
             PROVE  (OneAtATime /\ InStep /\ AllPaired)'
                    /\ (parent = "fork" => accepted.cmd = accepted.data)'
  BY DEF Orderly, AcceptCmd
<1>1. /\ parent = "accept_cmd" /\ parent' = "accept_data" /\ cmd_sd # <<>>
      /\ accepted \in Pairs
      /\ accepted' = [accepted EXCEPT !.cmd = Head(cmd_sd)]
      /\ cmd_sd' = Tail(cmd_sd)
      /\ UNCHANGED <<cl, data_sd, children, refused>>
      /\ OneAtATime /\ AllPaired /\ InStep
  BY DEF AcceptCmd, SessionInv, SessionTypeOK, Orderly
<1>2. Coming' = Coming /\ Connecting' = Connecting
  BY <1>1 DEF Coming, Connecting
<1>3. Coming = cmd_sd /\ accepted'.cmd = Head(cmd_sd)
  BY <1>1 DEF InStep, Pairs
<1>4. InStep'
  BY <1>1, <1>2, <1>3 DEF InStep
<1> QED
  BY <1>1, <1>2, <1>4 DEF OneAtATime, AllPaired

LEMMA AcceptDataOrderly ==
  ASSUME SessionInv, AcceptData
  PROVE  Orderly'
<1> SUFFICES ASSUME ~overlapped
             PROVE  (OneAtATime /\ InStep /\ AllPaired)'
                    /\ (parent = "fork" => accepted.cmd = accepted.data)'
  BY DEF Orderly, AcceptData
<1>1. /\ parent = "accept_data" /\ parent' = "fork" /\ data_sd # <<>>
      /\ accepted \in Pairs /\ data_sd \in Seq(Clients)
      /\ accepted' = [accepted EXCEPT !.data = Head(data_sd)]
      /\ data_sd' = Tail(data_sd)
      /\ UNCHANGED <<cl, cmd_sd, children, refused>>
      /\ OneAtATime /\ AllPaired /\ InStep
  BY DEF AcceptData, SessionInv, SessionTypeOK, Orderly
<1>2. Head(Coming) = accepted.cmd /\ Tail(Coming) = cmd_sd
  BY <1>1 DEF InStep
<1>3. Connecting' = Connecting
  BY <1>1 DEF Connecting
<1>4. Head(Coming) = Head(data_sd) /\ Coming' = Tail(Coming)
  <2>1. CASE Connecting = {}
    BY <1>1, <1>3, <2>1 DEF Coming
  <2>2. CASE Connecting # {}
    <3> DEFINE c == CHOOSE x \in Connecting : TRUE
    <3>1. c \in Clients
      BY <2>2 DEF Connecting
    <3>2. Coming = Append(data_sd, c) /\ Coming' = Append(Tail(data_sd), c)
      BY <1>1, <1>3, <2>2 DEF Coming
    <3> HIDE DEF c
    <3> QED
      BY <1>1, <3>1, <3>2, HeadTailAppend
  <2> QED
    BY <2>1, <2>2
<1>5. accepted'.cmd = accepted'.data
  BY <1>1, <1>2, <1>4 DEF Pairs
<1>6. InStep'
  BY <1>1, <1>2, <1>4 DEF InStep
<1> QED
  BY <1>1, <1>3, <1>5, <1>6 DEF OneAtATime, AllPaired

LEMMA ForkOrderly ==
  ASSUME SessionInv, Fork
  PROVE  Orderly'
<1> SUFFICES ASSUME ~overlapped
             PROVE  (OneAtATime /\ InStep /\ AllPaired)'
                    /\ (parent = "fork" => accepted.cmd = accepted.data)'
  BY DEF Orderly, Fork
<1>1. /\ parent = "fork" /\ parent' = "accept_cmd"
      /\ UNCHANGED <<cl, cmd_sd, data_sd, accepted>>
      /\ children \in Seq(Pairs) /\ refused \in Seq(Pairs) /\ accepted \in Pairs
      /\ OneAtATime /\ AllPaired /\ InStep /\ accepted.cmd = accepted.data
  BY DEF Fork, next_accept, SessionInv, SessionTypeOK, Orderly
<1>2. ToSet(children') \cup ToSet(refused')
        = (ToSet(children) \cup ToSet(refused)) \cup {accepted}
  <2>1. /\ ToSet(Append(children, accepted)) = ToSet(children) \cup {accepted}
        /\ ToSet(Append(refused, accepted)) = ToSet(refused) \cup {accepted}
    BY <1>1, HeldAppend
  <2>2. \/ children' = Append(children, accepted) /\ refused' = refused
        \/ refused' = Append(refused, accepted) /\ children' = children
    BY DEF Fork
  <2> QED
    BY <2>1, <2>2
<1>3. AllPaired'
  BY <1>1, <1>2 DEF AllPaired
<1>4. InStep' /\ OneAtATime'
  BY <1>1 DEF InStep, OneAtATime, Connecting, Coming
<1> QED
  BY <1>1, <1>3, <1>4

LEMMA SessionNextInv ==
  ASSUME SessionInv, [SessionNext]_sessionVars
  PROVE  SessionInv'
<1>1. ASSUME NEW c \in Clients, GiveUp(c) PROVE Orderly'
  BY <1>1 DEF GiveUp, Orderly
<1>2. ASSUME ServerEnds PROVE Orderly'
  <2> SUFFICES ASSUME ~overlapped'
               PROVE  (OneAtATime /\ InStep /\ AllPaired)'
                      /\ (parent = "fork" => accepted.cmd = accepted.data)'
    BY DEF Orderly
  <2>1. OneAtATime /\ AllPaired
    BY <1>2 DEF ServerEnds, SessionInv, Orderly
  <2>2. OneAtATime' /\ AllPaired'
    BY <1>2, <2>1 DEF ServerEnds, OneAtATime, Connecting, AllPaired
  <2>3. parent' = "down"
    BY <1>2 DEF ServerEnds
  <2> QED
    BY <2>2, <2>3 DEF InStep
<1>3. ASSUME UNCHANGED sessionVars PROVE Orderly'
  <2> SUFFICES ASSUME ~overlapped'
               PROVE  (OneAtATime /\ InStep /\ AllPaired)'
                      /\ (parent = "fork" => accepted.cmd = accepted.data)'
    BY DEF Orderly
  <2>1. OneAtATime /\ AllPaired /\ InStep
        /\ (parent = "fork" => accepted.cmd = accepted.data)
    BY <1>3 DEF sessionVars, SessionInv, Orderly
  <2>2. Connecting' = Connecting /\ Coming' = Coming
    BY <1>3 DEF sessionVars, Connecting, Coming
  <2> QED
    BY <1>3, <2>1, <2>2 DEF sessionVars, OneAtATime, AllPaired, InStep
<1>4. ASSUME NEW c \in Clients, ConnectCmd(c) \/ ConnectData(c) PROVE Orderly'
  BY <1>4, ConnectCmdOrderly, ConnectDataOrderly
<1>5. ASSUME Parent PROVE Orderly'
  BY <1>5, AcceptCmdOrderly, AcceptDataOrderly, ForkOrderly DEF Parent
<1>6. Orderly'
  BY <1>1, <1>2, <1>3, <1>4, <1>5 DEF SessionNext
<1>7. SessionTypeOK'
  BY SessionTypes DEF SessionInv
<1> QED
  BY <1>6, <1>7 DEF SessionInv

(* However many clients connect, in turn, and whatever forks fail: every   *)
(* child has the two connections of one client.                            *)
THEOREM ChildrenArePaired == SessionSpec => []PairedInTurn
<1>1. SessionInit => SessionInv
  BY SessionInitInv
<1>2. SessionInv /\ [SessionNext]_sessionVars => SessionInv'
  BY SessionNextInv
<1>3. SessionInv => PairedInTurn
  BY DEF SessionInv, Orderly, AllPaired, PairedInTurn
<1> QED
  BY <1>1, <1>2, <1>3, PTL DEF SessionSpec

----------------------------------------------------------------------------
(* Session: the two queues hold as much as was put in and not taken out.   *)

Begun  == {c \in Clients : cl[c] # "idle"}
Joined == {c \in Clients : cl[c] = "both"}

HalfTaken  == IF parent \in {"accept_data", "fork"} THEN 1 ELSE 0
WholeTaken == IF parent = "fork" THEN 1 ELSE 0

(* As many connections were made as wait, are taken or were handed on.     *)
Counted ==
  /\ IsFiniteSet(Begun) /\ IsFiniteSet(Joined)
  /\ Cardinality(Begun)
       = Len(cmd_sd) + HalfTaken + Len(children) + Len(refused)
  /\ Cardinality(Joined)
       = Len(data_sd) + WholeTaken + Len(children) + Len(refused)

(* Where the connections of each client are.                               *)
Found ==
  /\ \A c \in Begun : \/ c \in ToSet(cmd_sd)
                      \/ HalfTaken = 1 /\ accepted.cmd = c
                      \/ Handled(c)
  /\ \A c \in Joined : \/ c \in ToSet(data_sd)
                       \/ WholeTaken = 1 /\ accepted.data = c
                       \/ HandledData(c)

Balance == parent # "down" => Counted /\ Found

LEMMA HeldNone == ToSet(<<>>) = {}
BY DEF ToSet

LEMMA HeldTail ==
  ASSUME NEW S, NEW s \in Seq(S), s # <<>>
  PROVE  /\ ToSet(s) = {Head(s)} \cup ToSet(Tail(s))
         /\ Len(Tail(s)) = Len(s) - 1
<1> DEFINE t == Tail(s)
<1>1. /\ DOMAIN s = 1..Len(s) /\ Len(s) \in Nat /\ Len(s) >= 1
      /\ DOMAIN t = 1..(Len(s) - 1) /\ Len(t) = Len(s) - 1
      /\ Head(s) = s[1] /\ \A i \in 1..(Len(s) - 1) : t[i] = s[i + 1]
  OBVIOUS
<1> HIDE DEF t
<1>2. ASSUME NEW y \in ToSet(s) PROVE y \in {Head(s)} \cup ToSet(t)
  <2>1. PICK i \in 1..Len(s) : y = s[i]
    BY <1>1 DEF ToSet
  <2>2. CASE i = 1
    BY <1>1, <2>1, <2>2
  <2>3. CASE i # 1
    <3>1. i - 1 \in 1..(Len(s) - 1) /\ i - 1 + 1 = i
      BY <1>1, <2>3
    <3>2. t[i - 1] = y
      BY <1>1, <2>1, <3>1
    <3> QED
      BY <1>1, <3>1, <3>2 DEF ToSet
  <2> QED
    BY <2>2, <2>3
<1>3. ASSUME NEW y \in {Head(s)} \cup ToSet(t) PROVE y \in ToSet(s)
  <2>1. CASE y = Head(s)
    <3>1. 1 \in 1..Len(s)
      BY <1>1
    <3> QED
      BY <1>1, <2>1, <3>1 DEF ToSet
  <2>2. CASE y \in ToSet(t)
    <3>1. PICK i \in 1..(Len(s) - 1) : y = t[i]
      BY <1>1, <2>2 DEF ToSet
    <3>2. i + 1 \in 1..Len(s) /\ y = s[i + 1]
      BY <1>1, <3>1
    <3> QED
      BY <1>1, <3>2 DEF ToSet
  <2> QED
    BY <2>1, <2>2
<1> QED
  BY <1>1, <1>2, <1>3 DEF t

LEMMA SessionInitBalance == SessionInit => Balance
<1> SUFFICES ASSUME SessionInit PROVE Counted /\ Found
  BY DEF Balance
<1>1. Begun = {} /\ Joined = {} /\ HalfTaken = 0 /\ WholeTaken = 0
  BY DEF SessionInit, Begun, Joined, HalfTaken, WholeTaken
<1>2. /\ IsFiniteSet({}) /\ Cardinality({}) = 0 /\ Len(<<>>) = 0
  BY FS_EmptySet
<1> QED
  BY <1>1, <1>2 DEF SessionInit, Counted, Found

LEMMA ConnectCmdBalance ==
  ASSUME SessionTypeOK, Balance, NEW c \in Clients, ConnectCmd(c)
  PROVE  Balance'
<1>1. /\ cl[c] = "idle" /\ cl' = [cl EXCEPT ![c] = "cmd"]
      /\ cl \in [Clients -> {"idle", "cmd", "both", "half"}]
      /\ cmd_sd \in Seq(Clients) /\ cmd_sd' = Append(cmd_sd, c)
      /\ UNCHANGED <<data_sd, parent, accepted, children, refused>>
      /\ Counted /\ Found
      /\ Len(children) \in Nat /\ Len(refused) \in Nat
  BY DEF ConnectCmd, SessionTypeOK, Balance
<1>2. Begun' = Begun \cup {c} /\ c \notin Begun /\ Joined' = Joined
  BY <1>1 DEF Begun, Joined
<1>3. Len(cmd_sd') = Len(cmd_sd) + 1 /\ Len(cmd_sd) \in Nat
      /\ ToSet(cmd_sd') = ToSet(cmd_sd) \cup {c}
  BY <1>1, HeldAppend
<1>4. IsFiniteSet(Begun') /\ Cardinality(Begun') = Cardinality(Begun) + 1
  BY <1>1, <1>2, FS_AddElement DEF Counted
<1>5. HalfTaken' = HalfTaken /\ WholeTaken' = WholeTaken /\ HalfTaken \in Nat
  BY <1>1 DEF HalfTaken, WholeTaken
<1>6. Counted'
  BY <1>1, <1>2, <1>3, <1>4, <1>5 DEF Counted
<1>7. Found'
  BY <1>1, <1>2, <1>3, <1>5 DEF Found, Handled, HandledData
<1> QED
  BY <1>6, <1>7 DEF Balance

LEMMA ConnectDataBalance ==
  ASSUME SessionTypeOK, Balance, NEW c \in Clients, ConnectData(c)
  PROVE  Balance'
<1>1. /\ cl[c] = "cmd" /\ cl' = [cl EXCEPT ![c] = "both"]
      /\ cl \in [Clients -> {"idle", "cmd", "both", "half"}]
      /\ data_sd \in Seq(Clients) /\ data_sd' = Append(data_sd, c)
      /\ UNCHANGED <<cmd_sd, parent, accepted, children, refused>>
      /\ Counted /\ Found
      /\ Len(children) \in Nat /\ Len(refused) \in Nat
  BY DEF ConnectData, SessionTypeOK, Balance
<1>2. Joined' = Joined \cup {c} /\ c \notin Joined /\ Begun' = Begun
  BY <1>1 DEF Begun, Joined
<1>3. Len(data_sd') = Len(data_sd) + 1 /\ Len(data_sd) \in Nat
      /\ ToSet(data_sd') = ToSet(data_sd) \cup {c}
  BY <1>1, HeldAppend
<1>4. IsFiniteSet(Joined') /\ Cardinality(Joined') = Cardinality(Joined) + 1
  BY <1>1, <1>2, FS_AddElement DEF Counted
<1>5. HalfTaken' = HalfTaken /\ WholeTaken' = WholeTaken /\ WholeTaken \in Nat
  BY <1>1 DEF HalfTaken, WholeTaken
<1>6. Counted'
  BY <1>1, <1>2, <1>3, <1>4, <1>5 DEF Counted
<1>7. Found'
  BY <1>1, <1>2, <1>3, <1>5 DEF Found, Handled, HandledData
<1> QED
  BY <1>6, <1>7 DEF Balance

LEMMA AcceptCmdBalance ==
  ASSUME SessionTypeOK, Balance, AcceptCmd
  PROVE  Balance'
<1>1. /\ parent = "accept_cmd" /\ parent' = "accept_data"
      /\ cmd_sd \in Seq(Clients) /\ cmd_sd # <<>> /\ cmd_sd' = Tail(cmd_sd)
      /\ accepted \in Pairs
      /\ accepted' = [accepted EXCEPT !.cmd = Head(cmd_sd)]
      /\ UNCHANGED <<cl, data_sd, children, refused>>
      /\ Counted /\ Found
      /\ Len(children) \in Nat /\ Len(refused) \in Nat
  BY DEF AcceptCmd, SessionTypeOK, Balance
<1>2. /\ HalfTaken = 0 /\ HalfTaken' = 1 /\ WholeTaken = 0 /\ WholeTaken' = 0
      /\ accepted'.cmd = Head(cmd_sd)
  BY <1>1 DEF HalfTaken, WholeTaken, Pairs
<1>3. /\ ToSet(cmd_sd) = {Head(cmd_sd)} \cup ToSet(cmd_sd')
      /\ Len(cmd_sd') = Len(cmd_sd) - 1 /\ Len(cmd_sd) \in Nat
  BY <1>1, HeldTail
<1>4. Begun' = Begun /\ Joined' = Joined
  BY <1>1 DEF Begun, Joined
<1>5. Counted'
  BY <1>1, <1>2, <1>3, <1>4 DEF Counted
<1>6. Found'
  BY <1>1, <1>2, <1>3, <1>4 DEF Found, Handled, HandledData
<1> QED
  BY <1>5, <1>6 DEF Balance

LEMMA AcceptDataBalance ==
  ASSUME SessionTypeOK, Balance, AcceptData
  PROVE  Balance'
<1>1. /\ parent = "accept_data" /\ parent' = "fork"
      /\ data_sd \in Seq(Clients) /\ data_sd # <<>> /\ data_sd' = Tail(data_sd)
      /\ accepted \in Pairs
      /\ accepted' = [accepted EXCEPT !.data = Head(data_sd)]
      /\ UNCHANGED <<cl, cmd_sd, children, refused>>
      /\ Counted /\ Found
      /\ Len(children) \in Nat /\ Len(refused) \in Nat
  BY DEF AcceptData, SessionTypeOK, Balance
<1>2. /\ HalfTaken = 1 /\ HalfTaken' = 1 /\ WholeTaken = 0 /\ WholeTaken' = 1
      /\ accepted'.data = Head(data_sd) /\ accepted'.cmd = accepted.cmd
  BY <1>1 DEF HalfTaken, WholeTaken, Pairs
<1>3. /\ ToSet(data_sd) = {Head(data_sd)} \cup ToSet(data_sd')
      /\ Len(data_sd') = Len(data_sd) - 1 /\ Len(data_sd) \in Nat
  BY <1>1, HeldTail
<1>4. Begun' = Begun /\ Joined' = Joined
  BY <1>1 DEF Begun, Joined
<1>5. Counted'
  BY <1>1, <1>2, <1>3, <1>4 DEF Counted
<1>6. Found'
  BY <1>1, <1>2, <1>3, <1>4 DEF Found, Handled, HandledData
<1> QED
  BY <1>5, <1>6 DEF Balance

LEMMA ForkBalance ==
  ASSUME SessionTypeOK, Balance, Fork
  PROVE  Balance'
<1>1. /\ parent = "fork" /\ parent' = "accept_cmd"
      /\ UNCHANGED <<cl, cmd_sd, data_sd, accepted>>
      /\ children \in Seq(Pairs) /\ refused \in Seq(Pairs) /\ accepted \in Pairs
      /\ Counted /\ Found
      /\ Len(cmd_sd) \in Nat /\ Len(data_sd) \in Nat
  BY DEF Fork, next_accept, SessionTypeOK, Balance
<1>2. /\ ToSet(children') \cup ToSet(refused')
           = (ToSet(children) \cup ToSet(refused)) \cup {accepted}
      /\ Len(children') + Len(refused') = Len(children) + Len(refused) + 1
      /\ Len(children) \in Nat /\ Len(refused) \in Nat
      /\ Len(children') \in Nat /\ Len(refused') \in Nat
  <2>1. /\ ToSet(Append(children, accepted)) = ToSet(children) \cup {accepted}
        /\ ToSet(Append(refused, accepted)) = ToSet(refused) \cup {accepted}
    BY <1>1, HeldAppend
  <2>2. /\ Len(Append(children, accepted)) = Len(children) + 1
        /\ Len(Append(refused, accepted)) = Len(refused) + 1
        /\ Len(children) \in Nat /\ Len(refused) \in Nat
    BY <1>1
  <2>3. CASE children' = Append(children, accepted) /\ refused' = refused
    BY <2>1, <2>2, <2>3
  <2>4. CASE refused' = Append(refused, accepted) /\ children' = children
    BY <2>1, <2>2, <2>4
  <2> QED
    BY <2>3, <2>4 DEF Fork
<1>3. /\ HalfTaken = 1 /\ HalfTaken' = 0 /\ WholeTaken = 1 /\ WholeTaken' = 0
      /\ Begun' = Begun /\ Joined' = Joined
  BY <1>1 DEF HalfTaken, WholeTaken, Begun, Joined
<1>4. Counted'
  BY <1>1, <1>2, <1>3 DEF Counted
<1>5. Found'
  BY <1>1, <1>2, <1>3 DEF Found, Handled, HandledData
<1> QED
  BY <1>4, <1>5 DEF Balance

LEMMA SessionNextBalance ==
  ASSUME SessionTypeOK, Balance, [SessionNext]_sessionVars
  PROVE  Balance'
<1>1. ASSUME NEW c \in Clients, GiveUp(c) PROVE Balance'
  <2>1. /\ cl[c] = "cmd" /\ cl' = [cl EXCEPT ![c] = "half"]
        /\ cl \in [Clients -> {"idle", "cmd", "both", "half"}]
        /\ UNCHANGED <<cmd_sd, data_sd, parent, accepted, children, refused>>
    BY <1>1 DEF GiveUp, SessionTypeOK
  <2>2. /\ Begun' = Begun /\ Joined' = Joined
        /\ HalfTaken' = HalfTaken /\ WholeTaken' = WholeTaken
    BY <2>1 DEF Begun, Joined, HalfTaken, WholeTaken
  <2> QED
    BY <2>1, <2>2 DEF Balance, Counted, Found, Handled, HandledData
<1>2. CASE ServerEnds
  BY <1>2 DEF ServerEnds, Balance
<1>3. CASE UNCHANGED sessionVars
  <2>1. UNCHANGED <<cl, cmd_sd, data_sd, parent, accepted, children, refused>>
    BY <1>3 DEF sessionVars
  <2> QED
    BY <2>1 DEF Balance, Counted, Found, Handled, HandledData, Begun, Joined,
       HalfTaken, WholeTaken
<1>4. ASSUME NEW c \in Clients, ConnectCmd(c) \/ ConnectData(c) PROVE Balance'
  BY <1>4, ConnectCmdBalance, ConnectDataBalance
<1>5. CASE Parent
  BY <1>5, AcceptCmdBalance, AcceptDataBalance, ForkBalance DEF Parent
<1> QED
  BY <1>1, <1>2, <1>3, <1>4, <1>5 DEF SessionNext

(* For any number of clients and any backlog: when the server's loop waits *)
(* and no client is half way, every client that has made its connections   *)
(* has them with a child or a failed fork, however they were crossed       *)
(* (server.c:190-243).                                                     *)
THEOREM NoneStranded == SessionSpec => []NobodyStranded
<1>1. SessionTypeOK /\ Balance => NobodyStranded
  <2> SUFFICES ASSUME SessionTypeOK, Balance, Waiting,
                      \A d \in Clients : cl[d] \notin {"cmd", "half"},
                      NEW c \in Clients, cl[c] = "both"
               PROVE  Handled(c) /\ HandledData(c)
    BY DEF NobodyStranded
  <2>1. /\ Counted /\ Found
        /\ Len(cmd_sd) \in Nat /\ Len(data_sd) \in Nat
        /\ Len(children) \in Nat /\ Len(refused) \in Nat
        /\ cl \in [Clients -> {"idle", "cmd", "both", "half"}]
        /\ cmd_sd \in Seq(Clients) /\ data_sd \in Seq(Clients)
    BY DEF Balance, Waiting, SessionTypeOK
  <2>2. Begun = Joined /\ c \in Begun /\ c \in Joined
    BY <2>1 DEF Begun, Joined
  <2>3. Len(cmd_sd) + HalfTaken = Len(data_sd) + WholeTaken
    BY <2>1, <2>2 DEF Counted, HalfTaken, WholeTaken
  <2>4. parent = "accept_cmd" /\ cmd_sd = <<>>
    <3>1. ~(parent = "accept_data" /\ data_sd = <<>>)
      BY <2>1, <2>3 DEF HalfTaken, WholeTaken
    <3> QED
      BY <3>1 DEF Waiting
  <2>5. HalfTaken = 0 /\ WholeTaken = 0 /\ data_sd = <<>>
    BY <2>1, <2>3, <2>4 DEF HalfTaken, WholeTaken
  <2>6. ToSet(cmd_sd) = {} /\ ToSet(data_sd) = {}
    BY <2>4, <2>5, HeldNone
  <2> QED
    BY <2>1, <2>2, <2>5, <2>6 DEF Found
<1>2. SessionInit => SessionInv /\ Balance
  BY SessionInitInv, SessionInitBalance
<1>3. SessionInv /\ Balance /\ [SessionNext]_sessionVars => (SessionInv /\ Balance)'
  BY SessionNextInv, SessionNextBalance DEF SessionInv
<1>4. SessionInv => SessionTypeOK
  BY DEF SessionInv
<1> QED
  BY <1>1, <1>2, <1>3, <1>4, PTL DEF SessionSpec

----------------------------------------------------------------------------
(* Endpoint: where a process is, also while it installs a controller.      *)

Installing == pc \in {"load", "set_cmd", "set_data"}
Stage == IF Installing THEN resume ELSE pc

ProcTypes ==
  /\ EndpointTypeOK
  /\ cursor \in [Streams -> Nat]
  /\ ~bandwidth => Stage \in {"serve", "dead"}

(* Each controller installed has left its flag, or leaves it next.         *)
Noted ==
  /\ pc \in {"serve", "scan_recv", "scan_send", "load", "set_cmd"}
       => ToSet(installs) \subseteq flags \cup {"cubic"}
  /\ pc \in {"load", "set_cmd"}
       => target \notin flags /\ (installs = <<>> \/ target \in Bpf)
  /\ pc = "set_data"
       => /\ ToSet(installs) \subseteq flags \cup {"cubic", target}
          /\ target # "none" /\ installs # <<>> /\ installs[Len(installs)] = target
  /\ "inherited" \notin ToSet(installs)
  /\ Installing => target # "inherited"
  /\ pc = "load" => target \in Bpf

(* Past the cursor the rates do not fall, but for the last one logged.     *)
Flat(s) == \A i \in (cursor[s] + 1)..(Len(log[s]) - 1) : log[s][i] <= log[s][i + 1]
Fresh(s) == \A i \in (cursor[s] + 1)..(Len(log[s]) - 2) : log[s][i] <= log[s][i + 1]
AtDrop(s) == cursor[s] # 0 => /\ cursor[s] >= 2
                              /\ log[s][cursor[s]] < log[s][cursor[s] - 1]

Scanned ==
  bandwidth =>
    /\ \A s \in Streams : AtDrop(s)
    /\ Stage = "serve" => Flat("recv") /\ Flat("send")
    /\ Stage = "scan_send" => Flat("recv") /\ Fresh("send")
    /\ Stage = "scan_recv" => Fresh("recv") /\ Fresh("send")

ProcInv == ProcTypes /\ Noted /\ InstalledOnce /\ Scanned

LEMMA FirstOfOne == ASSUME NEW x \in Int PROVE First({x}) = x
BY DEF First

LEMMA FirstOfThree ==
  ASSUME NEW S \in SUBSET (1..3), S # {}
  PROVE  First(S) \in S
<1>1. \E i \in S : \A j \in S : i <= j
  <2>1. CASE 1 \in S
    BY <2>1
  <2>2. CASE 1 \notin S /\ 2 \in S
    BY <2>2
  <2>3. CASE 1 \notin S /\ 2 \notin S
    <3>1. \A i \in S : i = 3
      BY <2>3
    <3>2. 3 \in S
      BY <3>1
    <3> QED
      BY <3>1, <3>2
  <2> QED
    BY <2>1, <2>2, <2>3
<1> QED
  BY <1>1 DEF First

(* switch_bpfcc goes on, or starts to install a controller not used yet.   *)
Switched(next) ==
  \/ pc' = next /\ UNCHANGED <<target, resume>>
  \/ target' \in Bpf \ flags /\ pc' = "load" /\ resume' = next

LEMMA SwitchFacts ==
  ASSUME NEW next, switch_bpfcc(next)
  PROVE  Switched(next)
<1>1. CASE Unused = {}
  BY <1>1 DEF switch_bpfcc, Switched
<1>2. CASE Unused # {}
  <2>1. First(Unused) \in Unused
    BY <1>2, FirstOfThree DEF Unused
  <2>2. SwitchOrder[First(Unused)] \in Bpf \ flags
    <3>1. \A j \in 1..3 : SwitchOrder[j] \in Bpf
      BY DEF SwitchOrder, Bpf
    <3>2. First(Unused) \in 1..3 /\ SwitchOrder[First(Unused)] \notin flags
      BY <2>1 DEF Unused
    <3> QED
      BY <3>1, <3>2
  <2> QED
    BY <1>2, <2>2 DEF switch_bpfcc, Switched, Install
<1> QED
  BY <1>1, <1>2

LEMMA Analyzed ==
  ASSUME ProcTypes, NEW s \in Streams, NEW next, bandwidth_analyzer(s, next),
         Fresh(s), AtDrop(s)
  PROVE  /\ cursor' \in [Streams -> Nat]
         /\ cursor'[s] \in 0..Len(log[s])
         /\ \A t \in Streams : t # s => cursor'[t] = cursor[t]
         /\ AtDrop(s)' /\ Flat(s)'
         /\ Switched(next)
         /\ log' = log
<1>1. /\ log' = log /\ cursor \in [Streams -> Nat]
      /\ cursor[s] \in 0..Len(log[s]) /\ Len(log[s]) \in Nat
      /\ \A i \in 1..Len(log[s]) : log[s][i] \in Nat
  <2>1. log' = log
    BY DEF bandwidth_analyzer
  <2>2. /\ cursor \in [Streams -> Nat] /\ log[s] \in Seq(Rates)
        /\ cursor[s] \in 0..Len(log[s])
    BY DEF ProcTypes, EndpointTypeOK
  <2>3. \A i \in 1..Len(log[s]) : log[s][i] \in Rates
    BY <2>2
  <2>4. \A i \in 1..Len(log[s]) : log[s][i] \in Nat
    BY <2>3, EndpointAssumption
  <2>5. Len(log[s]) \in Nat
    BY <2>2
  <2> QED
    BY <2>1, <2>2, <2>4, <2>5
<1>2. CASE drops(s) = {}
  <2>1. cursor' = cursor /\ Switched(next)
    BY <1>2 DEF bandwidth_analyzer, Switched
  <2>2. Flat(s)
    BY <1>1, <1>2 DEF drops, Flat
  <2> QED
    BY <1>1, <2>1, <2>2 DEF Flat, AtDrop
<1>3. CASE drops(s) # {}
  <2> DEFINE n == Len(log[s])
  <2>1. \A i \in drops(s) : i = n - 1
    <3> SUFFICES ASSUME NEW i \in drops(s), i # n - 1 PROVE FALSE
      OBVIOUS
    <3>1. i \in (cursor[s] + 1)..(n - 1) /\ log[s][i + 1] < log[s][i]
      BY DEF drops
    <3>2. i \in (cursor[s] + 1)..(n - 2) /\ i \in 1..n /\ i + 1 \in 1..n
      BY <1>1, <3>1
    <3> QED
      BY <1>1, <3>1, <3>2 DEF Fresh
  <2>2. drops(s) = {n - 1}
    BY <1>3, <2>1
  <2>3. First(drops(s)) = n - 1
    BY <1>1, <2>2, FirstOfOne
  <2>4. n - 1 \in (cursor[s] + 1)..(n - 1) /\ log[s][n - 1 + 1] < log[s][n - 1]
    BY <2>2 DEF drops
  <2>5. cursor' = [cursor EXCEPT ![s] = n] /\ Switched(next)
    <3>1. cursor' = [cursor EXCEPT ![s] = n - 1 + 1]
      BY <1>3, <2>3 DEF bandwidth_analyzer, after_drop
    <3>2. switch_bpfcc(next)
      BY <1>3 DEF bandwidth_analyzer
    <3> QED
      BY <1>1, <3>1, <3>2, SwitchFacts
  <2>6. cursor'[s] = n /\ n >= 2 /\ n - 1 + 1 = n
    BY <1>1, <2>4, <2>5
  <2>7. AtDrop(s)'
    BY <1>1, <2>4, <2>6 DEF AtDrop
  <2>8. Flat(s)'
    BY <1>1, <2>6 DEF Flat
  <2>9. cursor' \in [Streams -> Nat] /\ \A t \in Streams : t # s => cursor'[t] = cursor[t]
    BY <1>1, <2>5
  <2> QED
    BY <1>1, <2>5, <2>6, <2>7, <2>8, <2>9
<1> QED
  BY <1>2, <1>3

LEMMA ProcInitInv == EndpointInit => ProcInv
<1> SUFFICES ASSUME EndpointInit PROVE ProcInv
  OBVIOUS
<1>1. opt \in Options /\ opt \in Bpf \cup {"none", "cubic"}
  BY EndpointAssumption DEF EndpointInit
<1>2. /\ installs = <<>> /\ Len(<<>>) = 0 /\ <<>> \in Seq(Names)
      /\ <<>> \in Seq(Rates)
  BY DEF EndpointInit
<1>3. EndpointTypeOK
  <2>1. LoaderTypeOK
    BY DEF EndpointInit, LoaderTypeOK, Skels
  <2>2. /\ log \in [Streams -> Seq(Rates)]
        /\ \A t \in Streams : cursor[t] \in 0..Len(log[t])
    BY <1>2 DEF EndpointInit
  <2> QED
    BY <1>1, <1>2, <2>1, <2>2 DEF EndpointInit, EndpointTypeOK, Skels, Names
<1>4. cursor \in [Streams -> Nat]
  BY DEF EndpointInit
<1>5. Stage = "serve"
  BY DEF EndpointInit, Stage, Installing
<1>6. Noted
  <2>1. ToSet(installs) = {}
    BY <1>2 DEF ToSet
  <2>2. target # "inherited"
    BY <1>1 DEF EndpointInit, Bpf
  <2> QED
    BY <1>2, <2>1, <2>2 DEF EndpointInit, Noted
<1>7. InstalledOnce
  BY <1>2 DEF InstalledOnce
<1>8. Scanned
  <2>1. \A t \in Streams : cursor[t] = 0 /\ Len(log[t]) = 0
    BY <1>2 DEF EndpointInit
  <2> QED
    BY <1>5, <2>1 DEF Scanned, AtDrop, Flat, Streams
<1> QED
  BY <1>3, <1>4, <1>5, <1>6, <1>7, <1>8 DEF ProcInv, ProcTypes

(* The steps that neither install nor scan keep what the invariant names.  *)
LEMMA QuietProc ==
  ASSUME ProcInv, ProcTypes',
         UNCHANGED <<bandwidth, log, cursor, installs>>,
         \/ pc' = "dead"
         \/ UNCHANGED <<pc, target, resume, flags>>
         \/ pc = "load" /\ pc' = "set_cmd" /\ UNCHANGED <<target, resume, flags>>
  PROVE  ProcInv'
<1>1. Noted'
  BY DEF ProcInv, Noted, Installing
<1>2. InstalledOnce'
  BY DEF ProcInv, InstalledOnce
<1>3. Stage' = "dead" \/ Stage' = Stage
  BY DEF Stage, Installing
<1>4. Scanned'
  BY <1>3 DEF ProcInv, Scanned, AtDrop, Flat, Fresh
<1> QED
  BY <1>1, <1>2, <1>4 DEF ProcInv

(* What loading a controller may do.                                       *)
LEMMA InitOutcome ==
  ASSUME LoaderTypeOK, NEW x \in Bpf, NEW o \in bpf_init(x)
  PROVE  /\ o.skel \in Skels
         /\ registered \subseteq o.registered /\ o.registered \subseteq Bpf
         /\ o.skel = "freed" => x \in registered
BY DEF LoaderTypeOK, bpf_init, Skels

LEMMA OthersKeep ==
  ASSUME LoaderTypeOK, OtherPrograms
  PROVE  LoaderTypeOK' /\ registered \subseteq registered'
<1>1. CASE AppLoad
  <2>1. PICK t \in Bpf : \E o \in bpf_init(bpfcc_select(t)) :
          app' = o.skel /\ registered' = o.registered
    BY <1>1 DEF AppLoad
  <2>2. bpfcc_select(t) \in Bpf
    BY DEF bpfcc_select, Bpf
  <2> QED
    BY <2>1, <2>2, InitOutcome DEF LoaderTypeOK
<1>2. CASE AppUnload
  BY <1>2 DEF AppUnload, StopLeaves, bpf_stop, LoaderTypeOK, Skels
<1>3. CASE CommandLoad
  <2>1. PICK x \in Foreign : \E o \in bpf_init(x) : registered' = o.registered
    BY <1>3 DEF CommandLoad
  <2>2. x \in Bpf /\ app' = app
    BY <1>3, LoaderAssumption DEF CommandLoad
  <2> QED
    BY <2>1, <2>2, InitOutcome DEF LoaderTypeOK
<1>4. CASE CommandUnload
  BY <1>4 DEF CommandUnload, StopLeaves, LoaderTypeOK
<1> QED
  BY <1>1, <1>2, <1>3, <1>4 DEF OtherPrograms

LEMMA LoadProc ==
  ASSUME ProcInv, LoadBpf
  PROVE  ProcInv' /\ registered \subseteq registered'
<1>1. /\ pc = "load" /\ pc' \in {"set_cmd", "dead"} /\ crash' \in {crash, "exit"}
      /\ UNCHANGED <<app, opt, bandwidth, target, resume, flags, cmd_cc,
                     data_cc, log, cursor, installs>>
  BY DEF LoadBpf
<1>2. EndpointTypeOK /\ LoaderTypeOK
  BY DEF ProcInv, ProcTypes, EndpointTypeOK
<1>3. /\ skel' \in [Bpf -> Skels] /\ registered' \subseteq Bpf
      /\ registered \subseteq registered'
  <2>1. CASE UNCHANGED <<skel, registered>>
    BY <1>2, <2>1 DEF EndpointTypeOK, LoaderTypeOK
  <2>2. CASE \E o \in bpf_init(target) :
               /\ skel' = [skel EXCEPT ![target] = o.skel]
               /\ registered' = o.registered
    <3>1. target \in Bpf
      BY <1>1 DEF ProcInv, Noted
    <3> QED
      BY <1>2, <2>2, <3>1, InitOutcome DEF EndpointTypeOK
  <2> QED
    BY <2>1, <2>2 DEF LoadBpf
<1>4. ProcTypes'
  BY <1>1, <1>2, <1>3 DEF ProcInv, ProcTypes, EndpointTypeOK, LoaderTypeOK,
     Stage, Installing
<1> QED
  BY <1>1, <1>3, <1>4, QuietProc

LEMMA AppendOne ==
  ASSUME NEW S, NEW q \in Seq(S), NEW x \in S
  PROVE  /\ Append(q, x) \in Seq(S) /\ Len(Append(q, x)) = Len(q) + 1
         /\ Len(q) \in Nat
         /\ \A i \in 1..Len(q) : Append(q, x)[i] = q[i]
         /\ Append(q, x)[Len(q) + 1] = x
         /\ ToSet(Append(q, x)) = ToSet(q) \cup {x}
<1>1. /\ Append(q, x) \in Seq(S) /\ Len(Append(q, x)) = Len(q) + 1
      /\ Len(q) \in Nat
      /\ \A i \in 1..Len(q) : Append(q, x)[i] = q[i]
      /\ Append(q, x)[Len(q) + 1] = x
  OBVIOUS
<1>2. ToSet(Append(q, x)) = ToSet(q) \cup {x}
  BY HeldAppend
<1> QED
  BY <1>1, <1>2

(* The connection keeps its controller, or takes the one being installed.  *)
LEMMA CcTypes ==
  ASSUME NEW cc \in Names, NEW x \in Names
  PROVE  settcpcc(cc, x) \in Names
BY DEF settcpcc

LEMMA SetCmdProc ==
  ASSUME ProcInv, SetCmd
  PROVE  ProcInv'
<1>1. /\ pc = "set_cmd" /\ EndpointTypeOK
      /\ UNCHANGED <<loaderVars, opt, bandwidth, target, resume, skel, flags,
                     data_cc, log, cursor>>
  BY DEF ProcInv, ProcTypes, SetCmd
<1>2. LoaderTypeOK'
  BY <1>1 DEF EndpointTypeOK, LoaderTypeOK, loaderVars
<1>3. CASE target = "none"
  <2>1. pc' = "dead" /\ crash' = "null name" /\ UNCHANGED <<cmd_cc, installs>>
    BY <1>3 DEF SetCmd
  <2>2. ProcTypes'
    BY <1>1, <1>2, <2>1 DEF ProcInv, ProcTypes, EndpointTypeOK, Stage, Installing
  <2> QED
    BY <1>1, <2>1, <2>2, QuietProc
<1>4. CASE target # "none"
  <2>1. /\ cmd_cc' = settcpcc(cmd_cc, target) /\ pc' = "set_data"
        /\ installs' = Append(installs, target) /\ crash' = crash
    BY <1>4 DEF SetCmd
  <2>2. installs \in Seq(Names) /\ target \in Names /\ cmd_cc \in Names
    BY <1>1 DEF EndpointTypeOK
  <2>3. /\ installs' \in Seq(Names) /\ Len(installs') = Len(installs) + 1
        /\ Len(installs) \in Nat
        /\ \A i \in 1..Len(installs) : installs'[i] = installs[i]
        /\ installs'[Len(installs) + 1] = target
        /\ ToSet(installs') = ToSet(installs) \cup {target}
    BY <2>1, <2>2, AppendOne
  <2>4. cmd_cc' \in Names
    BY <2>1, <2>2, CcTypes
  <2>5. ProcTypes'
    BY <1>1, <1>2, <2>1, <2>3, <2>4
    DEF ProcInv, ProcTypes, EndpointTypeOK, Stage, Installing
  <2>6. /\ ToSet(installs) \subseteq flags \cup {"cubic"}
        /\ target \notin flags /\ (installs = <<>> \/ target \in Bpf)
        /\ "inherited" \notin ToSet(installs) /\ target # "inherited"
    BY <1>1 DEF ProcInv, Noted, Installing
  <2>7. Noted'
    <3>1. installs' # <<>>
      BY <2>3
    <3> QED
      BY <1>1, <1>4, <2>1, <2>3, <2>6, <3>1 DEF Noted, Installing
  <2>8. InstalledOnce'
    <3>1. \A i \in 1..Len(installs) : installs[i] # target
      <4>1. CASE installs = <<>>
        BY <4>1
      <4>2. CASE target \in Bpf
        <5>1. target \notin ToSet(installs)
          BY <2>6, <4>2 DEF Bpf
        <5> QED
          BY <5>1 DEF ToSet
      <4> QED
        BY <2>6, <4>1, <4>2
    <3>2. \A i \in 1..Len(installs') : i \in 1..Len(installs) \/ i = Len(installs) + 1
      BY <2>3
    <3>3. InstalledOnce
      BY DEF ProcInv
    <3> QED
      BY <2>3, <3>1, <3>2, <3>3 DEF InstalledOnce
  <2>9. Scanned'
    BY <1>1, <2>1 DEF ProcInv, Scanned, AtDrop, Flat, Fresh, Stage, Installing
  <2> QED
    BY <2>5, <2>7, <2>8, <2>9 DEF ProcInv
<1> QED
  BY <1>3, <1>4

LEMMA SetDataProc ==
  ASSUME ProcInv, SetData
  PROVE  ProcInv'
<1>1. /\ pc = "set_data" /\ EndpointTypeOK /\ pc' = resume
      /\ flags' = flags \cup ({target} \cap Bpf)
      /\ data_cc' = settcpcc(data_cc, target)
      /\ UNCHANGED <<loaderVars, opt, bandwidth, target, resume, skel, cmd_cc,
                     log, cursor, installs, crash>>
  BY DEF ProcInv, ProcTypes, SetData, noted_flags
<1>2. resume \in {"serve", "scan_send"} /\ target \in Names /\ data_cc' \in Names
  BY <1>1, CcTypes DEF EndpointTypeOK
<1>3. LoaderTypeOK'
  BY <1>1 DEF EndpointTypeOK, LoaderTypeOK, loaderVars
<1>4. Stage' = Stage
  BY <1>1, <1>2 DEF Stage, Installing
<1>5. ProcTypes'
  BY <1>1, <1>2, <1>3, <1>4 DEF ProcInv, ProcTypes, EndpointTypeOK
<1>6. Noted'
  <2>1. /\ ToSet(installs) \subseteq flags \cup {"cubic", target}
        /\ target # "none" /\ target # "inherited" /\ "inherited" \notin ToSet(installs)
    BY <1>1 DEF ProcInv, Noted, Installing
  <2>2. target \in Bpf \/ target = "cubic"
    BY <1>2, <2>1 DEF Names
  <2>3. ToSet(installs) \subseteq flags' \cup {"cubic"}
    BY <1>1, <2>1, <2>2
  <2> QED
    BY <1>1, <1>2, <2>1, <2>3 DEF Noted, Installing
<1>7. InstalledOnce'
  BY <1>1 DEF ProcInv, InstalledOnce
<1>8. Scanned'
  BY <1>1, <1>4 DEF ProcInv, Scanned, AtDrop, Flat, Fresh
<1> QED
  BY <1>5, <1>6, <1>7, <1>8 DEF ProcInv

LEMMA LogDataProc ==
  ASSUME ProcInv, NEW s \in Streams, NEW bw \in Rates, LogData(s, bw)
  PROVE  ProcInv'
<1>1. /\ pc = "serve" /\ EndpointTypeOK
      /\ log' = [log EXCEPT ![s] = Append(log[s], bw)]
      /\ bandwidth => pc' = "scan_recv"
      /\ ~bandwidth => pc' = "serve"
      /\ UNCHANGED <<loaderVars, opt, bandwidth, target, resume, skel, flags,
                     cmd_cc, data_cc, cursor, installs, crash>>
  BY DEF ProcInv, ProcTypes, LogData
<1>2. LoaderTypeOK'
  BY <1>1 DEF EndpointTypeOK, LoaderTypeOK, loaderVars
<1>3. pc' \in {"serve", "scan_recv"} /\ bandwidth \in BOOLEAN
  BY <1>1 DEF EndpointTypeOK
<1>4. log \in [Streams -> Seq(Rates)] /\ log[s] \in Seq(Rates)
  BY <1>1 DEF EndpointTypeOK
<1>5. /\ log'[s] \in Seq(Rates) /\ Len(log'[s]) = Len(log[s]) + 1
      /\ Len(log[s]) \in Nat
      /\ \A i \in 1..Len(log[s]) : log'[s][i] = log[s][i]
  BY <1>1, <1>4, AppendOne
<1>6. log' \in [Streams -> Seq(Rates)] /\ \A t \in Streams : t # s => log'[t] = log[t]
  BY <1>1, <1>4, <1>5
<1>7. \A t \in Streams : cursor[t] \in 0..Len(log[t]) /\ Len(log[t]) \in Nat
  <2>1. \A t \in Streams : log[t] \in Seq(Rates)
    BY <1>4
  <2>2. \A t \in Streams : Len(log[t]) \in Nat
    BY <2>1
  <2> QED
    BY <1>1, <2>2 DEF EndpointTypeOK
<1>8. \A t \in Streams : cursor'[t] \in 0..Len(log'[t])
  BY <1>1, <1>5, <1>6, <1>7
<1>9. Stage = "serve" /\ Stage' = pc'
  BY <1>1, <1>3 DEF Stage, Installing
<1>10. ProcTypes'
  BY <1>1, <1>2, <1>3, <1>6, <1>8, <1>9 DEF ProcInv, ProcTypes, EndpointTypeOK
<1>11. Noted'
  BY <1>1, <1>3 DEF ProcInv, Noted, Installing
<1>12. InstalledOnce'
  BY <1>1 DEF ProcInv, InstalledOnce
<1>13. Scanned'
  <2>1. SUFFICES ASSUME bandwidth
                 PROVE  \A t \in Streams : AtDrop(t)' /\ Fresh(t)'
    BY <1>1, <1>9 DEF Scanned, Streams
  <2> TAKE t \in Streams
  <2>2. AtDrop(t) /\ Flat(t)
    BY <1>9, <2>1 DEF ProcInv, Scanned, Streams
  <2>3. CASE t # s
    <3>1. log'[t] = log[t] /\ cursor'[t] = cursor[t]
      BY <1>1, <1>6, <2>3
    <3> QED
      BY <1>7, <2>2, <3>1 DEF AtDrop, Flat, Fresh
  <2>4. CASE t = s
    <3>1. \A i \in 1..Len(log[t]) : log'[t][i] = log[t][i]
      BY <1>5, <2>4
    <3>2. Len(log'[t]) - 2 = Len(log[t]) - 1 /\ cursor'[t] = cursor[t]
      BY <1>1, <1>5, <2>4
    <3>3. AtDrop(t)'
      BY <1>7, <2>2, <3>1, <3>2 DEF AtDrop
    <3>4. Fresh(t)'
      <4>1. SUFFICES ASSUME NEW i \in (cursor[t] + 1)..(Len(log[t]) - 1)
                     PROVE  log'[t][i] <= log'[t][i + 1]
        BY <3>2 DEF Fresh
      <4>2. i \in 1..Len(log[t]) /\ i + 1 \in 1..Len(log[t])
        BY <1>7
      <4>3. log[t][i] <= log[t][i + 1]
        BY <2>2 DEF Flat
      <4> QED
        BY <3>1, <4>2, <4>3
    <3> QED
      BY <3>3, <3>4
  <2> QED
    BY <2>3, <2>4
<1> QED
  BY <1>10, <1>11, <1>12, <1>13 DEF ProcInv

(* A scan leaves the invariant: it only moves the cursor it scans from, and *)
(* may start to install a controller that has no flag yet.                 *)
LEMMA ScanProc ==
  ASSUME ProcInv, NEW s \in Streams, NEW next \in {"scan_send", "serve"},
         pc \in {"scan_recv", "scan_send"}, bandwidth,
         bandwidth_analyzer(s, next), Fresh(s)
  PROVE  /\ ProcTypes' /\ Noted' /\ InstalledOnce' /\ Stage' = next
         /\ AtDrop(s)' /\ Flat(s)'
         /\ \A t \in Streams : t # s => cursor'[t] = cursor[t]
         /\ log' = log /\ bandwidth' = bandwidth
<1>1. /\ EndpointTypeOK /\ AtDrop(s)
      /\ UNCHANGED <<loaderVars, opt, bandwidth, skel, flags, cmd_cc, data_cc,
                     log, installs, crash>>
  BY DEF ProcInv, ProcTypes, Scanned, bandwidth_analyzer
<1>2. /\ cursor' \in [Streams -> Nat]
      /\ cursor'[s] \in 0..Len(log[s])
      /\ \A t \in Streams : t # s => cursor'[t] = cursor[t]
      /\ AtDrop(s)' /\ Flat(s)'
      /\ Switched(next)
      /\ log' = log
  BY <1>1, Analyzed DEF ProcInv
<1>3. LoaderTypeOK'
  BY <1>1 DEF EndpointTypeOK, LoaderTypeOK, loaderVars
<1>4. \/ pc' = next /\ target' = target /\ resume' = resume
      \/ target' \in Bpf \ flags /\ pc' = "load" /\ resume' = next
  BY <1>2 DEF Switched
<1>5. Stage' = next
  BY <1>4 DEF Stage, Installing
<1>6. /\ pc' \in {"load", "serve", "scan_send"}
      /\ target' \in Names /\ resume' \in {"serve", "scan_send"}
  BY <1>1, <1>4 DEF EndpointTypeOK, Names
<1>7. ProcTypes'
  <2>1. \A t \in Streams : cursor'[t] \in 0..Len(log'[t])
    BY <1>1, <1>2 DEF EndpointTypeOK
  <2>2. EndpointTypeOK'
    BY <1>1, <1>3, <1>6, <2>1 DEF EndpointTypeOK
  <2> QED
    BY <1>1, <1>2, <2>2 DEF ProcTypes
<1>8. Noted'
  <2>1. /\ ToSet(installs) \subseteq flags \cup {"cubic"}
        /\ "inherited" \notin ToSet(installs)
    BY DEF ProcInv, Noted
  <2>2. target' \in Bpf => target' # "inherited"
    BY DEF Bpf
  <2> QED
    BY <1>1, <1>4, <1>6, <2>1, <2>2 DEF Noted, Installing
<1>9. InstalledOnce'
  BY <1>1 DEF ProcInv, InstalledOnce
<1> QED
  BY <1>1, <1>2, <1>5, <1>7, <1>8, <1>9

LEMMA ScanRecvProc ==
  ASSUME ProcInv, ScanRecv
  PROVE  ProcInv'
<1>1. /\ pc = "scan_recv" /\ Stage = "scan_recv"
      /\ bandwidth_analyzer("recv", "scan_send")
  BY DEF ScanRecv, Stage, Installing
<1>2. bandwidth
  BY <1>1 DEF ProcInv, ProcTypes, EndpointTypeOK
<1>3. /\ \A t \in Streams : AtDrop(t)
      /\ Fresh("recv") /\ Fresh("send")
  BY <1>1, <1>2 DEF ProcInv, Scanned
<1>4. /\ ProcTypes' /\ Noted' /\ InstalledOnce' /\ Stage' = "scan_send"
      /\ AtDrop("recv")' /\ Flat("recv")'
      /\ \A t \in Streams : t # "recv" => cursor'[t] = cursor[t]
      /\ log' = log /\ bandwidth' = bandwidth
  BY <1>1, <1>2, <1>3, ScanProc DEF Streams
<1>5. AtDrop("send")' /\ Fresh("send")'
  <2>1. cursor'["send"] = cursor["send"] /\ log' = log
    BY <1>4 DEF Streams
  <2> QED
    BY <1>3, <2>1 DEF AtDrop, Fresh, Streams
<1>6. Scanned'
  BY <1>4, <1>5 DEF Scanned, Streams
<1> QED
  BY <1>4, <1>6 DEF ProcInv

LEMMA ScanSendProc ==
  ASSUME ProcInv, ScanSend
  PROVE  ProcInv'
<1>1. /\ pc = "scan_send" /\ Stage = "scan_send"
      /\ bandwidth_analyzer("send", "serve")
  BY DEF ScanSend, Stage, Installing
<1>2. bandwidth
  BY <1>1 DEF ProcInv, ProcTypes, EndpointTypeOK
<1>3. /\ \A t \in Streams : AtDrop(t)
      /\ Flat("recv") /\ Fresh("send")
  BY <1>1, <1>2 DEF ProcInv, Scanned
<1>4. /\ ProcTypes' /\ Noted' /\ InstalledOnce' /\ Stage' = "serve"
      /\ AtDrop("send")' /\ Flat("send")'
      /\ \A t \in Streams : t # "send" => cursor'[t] = cursor[t]
      /\ log' = log /\ bandwidth' = bandwidth
  BY <1>1, <1>2, <1>3, ScanProc DEF Streams
<1>5. AtDrop("recv")' /\ Flat("recv")'
  <2>1. cursor'["recv"] = cursor["recv"] /\ log' = log
    BY <1>4 DEF Streams
  <2> QED
    BY <1>3, <2>1 DEF AtDrop, Flat, Streams
<1>6. Scanned'
  BY <1>4, <1>5 DEF Scanned, Streams
<1> QED
  BY <1>4, <1>6 DEF ProcInv

LEMMA ReleaseProc ==
  ASSUME ProcInv, Release
  PROVE  ProcInv' /\ registered' = registered
<1>1. /\ EndpointTypeOK /\ pc' = "dead" /\ Stage' = "dead"
      /\ UNCHANGED <<app, opt, bandwidth, target, resume, flags, cmd_cc,
                     data_cc, log, cursor, installs>>
  BY DEF ProcInv, ProcTypes, Release, Stage, Installing
<1>2. /\ skel' \in [Bpf -> Skels] /\ registered' = registered
      /\ crash' \in {crash, "none", "double free"}
  <2>1. CASE opt \in Bpf
    <3>1. skel[opt] \in Skels /\ skel \in [Bpf -> Skels]
      BY <1>1, <2>1 DEF EndpointTypeOK
    <3>2. bpf_stop(skel[opt]) \in Skels
      BY DEF bpf_stop, Skels
    <3> QED
      BY <2>1, <3>1, <3>2 DEF Release, StopLeaves
  <2>2. CASE opt \notin Bpf
    BY <1>1, <2>2 DEF Release, EndpointTypeOK
  <2> QED
    BY <2>1, <2>2
<1>3. ProcTypes'
  BY <1>1, <1>2 DEF ProcInv, ProcTypes, EndpointTypeOK, LoaderTypeOK
<1> QED
  BY <1>1, <1>2, <1>3, QuietProc

LEMMA OthersProc ==
  ASSUME ProcInv, LoaderTypeOK', UNCHANGED procVars
  PROVE  ProcInv'
<1>1. ProcTypes'
  BY DEF ProcInv, ProcTypes, EndpointTypeOK, procVars, Stage, Installing
<1> QED
  BY <1>1, QuietProc DEF procVars

LEMMA ProcNextInv == ProcInv /\ [EndpointNext]_endpointVars => ProcInv'
<1> SUFFICES ASSUME ProcInv, [EndpointNext]_endpointVars PROVE ProcInv'
  OBVIOUS
<1>1. LoaderTypeOK
  BY DEF ProcInv, ProcTypes, EndpointTypeOK
<1>2. CASE LoadBpf
  BY <1>2, LoadProc
<1>3. CASE SetCmd
  BY <1>3, SetCmdProc
<1>4. CASE SetData
  BY <1>4, SetDataProc
<1>5. CASE \E s \in Streams, bw \in Rates : LogData(s, bw)
  BY <1>5, LogDataProc
<1>6. CASE ScanRecv
  BY <1>6, ScanRecvProc
<1>7. CASE ScanSend
  BY <1>7, ScanSendProc
<1>8. CASE Release
  BY <1>8, ReleaseProc
<1>9. CASE OtherPrograms /\ UNCHANGED procVars
  BY <1>1, <1>9, OthersKeep, OthersProc
<1>10. CASE UNCHANGED endpointVars
  <2>1. LoaderTypeOK' /\ UNCHANGED procVars
    BY <1>1, <1>10 DEF endpointVars, loaderVars, LoaderTypeOK
  <2> QED
    BY <2>1, OthersProc
<1> QED
  BY <1>2, <1>3, <1>4, <1>5, <1>6, <1>7, <1>8, <1>9, <1>10 DEF EndpointNext

(* No process installs a controller twice, however its switches and the    *)
(* other programs of the host interleave (message.c:46-74, server.c:58-104). *)
THEOREM NeverInstallsTwice == EndpointSpec => []InstalledOnce
<1>1. ProcInv => InstalledOnce
  BY DEF ProcInv
<1> QED
  BY <1>1, ProcInitInv, ProcNextInv, PTL DEF EndpointSpec

(* Between two messages every drop of a rate has been acted on, and the    *)
(* cursor is the last one, whatever the rates are (message.c:76-115).      *)
THEOREM EveryDropActedOn == EndpointSpec => []CursorAtLastDrop
<1>1. ProcInv => CursorAtLastDrop
  <2> SUFFICES ASSUME ProcInv, pc = "serve", bandwidth, NEW s \in Streams
               PROVE  /\ Flat(s)
                      /\ cursor[s] # 0 => log[s][cursor[s]] < log[s][cursor[s] - 1]
    BY DEF CursorAtLastDrop, Flat
  <2>1. Stage = "serve"
    BY DEF Stage, Installing
  <2>2. \A t \in Streams : AtDrop(t) /\ Flat(t)
    BY <2>1 DEF ProcInv, Scanned, Streams
  <2> QED
    BY <2>2 DEF AtDrop
<1> QED
  BY <1>1, ProcInitInv, ProcNextInv, PTL DEF EndpointSpec

----------------------------------------------------------------------------
(* Endpoint: what its connections and its skeletons hold.  Names are only  *)
(* ever added to the kernel's, so what the first setsockopt found, the     *)
(* second finds.                                                           *)

Place(q, cc) == IF cc = "inherited" THEN 0
                ELSE CHOOSE i \in 1..Len(q) : q[i] = cc

Distinct(q) == \A i, j \in 1..Len(q) : q[i] = q[j] => i = j

InOrder == Place(installs, data_cc) >= Place(installs, cmd_cc)

Controllers ==
  /\ cmd_cc \in ToSet(installs) \cup {"inherited"}
  /\ data_cc \in ToSet(installs) \cup {"inherited"}
  /\ pc \notin {"set_data", "dead"} => InOrder
  /\ pc = "set_data" => \/ cmd_cc = target /\ target \in registered \cup {"cubic"}
                        \/ InOrder

FreedOnlyIfTaken ==
  /\ pc # "dead" => \A x \in Bpf : skel[x] = "freed" => x \in registered
  /\ crash = "double free" => opt \in registered

HostInv == ProcInv /\ Controllers /\ FreedOnlyIfTaken

LEMMA PlaceIs ==
  ASSUME NEW q, Distinct(q), NEW i \in 1..Len(q), q[i] # "inherited"
  PROVE  Place(q, q[i]) = i
<1>1. \A j \in 1..Len(q) : q[j] = q[i] <=> j = i
  BY DEF Distinct
<1> QED
  BY <1>1 DEF Place

LEMMA PlaceRange ==
  ASSUME NEW q \in Seq(Names), Distinct(q), "inherited" \notin ToSet(q),
         NEW cc \in ToSet(q) \cup {"inherited"}
  PROVE  Place(q, cc) \in 0..Len(q)
<1>1. Len(q) \in Nat
  OBVIOUS
<1>2. CASE cc = "inherited"
  BY <1>1, <1>2 DEF Place
<1>3. CASE cc # "inherited"
  <2>1. PICK i \in 1..Len(q) : q[i] = cc
    BY <1>3 DEF ToSet
  <2>2. Place(q, cc) = i
    BY <1>3, <2>1, PlaceIs
  <2> QED
    BY <1>1, <2>2
<1> QED
  BY <1>2, <1>3

LEMMA PlaceInPrefix ==
  ASSUME NEW q, NEW r, Distinct(r), Len(q) \in Nat, Len(r) = Len(q) + 1,
         \A i \in 1..Len(q) : r[i] = q[i],
         NEW cc \in ToSet(q) \cup {"inherited"}
  PROVE  Place(r, cc) = Place(q, cc)
<1>1. Distinct(q)
  BY DEF Distinct
<1>2. CASE cc = "inherited"
  BY <1>2 DEF Place
<1>3. CASE cc # "inherited"
  <2>1. PICK i \in 1..Len(q) : q[i] = cc
    BY <1>3 DEF ToSet
  <2>2. i \in 1..Len(r) /\ r[i] = cc
    BY <2>1
  <2>3. Place(q, q[i]) = i
    BY <1>1, <1>3, <2>1, PlaceIs
  <2>4. Place(r, r[i]) = i
    BY <1>3, <2>2, PlaceIs
  <2> QED
    BY <2>1, <2>2, <2>3, <2>4
<1> QED
  BY <1>2, <1>3

LEMMA PlaceKept ==
  ASSUME NEW q \in Seq(Names), NEW x \in Names, Distinct(Append(q, x)),
         NEW cc \in ToSet(q) \cup {"inherited"}
  PROVE  Place(Append(q, x), cc) = Place(q, cc)
<1> DEFINE Longer(r) == /\ Distinct(r) /\ Len(r) = Len(q) + 1
                        /\ \A i \in 1..Len(q) : r[i] = q[i]
<1>1. \A r : Longer(r) => Place(r, cc) = Place(q, cc)
  <2>1. Len(q) \in Nat
    OBVIOUS
  <2> QED
    BY <2>1, PlaceInPrefix
<1>2. Longer(Append(q, x))
  BY AppendOne
<1> HIDE DEF Longer
<1> QED
  BY <1>1, <1>2, Zenon

LEMMA HostInitInv == EndpointInit => HostInv
<1> SUFFICES ASSUME EndpointInit PROVE Controllers /\ FreedOnlyIfTaken
  BY ProcInitInv DEF HostInv
<1>1. cmd_cc = "inherited" /\ data_cc = "inherited" /\ installs = <<>>
      /\ pc \in {"load", "set_cmd"} /\ crash = "none"
      /\ skel = [x \in Bpf |-> "null"]
  BY DEF EndpointInit
<1>2. InOrder
  BY <1>1 DEF InOrder, Place
<1>3. Controllers
  BY <1>1, <1>2 DEF Controllers
<1> QED
  BY <1>1, <1>3 DEF FreedOnlyIfTaken

(* What holds of the connections survives every step that leaves them and  *)
(* the list of controllers alone, whoever adds a name to the kernel's.     *)
LEMMA ControllersKept ==
  ASSUME Controllers, registered \subseteq registered',
         UNCHANGED <<cmd_cc, data_cc, installs>>,
         \/ pc' = "dead"
         \/ pc = "set_data" /\ pc' = "set_data" /\ target' = target
         \/ pc \notin {"set_data", "dead"} /\ pc' # "set_data"
         \/ UNCHANGED <<pc, target>>
  PROVE  Controllers'
<1>1. InOrder' <=> InOrder
  BY DEF InOrder, Place
<1> QED
  BY <1>1 DEF Controllers

LEMMA FreedKept ==
  ASSUME FreedOnlyIfTaken, registered \subseteq registered',
         UNCHANGED <<skel, opt>>, crash' \in {crash, "none", "exit", "null name"},
         pc = "dead" => pc' = "dead"
  PROVE  FreedOnlyIfTaken'
BY DEF FreedOnlyIfTaken

LEMMA LoadHost ==
  ASSUME HostInv, LoadBpf
  PROVE  Controllers' /\ FreedOnlyIfTaken'
<1>1. /\ pc = "load" /\ pc' \in {"set_cmd", "dead"} /\ crash' \in {crash, "exit"}
      /\ UNCHANGED <<app, opt, target, cmd_cc, data_cc, installs>>
  BY DEF LoadBpf
<1>2. ProcInv /\ Controllers /\ FreedOnlyIfTaken
  BY DEF HostInv
<1>3. registered \subseteq registered'
  BY <1>2, LoadProc
<1>4. Controllers'
  BY <1>1, <1>2, <1>3, ControllersKept
<1>5. CASE UNCHANGED <<skel, registered>>
  <2>1. FreedOnlyIfTaken'
    BY <1>1, <1>2, <1>3, <1>5, FreedKept
  <2> QED
    BY <1>4, <2>1
<1>6. CASE \E o \in bpf_init(target) :
             /\ skel' = [skel EXCEPT ![target] = o.skel]
             /\ registered' = o.registered
  <2>1. PICK o \in bpf_init(target) : skel' = [skel EXCEPT ![target] = o.skel]
    BY <1>6
  <2>2. target \in Bpf /\ LoaderTypeOK /\ skel \in [Bpf -> Skels]
    BY <1>1, <1>2 DEF ProcInv, Noted, ProcTypes, EndpointTypeOK
  <2>3. o.skel = "freed" => target \in registered
    BY <2>2, InitOutcome
  <2>4. \A x \in Bpf : skel'[x] = "freed" => x \in registered
    BY <1>1, <1>2, <2>1, <2>2, <2>3 DEF FreedOnlyIfTaken
  <2>5. FreedOnlyIfTaken'
    BY <1>1, <1>2, <1>3, <2>4 DEF FreedOnlyIfTaken
  <2> QED
    BY <1>4, <2>5
<1> QED
  BY <1>5, <1>6 DEF LoadBpf

LEMMA SetCmdHost ==
  ASSUME HostInv, SetCmd
  PROVE  Controllers' /\ FreedOnlyIfTaken'
<1>1. /\ pc = "set_cmd" /\ pc' \in {"dead", "set_data"}
      /\ crash' \in {crash, "null name"} /\ registered' = registered
      /\ UNCHANGED <<opt, target, skel, data_cc>>
  BY DEF SetCmd, loaderVars
<1>2. ProcInv /\ Controllers /\ FreedOnlyIfTaken
  BY DEF HostInv
<1>3. FreedOnlyIfTaken'
  BY <1>1, <1>2, FreedKept
<1>4. CASE target = "none"
  <2>1. pc' = "dead" /\ UNCHANGED <<cmd_cc, installs>>
    BY <1>4 DEF SetCmd
  <2> QED
    BY <1>1, <1>2, <1>3, <2>1, ControllersKept
<1>5. CASE target # "none"
  <2>1. /\ cmd_cc' = settcpcc(cmd_cc, target) /\ pc' = "set_data"
        /\ installs' = Append(installs, target)
    BY <1>5 DEF SetCmd
  <2>2. installs \in Seq(Names) /\ target \in Names
    BY <1>2 DEF ProcInv, ProcTypes, EndpointTypeOK
  <2>3. ToSet(installs') = ToSet(installs) \cup {target}
    BY <2>1, <2>2, AppendOne
  <2>4. Distinct(Append(installs, target))
    <3>1. InstalledOnce'
      BY <1>2, SetCmdProc DEF ProcInv
    <3> QED
      BY <2>1, <3>1 DEF InstalledOnce, Distinct
  <2>5. /\ cmd_cc \in ToSet(installs) \cup {"inherited"}
        /\ data_cc \in ToSet(installs) \cup {"inherited"} /\ InOrder
    BY <1>1, <1>2 DEF Controllers
  <2>6. Place(installs', data_cc') = Place(installs, data_cc)
    BY <1>1, <2>1, <2>2, <2>4, <2>5, PlaceKept
  <2>7. CASE target \in registered \cup {"cubic"}
    <3>1. cmd_cc' = target
      BY <2>1, <2>7 DEF settcpcc
    <3> QED
      BY <1>1, <1>3, <2>1, <2>3, <2>5, <2>7, <3>1 DEF Controllers
  <2>8. CASE target \notin registered \cup {"cubic"}
    <3>1. cmd_cc' = cmd_cc
      BY <2>1, <2>8 DEF settcpcc
    <3>2. Place(installs', cmd_cc') = Place(installs, cmd_cc)
      BY <2>1, <2>2, <2>4, <2>5, <3>1, PlaceKept
    <3>3. InOrder'
      BY <2>5, <2>6, <3>2 DEF InOrder
    <3> QED
      BY <1>1, <1>3, <2>1, <2>3, <2>5, <3>1, <3>3 DEF Controllers
  <2> QED
    BY <2>7, <2>8
<1> QED
  BY <1>4, <1>5

LEMMA SetDataHost ==
  ASSUME HostInv, SetData
  PROVE  Controllers' /\ FreedOnlyIfTaken'
<1>1. /\ pc = "set_data" /\ pc' = resume
      /\ data_cc' = settcpcc(data_cc, target) /\ registered' = registered
      /\ UNCHANGED <<opt, skel, cmd_cc, installs, crash>>
  BY DEF SetData, loaderVars
<1>2. ProcInv /\ Controllers /\ FreedOnlyIfTaken
  BY DEF HostInv
<1>3. FreedOnlyIfTaken'
  BY <1>1, <1>2, FreedKept
<1>4. /\ pc' \in {"serve", "scan_send"} /\ installs \in Seq(Names)
      /\ "inherited" \notin ToSet(installs) /\ target # "inherited"
      /\ installs # <<>> /\ installs[Len(installs)] = target
      /\ Distinct(installs)
  <2>1. EndpointTypeOK
    BY <1>2 DEF ProcInv, ProcTypes
  <2>2. resume \in {"serve", "scan_send"} /\ installs \in Seq(Names)
    BY <2>1 DEF EndpointTypeOK
  <2>3. Distinct(installs)
    BY <1>2 DEF ProcInv, InstalledOnce, Distinct
  <2> QED
    BY <1>1, <1>2, <2>2, <2>3 DEF ProcInv, Noted, Installing
<1>5. Len(installs) \in 1..Len(installs) /\ target \in ToSet(installs)
  <2>1. Len(installs) \in 1..Len(installs)
    BY <1>4
  <2> QED
    BY <1>4, <2>1 DEF ToSet
<1>6. cmd_cc \in ToSet(installs) \cup {"inherited"}
      /\ data_cc \in ToSet(installs) \cup {"inherited"}
  BY <1>2 DEF Controllers
<1>7. CASE target \in registered \cup {"cubic"}
  <2>1. data_cc' = target
    BY <1>1, <1>7 DEF settcpcc
  <2>2. Place(installs, target) = Len(installs)
    BY <1>4, <1>5, PlaceIs
  <2>3. Place(installs, cmd_cc) \in 0..Len(installs)
    BY <1>4, <1>6, PlaceRange
  <2>4. InOrder'
    BY <1>1, <2>1, <2>2, <2>3 DEF InOrder
  <2> QED
    BY <1>1, <1>3, <1>4, <1>5, <1>6, <2>1, <2>4 DEF Controllers
<1>8. CASE target \notin registered \cup {"cubic"}
  <2>1. data_cc' = data_cc /\ InOrder
    BY <1>1, <1>2, <1>8 DEF settcpcc, Controllers
  <2>2. InOrder'
    BY <1>1, <2>1 DEF InOrder
  <2> QED
    BY <1>1, <1>3, <1>4, <1>6, <2>1, <2>2 DEF Controllers
<1> QED
  BY <1>7, <1>8

LEMMA ScanHost ==
  ASSUME HostInv, ScanRecv \/ ScanSend
  PROVE  Controllers' /\ FreedOnlyIfTaken'
<1>1. PICK s \in Streams, next \in {"scan_send", "serve"} :
        pc \in {"scan_recv", "scan_send"} /\ bandwidth_analyzer(s, next)
  BY DEF ScanRecv, ScanSend, Streams
<1>2. Controllers /\ FreedOnlyIfTaken /\ registered' = registered
      /\ UNCHANGED <<opt, skel, cmd_cc, data_cc, installs, crash>>
  BY <1>1 DEF HostInv, bandwidth_analyzer, loaderVars
<1>3. pc' \in {next, "load"}
  <2>1. switch_bpfcc(next) => pc' \in {next, "load"}
    BY SwitchFacts DEF Switched
  <2> QED
    BY <1>1, <2>1 DEF bandwidth_analyzer
<1> QED
  BY <1>1, <1>2, <1>3, ControllersKept, FreedKept

LEMMA ReleaseHost ==
  ASSUME HostInv, Release
  PROVE  Controllers' /\ FreedOnlyIfTaken'
<1>1. ProcInv /\ Controllers /\ FreedOnlyIfTaken
  BY DEF HostInv
<1>2. /\ pc # "dead" /\ pc' = "dead" /\ registered' = registered
      /\ UNCHANGED <<opt, cmd_cc, data_cc, installs>>
  BY <1>1, ReleaseProc DEF Release
<1>3. Controllers'
  BY <1>1, <1>2, ControllersKept
<1>4. crash' = "double free" => opt \in registered
  <2>1. CASE opt \in Bpf
    BY <1>1, <1>2, <2>1 DEF Release, FreedOnlyIfTaken
  <2>2. CASE opt \notin Bpf
    BY <1>1, <2>2 DEF Release, FreedOnlyIfTaken
  <2> QED
    BY <2>1, <2>2
<1> QED
  BY <1>2, <1>3, <1>4 DEF FreedOnlyIfTaken

LEMMA HostNextInv == HostInv /\ [EndpointNext]_endpointVars => HostInv'
<1> SUFFICES ASSUME HostInv, [EndpointNext]_endpointVars
             PROVE  Controllers' /\ FreedOnlyIfTaken'
  BY ProcNextInv DEF HostInv
<1>1. ProcInv /\ Controllers /\ FreedOnlyIfTaken /\ LoaderTypeOK
  BY DEF HostInv, ProcInv, ProcTypes, EndpointTypeOK
<1>2. CASE LoadBpf
  BY <1>2, LoadHost
<1>3. CASE SetCmd
  BY <1>3, SetCmdHost
<1>4. CASE SetData
  BY <1>4, SetDataHost
<1>5. CASE \E s \in Streams, bw \in Rates : LogData(s, bw)
  <2>1. /\ pc = "serve" /\ pc' \in {"serve", "scan_recv"} /\ registered' = registered
        /\ UNCHANGED <<opt, skel, cmd_cc, data_cc, installs, crash>>
    BY <1>5 DEF LogData, loaderVars
  <2> QED
    BY <1>1, <2>1, ControllersKept, FreedKept
<1>6. CASE ScanRecv \/ ScanSend
  BY <1>6, ScanHost
<1>7. CASE Release
  BY <1>7, ReleaseHost
<1>8. CASE OtherPrograms /\ UNCHANGED procVars
  <2>1. registered \subseteq registered'
    BY <1>1, <1>8, OthersKeep
  <2> QED
    BY <1>1, <1>8, <2>1, ControllersKept, FreedKept DEF procVars
<1>9. CASE UNCHANGED endpointVars
  <2>1. registered \subseteq registered' /\ UNCHANGED procVars
    BY <1>9 DEF endpointVars, loaderVars
  <2> QED
    BY <1>1, <2>1, ControllersKept, FreedKept DEF procVars
<1> QED
  BY <1>2, <1>3, <1>4, <1>5, <1>6, <1>7, <1>8, <1>9 DEF EndpointNext

(* The data connection never runs an older controller than the command     *)
(* connection, although the two setsockopt calls (message.c:60-61,         *)
(* server.c:211-212) are apart and other programs load and unload between. *)
THEOREM DataKeepsUp == EndpointSpec => []DataNotBehind
<1>1. HostInv => DataNotBehind
  BY DEF HostInv, Controllers, InOrder, Place, DataNotBehind, Since
<1> QED
  BY <1>1, HostInitInv, HostNextInv, PTL DEF EndpointSpec

(* A skeleton is destroyed twice only if its controller was taken when it  *)
(* was attached, at whatever point the process is interrupted              *)
(* (bpfvegas.c:67-71, 76-81).                                              *)
THEOREM DoubleFreeOfTaken == EndpointSpec => []DoubleFreeOnlyIfTaken
<1>1. HostInv => DoubleFreeOnlyIfTaken
  BY DEF HostInv, FreedOnlyIfTaken, DoubleFreeOnlyIfTaken
<1> QED
  BY <1>1, HostInitInv, HostNextInv, PTL DEF EndpointSpec

----------------------------------------------------------------------------
(* The two side by side.                                                   *)

LEMMA StepOfEach ==
  ASSUME [MCNext]_<<sessionVars, endpointVars, side>>
  PROVE  [SessionNext]_sessionVars /\ [EndpointNext]_endpointVars
BY DEF MCNext

(* Type correctness of the server's loop and of every process it starts,   *)
(* with any number of clients, any backlog and any options and rates: the  *)
(* queues of both ports stay within the backlog (server.c:190-200) and     *)
(* the cursors within their logs (message.c:76-115).                       *)
THEOREM TypeCorrect == MCSpec => []TypeOK
<1>1. MCInit => SessionInv /\ ProcInv
  BY SessionInitInv, ProcInitInv DEF MCInit
<1>2. SessionInv /\ ProcInv /\ [MCNext]_<<sessionVars, endpointVars, side>>
        => (SessionInv /\ ProcInv)'
  BY StepOfEach, SessionNextInv, ProcNextInv
<1>3. SessionInv /\ ProcInv => TypeOK
  BY DEF SessionInv, ProcInv, ProcTypes, TypeOK
<1> QED
  BY <1>1, <1>2, <1>3, PTL DEF MCSpec
=============================================================================
