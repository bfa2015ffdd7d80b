--------------------------- MODULE TransferProofs ---------------------------
(***************************************************************************)
(* Proofs about Transfer, for a file of any length, any size of buffers    *)
(* and any capacity of the data connection.                                *)
(***************************************************************************)
EXTENDS Transfer, SequenceTheorems, TLAPS

(* What has been written is a prefix of the source, whose blocks are their *)
(* own numbers.                                                            *)
IsPrefixOfSrc(f) == Len(f) <= SrcLen /\ \A i \in 1..Len(f) : f[i] = i

(* A request that may be handled at any time, with n blocks written, and   *)
(* once more when its client has gone: it writes what is there already, or *)
(* what comes next.                                                        *)
Aligned(r, n) ==
  /\ r.op = "READ" => ~r.all
  /\ r.op = "WRITE" =>
       /\ r.offset <= n /\ r.offset + Len(r.data) <= SrcLen
       /\ \A i \in 1..Len(r.data) : r.data[i] = r.offset + i

Whole(r) == r.op = "READ" /\ r.all

(* Replies to a request for the blocks from position p on: how far the     *)
(* copy may go, what a READ brings, what a WRITE leaves of n blocks, and   *)
(* when a result is 0.                                                     *)
Room(m, p) == m.result <= SrcLen - p

NextBlocks(m, p) ==
  m.result >= 0 => /\ Len(m.data) = m.result
                   /\ \A i \in 1..Len(m.data) : m.data[i] = p + i

Written(m, n, p) == m.result >= 0 => n = p + m.result

EndOfSrc(m, p) == m.result = 0 => p = SrcLen

(* A live server owes the reply, or has sent it.                           *)
Asked == c2s # <<>> /\ s2c = <<>>
Answered == c2s = <<>> /\ s2c # <<>>

Idle == cpc \in {"send_read", "send_write"} =>
  s2c = <<>> /\ (up => c2s = <<>> /\ position = Len(dst))

Reading == cpc = "wait_read" =>
  /\ m1 = Blank
  /\ s2c # <<>> => /\ Room(Head(s2c), position) /\ NextBlocks(Head(s2c), position)
                   /\ up => EndOfSrc(Head(s2c), position)
  /\ up => /\ position = Len(dst)
           /\ \/ Answered
              \/ Asked /\ Head(c2s).op = "READ" /\ Head(c2s).offset = position

Copying == cpc = "send_write" =>
  /\ Room(m1, position) /\ NextBlocks(m1, position)
  /\ up => EndOfSrc(m1, position)

Writing == cpc = "wait_write" =>
  /\ m1.result \in 0..(SrcLen - position)
  /\ s2c # <<>> => /\ Room(Head(s2c), position)
                   /\ up => /\ Written(Head(s2c), Len(dst), position)
                            /\ EndOfSrc(Head(s2c), position)
  /\ up => \/ Answered
           \/ /\ Asked /\ position = Len(dst)
              /\ Head(c2s).op = "WRITE" /\ Head(c2s).offset = position
              /\ Len(Head(c2s).data) = 0 => position = SrcLen

Ending ==
  /\ cpc # "ended" => position \in 0..SrcLen /\ outcome = "none"
  /\ outcome = "OK" /\ up => Len(dst) = SrcLen

SlowInv ==
  /\ cpc \in {"send_read", "wait_read", "send_write", "wait_write", "ended"}
  /\ stream = <<>> /\ ~pushing
  /\ Len(s2c) <= 1
  /\ IsPrefixOfSrc(dst)
  /\ last # NoRequest => Aligned(last, Len(dst))
  /\ c2s # <<>> => Aligned(Head(c2s), Len(dst))
  /\ Idle /\ Reading /\ Copying /\ Writing /\ Ending

FastInv ==
  /\ cpc \in {"send_read", "pull", "wait_status", "ended"}
  /\ cpc # "ended" => position = 0
  /\ cpc = "send_read" => c2s = <<>>
  /\ c2s # <<>> => Whole(Head(c2s))
  /\ last # NoRequest => Whole(last)

TransferInv ==
  /\ TypeOK
  /\ Len(c2s) <= 1
  /\ ~fast => SlowInv
  /\ fast => FastInv

----------------------------------------------------------------------------
(* Sequences.                                                              *)

LEMMA OneLeft ==
  ASSUME NEW S, NEW q \in Seq(S), q # <<>>
  PROVE  /\ Head(q) \in S /\ Tail(q) \in Seq(S) /\ Len(Tail(q)) = Len(q) - 1
         /\ Len(q) \in Nat
         /\ Len(q) <= 1 => Tail(q) = <<>>
OBVIOUS

LEMMA Sent ==
  ASSUME NEW S, NEW x \in S
  PROVE  /\ Append(<<>>, x) \in Seq(S) /\ Append(<<>>, x) # <<>>
         /\ Len(Append(<<>>, x)) = 1 /\ Head(Append(<<>>, x)) = x
OBVIOUS

LEMMA Front ==
  ASSUME NEW S, NEW q \in Seq(S), NEW n \in 0..Len(q)
  PROVE  /\ SubSeq(q, 1, n) \in Seq(S) /\ Len(SubSeq(q, 1, n)) = n
         /\ \A i \in 1..n : SubSeq(q, 1, n)[i] = q[i]
OBVIOUS

LEMMA Part ==
  ASSUME NEW S, NEW q \in Seq(S), NEW m \in 1..(Len(q) + 1), NEW n \in 0..Len(q)
  PROVE  SubSeq(q, m, n) \in Seq(S)
BY SubSeqProperties

LEMMA Block ==
  ASSUME NEW offset \in 0..SrcLen, NEW r \in 0..(SrcLen - offset)
  PROVE  LET b == SubSeq(Src, offset + 1, offset + r)
         IN  /\ b \in Seq(1..SrcLen) /\ Len(b) = r
             /\ \A i \in 1..r : b[i] = offset + i
<1>1. SrcLen \in Nat
  BY TransferAssumption
<1>2. /\ Src \in Seq(1..SrcLen) /\ Len(Src) = SrcLen
      /\ \A i \in 1..SrcLen : Src[i] = i
  BY <1>1 DEF Src
<1> HIDE DEF Src
<1> DEFINE b == SubSeq(Src, offset + 1, offset + r)
<1>3. b \in Seq(1..SrcLen) /\ Len(b) = r
  BY <1>1, <1>2
<1>4. \A i \in 1..r : b[i] = Src[offset + i]
  BY <1>1, <1>2
<1>5. \A i \in 1..r : offset + i \in 1..SrcLen
  BY <1>1
<1> QED
  BY <1>2, <1>3, <1>4, <1>5

LEMMA Extend ==
  ASSUME NEW f \in Seq(0..SrcLen), IsPrefixOfSrc(f),
         NEW offset \in 0..SrcLen, offset <= Len(f),
         NEW data \in Seq(1..SrcLen), offset + Len(data) <= SrcLen,
         \A i \in 1..Len(data) : data[i] = offset + i
  PROVE  LET g == Overwrite(f, offset, data)
         IN  /\ g \in Seq(0..SrcLen) /\ IsPrefixOfSrc(g)
             /\ Len(g) >= Len(f)
             /\ offset = Len(f) => Len(g) = Len(f) + Len(data)
<1> DEFINE n == MaxOf(Len(f), offset + Len(data))
           g == Overwrite(f, offset, data)
           v(i) == IF i \in (offset + 1)..(offset + Len(data)) THEN data[i - offset]
                   ELSE IF i <= Len(f) THEN f[i] ELSE 0
<1>1. SrcLen \in Nat /\ Len(f) \in Nat /\ Len(data) \in Nat
  BY TransferAssumption
<1>2. /\ n \in Nat /\ n <= SrcLen /\ n >= Len(f)
      /\ offset = Len(f) => n = Len(f) + Len(data)
      /\ \A i \in 1..n : i <= Len(f) \/ i \in (offset + 1)..(offset + Len(data))
  <2> DEFINE a == Len(f)
             e == Len(data)
  <2>1. /\ a \in Nat /\ e \in Nat /\ offset \in Nat /\ offset <= a
        /\ a <= SrcLen /\ offset + e <= SrcLen /\ n = MaxOf(a, offset + e)
    BY <1>1 DEF IsPrefixOfSrc
  <2> HIDE DEF a, e, n
  <2>2. /\ n \in Nat /\ n <= SrcLen /\ n >= a /\ n >= offset + e
        /\ offset = a => n = a + e
        /\ n = a \/ n = offset + e
    BY <2>1 DEF MaxOf
  <2>3. \A i \in 1..n : i <= a \/ i \in (offset + 1)..(offset + e)
    BY <2>1, <2>2
  <2> QED
    BY <2>2, <2>3 DEF a, e
<1>3. g = [i \in 1..n |-> v(i)]
  BY DEF Overwrite
<1>4. \A i \in 1..n : v(i) = i
  <2> TAKE i \in 1..n
  <2>1. CASE i \in (offset + 1)..(offset + Len(data))
    <3>1. i - offset \in 1..Len(data) /\ offset + (i - offset) = i
      BY <1>1, <2>1
    <3> QED
      BY <2>1, <3>1
  <2>2. CASE i \notin (offset + 1)..(offset + Len(data))
    <3>1. i \in 1..Len(f)
      BY <1>1, <1>2, <2>2
    <3> QED
      BY <2>2, <3>1 DEF IsPrefixOfSrc
  <2> QED
    BY <2>1, <2>2
<1> HIDE DEF n, v
<1>5. g = [i \in 1..n |-> i]
  BY <1>3, <1>4
<1> HIDE DEF g
<1>6. g \in Seq(0..SrcLen) /\ Len(g) = n /\ \A i \in 1..n : g[i] = i
  BY <1>1, <1>2, <1>5
<1>7. IsPrefixOfSrc(g)
  BY <1>2, <1>6 DEF IsPrefixOfSrc
<1> QED
  BY <1>2, <1>6, <1>7 DEF g

----------------------------------------------------------------------------
(* The beginning, and what a request does.                                 *)

LEMMA InitInv == Init => TransferInv
<1> SUFFICES ASSUME Init PROVE TransferInv
  OBVIOUS
<1>1. SrcLen \in Nat
  BY TransferAssumption
<1>2. /\ Len(<<>>) = 0 /\ <<>> \in Seq(Requests) /\ <<>> \in Seq(Replies)
      /\ <<>> \in Seq(1..SrcLen) /\ <<>> \in Seq(0..SrcLen)
  OBVIOUS
<1>3. m1 \in Replies
  BY <1>1, <1>2 DEF Init, Blank, Replies
<1>4. TypeOK
  <2>1. /\ position \in -3..SrcLen /\ rpos \in 0..SrcLen
        /\ last \in Requests \cup {NoRequest}
    BY <1>1 DEF Init
  <2>2. /\ c2s \in Seq(Requests) /\ s2c \in Seq(Replies)
        /\ stream \in Seq(1..SrcLen) /\ dst \in Seq(0..SrcLen)
    BY <1>2 DEF Init
  <2> QED
    BY <1>3, <2>1, <2>2 DEF Init, TypeOK
<1>5. SlowInv
  <2>1. IsPrefixOfSrc(dst)
    BY <1>1, <1>2 DEF Init, IsPrefixOfSrc
  <2>2. Ending
    BY <1>1 DEF Init, Ending
  <2> QED
    BY <1>2, <2>1, <2>2 DEF Init, SlowInv, Idle, Reading, Copying, Writing
<1> QED
  BY <1>2, <1>4, <1>5 DEF Init, TransferInv, FastInv

LEMMA RequestFacts ==
  ASSUME c2s \in Seq(Requests), Len(c2s) <= 1, up => c2s = <<>>,
         NEW r \in Requests, NEW next, Request(r, next)
  PROVE  /\ c2s' \in Seq(Requests) /\ Len(c2s') <= 1
         /\ up => /\ c2s' # <<>> /\ Head(c2s') = r
                  /\ cpc' = next /\ outcome' = outcome
         /\ ~up => c2s' = c2s
         /\ \/ cpc' = next /\ outcome' = outcome
            \/ ~up /\ cpc' = "ended" /\ outcome' = "killed"
<1>1. CASE up
  <2>1. c2s' = Append(<<>>, r) /\ cpc' = next /\ outcome' = outcome
    BY <1>1 DEF Request
  <2> QED
    BY <1>1, <2>1, Sent
<1>2. CASE ~up
  BY <1>2 DEF Request, End
<1> QED
  BY <1>1, <1>2

LEMMA SendReadInv ==
  ASSUME TransferInv, SendRead
  PROVE  TransferInv'
<1> DEFINE r == [op |-> "READ", offset |-> position, all |-> FALSE]
<1>1. /\ TypeOK /\ SlowInv /\ cpc = "send_read" /\ ~fast /\ m1' = Blank
      /\ Request(r, "wait_read")
      /\ UNCHANGED <<fast, position, s2c, stream, server, files>>
  BY DEF TransferInv, SendRead
<1>2. /\ s2c = <<>> /\ (up => c2s = <<>> /\ position = Len(dst))
      /\ position \in 0..SrcLen /\ outcome = "none"
  BY <1>1 DEF SlowInv, Idle, Ending
<1>3. r \in Requests /\ r.op = "READ" /\ r.offset = position /\ ~r.all
  BY <1>2 DEF Requests
<1> HIDE DEF r
<1>4. /\ c2s' \in Seq(Requests) /\ Len(c2s') <= 1
      /\ up => /\ c2s' # <<>> /\ Head(c2s') = r
               /\ cpc' = "wait_read" /\ outcome' = outcome
      /\ ~up => c2s' = c2s
      /\ \/ cpc' = "wait_read" /\ outcome' = outcome
         \/ ~up /\ cpc' = "ended" /\ outcome' = "killed"
  <2>1. c2s \in Seq(Requests) /\ Len(c2s) <= 1
    BY DEF TransferInv, TypeOK
  <2> QED
    BY <1>1, <1>2, <1>3, <2>1, RequestFacts
<1>5. m1' \in Replies
  <2>1. SrcLen \in Nat /\ <<>> \in Seq(1..SrcLen)
    BY TransferAssumption
  <2> QED
    BY <1>1, <2>1 DEF Blank, Replies
<1>6. TypeOK'
  BY <1>1, <1>2, <1>4, <1>5 DEF TypeOK, server, files
<1>7. Aligned(r, Len(dst))
  BY <1>3 DEF Aligned
<1>8. SlowInv'
  <2>1. c2s' # <<>> => Aligned(Head(c2s'), Len(dst'))
    BY <1>1, <1>4, <1>7 DEF SlowInv, files
  <2>2. Reading'
    BY <1>1, <1>2, <1>3, <1>4 DEF Reading, Asked, server, files
  <2>3. Idle' /\ Copying' /\ Writing' /\ Ending'
    BY <1>1, <1>2, <1>4 DEF Idle, Copying, Writing, Ending, server, files
  <2> QED
    BY <1>1, <1>4, <2>1, <2>2, <2>3 DEF SlowInv, server, files
<1> QED
  BY <1>1, <1>4, <1>6, <1>8 DEF TransferInv

(* A message is the head of what the live or dead server has sent.         *)
LEMMA AnswerFacts ==
  ASSUME s2c \in Seq(Replies), m1 \in Replies, Answer
  PROVE  /\ s2c' \in Seq(Replies) /\ m1' \in Replies
         /\ Len(s2c) <= 1 => s2c' = <<>>
         /\ s2c # <<>> => m1' = Head(s2c)
         /\ s2c = <<>> => ~up /\ m1' = m1
<1>1. CASE s2c # <<>>
  BY <1>1, OneLeft DEF Answer
<1>2. CASE s2c = <<>>
  BY <1>2 DEF Answer
<1> QED
  BY <1>1, <1>2

LEMMA ReceiveReadInv ==
  ASSUME TransferInv, ReceiveRead
  PROVE  TransferInv'
<1>1. /\ TypeOK /\ cpc = "wait_read" /\ cpc' = "send_write" /\ Answer
      /\ UNCHANGED <<fast, position, outcome, c2s, stream, server, files>>
  BY DEF TransferInv, ReceiveRead
<1>2. /\ ~fast /\ SlowInv
  BY <1>1 DEF TransferInv, FastInv, TypeOK
<1>3. /\ s2c' \in Seq(Replies) /\ m1' \in Replies
      /\ s2c' = <<>> /\ Len(s2c') = 0
      /\ s2c # <<>> => m1' = Head(s2c)
      /\ s2c = <<>> => ~up /\ m1' = m1
  BY <1>1, <1>2, AnswerFacts DEF TypeOK, SlowInv
<1>4. TypeOK'
  BY <1>1, <1>3 DEF TypeOK, server, files
<1>5. /\ m1 = Blank
      /\ s2c # <<>> => /\ Room(Head(s2c), position) /\ NextBlocks(Head(s2c), position)
                       /\ up => EndOfSrc(Head(s2c), position)
      /\ up => position = Len(dst) /\ (s2c # <<>> => c2s = <<>>)
      /\ position \in 0..SrcLen /\ outcome = "none"
  BY <1>1, <1>2 DEF SlowInv, Reading, Ending, Answered, Asked
<1>6. Room(Blank, position) /\ NextBlocks(Blank, position)
  <2>1. SrcLen \in Nat /\ Len(<<>>) = 0
    BY TransferAssumption
  <2>2. \A i \in 1..0 : FALSE
    OBVIOUS
  <2> QED
    BY <1>5, <2>1, <2>2 DEF Room, NextBlocks, Blank
<1>7. Copying'
  <2>1. Room(m1', position) /\ NextBlocks(m1', position)
    BY <1>3, <1>5, <1>6
  <2>2. up => EndOfSrc(m1', position)
    BY <1>3, <1>5
  <2> QED
    BY <1>1, <2>1, <2>2 DEF Copying, server
<1>8. Idle'
  BY <1>1, <1>3, <1>5 DEF Idle, server, files
<1>9. Reading' /\ Writing' /\ Ending'
  BY <1>1, <1>5 DEF Reading, Writing, Ending
<1>10. SlowInv'
  BY <1>1, <1>2, <1>3, <1>7, <1>8, <1>9 DEF SlowInv, server, files
<1> QED
  BY <1>1, <1>2, <1>4, <1>10 DEF TransferInv

LEMMA SendWriteInv ==
  ASSUME TransferInv, SendWrite
  PROVE  TransferInv'
<1>1. /\ TypeOK /\ cpc = "send_write"
      /\ UNCHANGED <<fast, m1, position, s2c, stream, server, files>>
  BY DEF TransferInv, SendWrite
<1>2. ~fast /\ SlowInv
  BY <1>1 DEF TransferInv, FastInv, TypeOK
<1>3. /\ s2c = <<>> /\ (up => c2s = <<>> /\ position = Len(dst))
      /\ position \in 0..SrcLen /\ outcome = "none"
      /\ Room(m1, position) /\ NextBlocks(m1, position)
      /\ up => EndOfSrc(m1, position)
  BY <1>1, <1>2 DEF SlowInv, Idle, Ending, Copying
<1>4. m1 \in Replies /\ c2s \in Seq(Requests) /\ Len(c2s) <= 1 /\ SrcLen \in Nat
  BY TransferAssumption DEF TransferInv, TypeOK
<1>5. CASE m1.result < 0
  <2>1. cpc' = "ended" /\ outcome' = "crashed" /\ c2s' = c2s
    BY <1>5 DEF SendWrite, End
  <2>2. TypeOK'
    BY <1>1, <2>1 DEF TypeOK, server, files
  <2>3. SlowInv'
    BY <1>1, <1>2, <2>1 DEF SlowInv, Idle, Reading, Copying, Writing, Ending,
       server, files
  <2> QED
    BY <1>1, <1>2, <1>4, <2>1, <2>2, <2>3 DEF TransferInv
<1>6. CASE ~(m1.result < 0)
  <2> DEFINE d == SubSeq(m1.data, 1, m1.result)
             r == [op |-> "WRITE", offset |-> position, data |-> d]
  <2>1. /\ m1.data \in Seq(1..SrcLen) /\ m1.result \in 0..SrcLen
        /\ Len(m1.data) = m1.result
        /\ \A j \in 1..m1.result : m1.data[j] = position + j
        /\ m1.result <= SrcLen - position
    <3>1. m1.data \in Seq(1..SrcLen) /\ m1.result \in 0..SrcLen
      BY <1>4, <1>6 DEF Replies
    <3> QED
      BY <1>3, <1>4, <3>1 DEF NextBlocks, Room
  <2>2. /\ d \in Seq(1..SrcLen) /\ Len(d) = m1.result
        /\ \A j \in 1..m1.result : d[j] = position + j
    <3>1. m1.result \in 0..Len(m1.data)
      BY <2>1
    <3>2. /\ d \in Seq(1..SrcLen) /\ Len(d) = m1.result
          /\ \A j \in 1..m1.result : d[j] = m1.data[j]
      BY <2>1, <3>1, Front
    <3> QED
      BY <2>1, <3>2
  <2>3. Request(r, "wait_write")
    BY <1>6 DEF SendWrite
  <2> HIDE DEF d
  <2>4. /\ r \in Requests /\ r.op = "WRITE" /\ r.offset = position
        /\ r.data = d
    BY <1>3, <2>2 DEF Requests
  <2> HIDE DEF r
  <2>5. /\ c2s' \in Seq(Requests) /\ Len(c2s') <= 1
        /\ up => /\ c2s' # <<>> /\ Head(c2s') = r
                 /\ cpc' = "wait_write" /\ outcome' = outcome
        /\ ~up => c2s' = c2s
        /\ \/ cpc' = "wait_write" /\ outcome' = outcome
           \/ ~up /\ cpc' = "ended" /\ outcome' = "killed"
    BY <1>3, <1>4, <2>3, <2>4, RequestFacts
  <2>6. TypeOK'
    BY <1>1, <1>3, <2>5 DEF TypeOK, server, files
  <2>7. up => Aligned(r, Len(dst))
    <3>1. position + Len(d) <= SrcLen
      BY <1>3, <1>4, <2>1, <2>2
    <3>2. position \in Nat
      BY <1>3
    <3> QED
      BY <1>3, <2>2, <2>4, <3>1, <3>2 DEF Aligned
  <2>8. c2s' # <<>> => Aligned(Head(c2s'), Len(dst'))
    BY <1>1, <1>2, <2>5, <2>7 DEF SlowInv, files
  <2>9. Writing'
    <3>1. m1'.result \in 0..(SrcLen - position')
      BY <1>1, <1>3, <1>4, <2>1
    <3>2. up => (Len(d) = 0 => position = SrcLen)
      BY <1>3, <2>2 DEF EndOfSrc
    <3> QED
      BY <1>1, <1>3, <2>4, <2>5, <3>1, <3>2 DEF Writing, Asked, server, files
  <2>10. Idle' /\ Reading' /\ Copying' /\ Ending'
    BY <1>1, <1>3, <2>5 DEF Idle, Reading, Copying, Ending, server, files
  <2>11. SlowInv'
    BY <1>1, <1>2, <2>5, <2>8, <2>9, <2>10 DEF SlowInv, server, files
  <2> QED
    BY <1>1, <1>2, <2>5, <2>6, <2>11 DEF TransferInv
<1> QED
  BY <1>5, <1>6

LEMMA ReceiveWriteInv ==
  ASSUME TransferInv, ReceiveWrite
  PROVE  TransferInv'
<1> DEFINE res == m1'.result
<1>1. /\ TypeOK /\ cpc = "wait_write" /\ Answer
      /\ UNCHANGED <<fast, c2s, stream, server, files>>
  BY DEF TransferInv, ReceiveWrite
<1>2. ~fast /\ SlowInv
  BY <1>1 DEF TransferInv, FastInv, TypeOK
<1>3. /\ s2c' \in Seq(Replies) /\ m1' \in Replies
      /\ s2c' = <<>> /\ Len(s2c') = 0
      /\ s2c # <<>> => m1' = Head(s2c)
      /\ s2c = <<>> => ~up /\ m1' = m1
  BY <1>1, <1>2, AnswerFacts DEF TypeOK, SlowInv
<1>4. /\ m1.result \in 0..(SrcLen - position)
      /\ s2c # <<>> => /\ Room(Head(s2c), position)
                       /\ up => /\ Written(Head(s2c), Len(dst), position)
                                /\ EndOfSrc(Head(s2c), position)
      /\ up => s2c = <<>> \/ c2s = <<>>
      /\ position \in 0..SrcLen /\ outcome = "none"
  BY <1>1, <1>2 DEF SlowInv, Writing, Ending, Answered, Asked
<1>5. SrcLen \in Nat /\ res \in -3..SrcLen
  BY <1>3, TransferAssumption DEF Replies
<1>6. /\ res <= SrcLen - position
      /\ up => c2s = <<>> /\ (res >= 0 => Len(dst) = position + res)
      /\ up /\ res = 0 => position = SrcLen
  <2>1. CASE s2c # <<>>
    <3>1. Room(m1', position)
      BY <1>3, <1>4, <2>1
    <3>2. up => Written(m1', Len(dst), position) /\ EndOfSrc(m1', position)
      BY <1>3, <1>4, <2>1
    <3> QED
      BY <1>4, <2>1, <3>1, <3>2 DEF Room, Written, EndOfSrc
  <2>2. CASE s2c = <<>>
    BY <1>3, <1>4, <2>2
  <2> QED
    BY <2>1, <2>2
<1>7. /\ position' = position + res
      /\ res > 0 => cpc' = "send_read" /\ outcome' = outcome
      /\ ~(res > 0) => /\ cpc' = "ended"
                       /\ outcome' = IF res >= 0 THEN "OK" ELSE "error"
  BY DEF ReceiveWrite, advance, End
<1> HIDE DEF res
<1>8. /\ position' \in -3..SrcLen
      /\ res > 0 => position' \in 0..SrcLen
  BY <1>4, <1>5, <1>6, <1>7
<1>9. /\ cpc' \in {"send_read", "ended"}
      /\ outcome' \in {"none", "OK", "error"}
      /\ cpc' = "send_read" => res > 0 /\ outcome' = "none"
      /\ outcome' = "OK" => res = 0
  BY <1>4, <1>5, <1>7
<1>10. TypeOK'
  BY <1>1, <1>3, <1>8, <1>9 DEF TypeOK, server, files
<1>11. Idle'
  BY <1>1, <1>3, <1>5, <1>6, <1>7, <1>9 DEF Idle, server, files
<1>12. Ending'
  <2>1. up /\ res = 0 => Len(dst) = SrcLen
    BY <1>4, <1>5, <1>6
  <2> QED
    BY <1>1, <1>8, <1>9, <2>1 DEF Ending, server, files
<1>13. Reading' /\ Copying' /\ Writing'
  BY <1>9 DEF Reading, Copying, Writing
<1>14. SlowInv'
  BY <1>1, <1>2, <1>3, <1>9, <1>11, <1>12, <1>13 DEF SlowInv, server, files
<1> QED
  BY <1>1, <1>2, <1>10, <1>14 DEF TransferInv

----------------------------------------------------------------------------
(* What the server child does with one request of a slow copy.             *)

LEMMA ReplyFacts ==
  ASSUME TypeOK, up, NEW result \in -3..SrcLen,
         NEW data \in Seq(1..SrcLen), Reply(result, data)
  PROVE  LET m == [result |-> result, data |-> data]
         IN  /\ m \in Replies /\ m.result = result /\ m.data = data
             /\ s2c' \in Seq(Replies) /\ up' \in BOOLEAN
             /\ cpc = "ended" => s2c' = s2c
             /\ cpc # "ended" => up' /\ s2c' = Append(s2c, m)
<1> DEFINE m == [result |-> result, data |-> data]
<1>1. m \in Replies /\ m.result = result /\ m.data = data
  BY DEF Replies
<1>2. /\ cpc # "ended" => up' = up /\ s2c' = Append(s2c, m)
      /\ s2c \in Seq(Replies) /\ up \in BOOLEAN
  BY DEF Reply, ClientGone, TypeOK
<1>3. cpc = "ended" => s2c' = s2c /\ up' \in BOOLEAN
  BY DEF Reply, ClientGone
<1> HIDE DEF m
<1>4. s2c' \in Seq(Replies)
  <2>1. s2c \in Seq(Replies) /\ m \in Replies
    BY <1>1, <1>2
  <2>2. Append(s2c, m) \in Seq(Replies)
    BY <2>1
  <2>3. s2c' = s2c \/ s2c' = Append(s2c, m)
    BY <1>2, <1>3
  <2> QED
    BY <2>1, <2>2, <2>3
<1>5. up' \in BOOLEAN
  <2>1. CASE cpc = "ended"
    BY <1>3, <2>1
  <2>2. CASE cpc # "ended"
    <3>1. up' = up /\ up \in BOOLEAN
      BY <1>2, <2>2
    <3> QED
      BY <3>1, Zenon
  <2> QED
    BY <2>1, <2>2
<1> QED
  BY <1>1, <1>2, <1>3, <1>4, <1>5 DEF m

Effect(req) ==
  /\ s2c' \in Seq(Replies) /\ up' \in BOOLEAN /\ rpos' \in 0..SrcLen
  /\ dst' \in Seq(0..SrcLen) /\ dst_file' \in {"absent", "ours", "foreign"}
  /\ pushing' = pushing /\ stream' = stream /\ src_ok' = src_ok
  /\ IsPrefixOfSrc(dst') /\ Len(dst') >= Len(dst)
  /\ cpc = "ended" => s2c' = s2c
  /\ cpc # "ended" =>
       up' /\ \E m \in Replies :
         /\ s2c' = Append(s2c, m)
         /\ req.op = "READ" =>
              /\ dst' = dst
              /\ Room(m, req.offset) /\ NextBlocks(m, req.offset)
              /\ EndOfSrc(m, req.offset)
         /\ req.op = "WRITE" /\ req.offset = Len(dst) =>
              /\ Room(m, req.offset) /\ Written(m, Len(dst'), Len(dst))
              /\ m.result = 0 => Len(req.data) = 0

LEMMA ErrorEffect ==
  ASSUME TypeOK, SlowInv, up, NEW req \in Requests \cup {NoRequest},
         NEW e \in {E_IO, E_BAD_OPCODE}, Reply(e, <<>>),
         UNCHANGED <<rpos, pushing, stream, src_ok, dst>>,
         dst_file' \in {"absent", "ours", "foreign"}
  PROVE  Effect(req)
<1> DEFINE m == [result |-> e, data |-> <<>>]
<1>1. SrcLen \in Nat /\ e \in -3..SrcLen /\ e < 0 /\ <<>> \in Seq(1..SrcLen)
  BY TransferAssumption DEF E_IO, E_BAD_OPCODE
<1>2. /\ m \in Replies /\ m.result = e
      /\ s2c' \in Seq(Replies) /\ up' \in BOOLEAN
      /\ cpc = "ended" => s2c' = s2c
      /\ cpc # "ended" => up' /\ s2c' = Append(s2c, m)
  BY <1>1, ReplyFacts
<1> HIDE DEF m
<1>3. /\ rpos \in 0..SrcLen /\ dst \in Seq(0..SrcLen) /\ IsPrefixOfSrc(dst)
      /\ Len(dst) \in Nat
  BY DEF TypeOK, SlowInv
<1>4. req.op \in {"READ", "WRITE"} => req.offset \in 0..SrcLen
  BY DEF Requests, NoRequest
<1>5. /\ NextBlocks(m, req.offset) /\ EndOfSrc(m, req.offset)
      /\ Written(m, Len(dst'), Len(dst)) /\ m.result # 0
  BY <1>1, <1>2 DEF NextBlocks, EndOfSrc, Written
<1>6. req.op \in {"READ", "WRITE"} => Room(m, req.offset)
  BY <1>1, <1>2, <1>4 DEF Room
<1> QED
  BY <1>2, <1>3, <1>5, <1>6 DEF Effect

LEMMA ReadEffect ==
  ASSUME TypeOK, SlowInv, up, NEW req \in Requests, req.op = "READ",
         DoRead(req)
  PROVE  Effect(req)
<1>1. /\ req.offset \in 0..SrcLen /\ SrcLen \in Nat /\ BUF_SIZE \in Nat
      /\ s2c \in Seq(Replies) /\ rpos \in 0..SrcLen
      /\ UNCHANGED <<pushing, stream, files>>
  BY TransferAssumption DEF Requests, TypeOK, DoRead
<1>2. /\ dst' = dst /\ src_ok' = src_ok /\ dst_file' = dst_file
      /\ dst \in Seq(0..SrcLen) /\ IsPrefixOfSrc(dst) /\ Len(dst) \in Nat
      /\ dst_file \in {"absent", "ours", "foreign"}
  BY <1>1 DEF files, TypeOK, SlowInv
<1>3. ASSUME NEW r \in 0..(SrcLen - req.offset), NEW b \in Seq(1..SrcLen),
             Len(b) = r, \A j \in 1..r : b[j] = req.offset + j,
             r = 0 => req.offset = SrcLen,
             rpos' = req.offset + r, Reply(r, b)
      PROVE  Effect(req)
  <2> DEFINE m == [result |-> r, data |-> b]
  <2>1. r \in -3..SrcLen /\ r \in Nat /\ rpos' \in 0..SrcLen
    BY <1>1, <1>3
  <2>2. /\ m \in Replies /\ m.result = r /\ m.data = b
        /\ s2c' \in Seq(Replies) /\ up' \in BOOLEAN
        /\ cpc = "ended" => s2c' = s2c
        /\ cpc # "ended" => up' /\ s2c' = Append(s2c, m)
    BY <1>1, <1>3, <2>1, ReplyFacts
  <2> HIDE DEF m
  <2>3. /\ Room(m, req.offset) /\ NextBlocks(m, req.offset)
        /\ EndOfSrc(m, req.offset)
    BY <1>1, <1>3, <2>1, <2>2 DEF Room, NextBlocks, EndOfSrc
  <2> QED
    BY <1>1, <1>2, <2>1, <2>2, <2>3 DEF Effect
<1>4. CASE /\ src_ok /\ req.offset < SrcLen
           /\ \E r \in 1..MinOf(BUF_SIZE, SrcLen - req.offset) :
                /\ rpos' = req.offset + r
                /\ Reply(r, SubSeq(Src, req.offset + 1, req.offset + r))
  <2>1. PICK r \in 1..MinOf(BUF_SIZE, SrcLen - req.offset) :
          /\ rpos' = req.offset + r
          /\ Reply(r, SubSeq(Src, req.offset + 1, req.offset + r))
    BY <1>4
  <2> DEFINE b == SubSeq(Src, req.offset + 1, req.offset + r)
  <2>2. r \in 0..(SrcLen - req.offset) /\ r # 0
    BY <1>1 DEF MinOf
  <2>3. b \in Seq(1..SrcLen) /\ Len(b) = r /\ \A j \in 1..r : b[j] = req.offset + j
    BY <1>1, <2>2, Block
  <2>4. Reply(r, b) /\ rpos' = req.offset + r
    BY <2>1
  <2> HIDE DEF b
  <2> QED
    BY <1>3, <2>2, <2>3, <2>4
<1>5. CASE src_ok /\ req.offset >= SrcLen /\ rpos' = req.offset /\ Reply(0, <<>>)
  <2>1. <<>> \in Seq(1..SrcLen) /\ Len(<<>>) = 0 /\ \A j \in 1..0 : FALSE
    OBVIOUS
  <2>2. /\ 0 \in 0..(SrcLen - req.offset) /\ req.offset = SrcLen
        /\ rpos' = req.offset + 0 /\ Reply(0, <<>>)
    BY <1>1, <1>5
  <2>3. \A j \in 1..0 : <<>>[j] = req.offset + j
    BY <2>1
  <2> QED
    BY <1>3, <2>1, <2>2, <2>3
<1>6. CASE UNCHANGED rpos /\ Reply(E_IO, <<>>)
  BY <1>1, <1>2, <1>6, ErrorEffect
<1> QED
  BY <1>4, <1>5, <1>6 DEF DoRead

LEMMA WriteEffect ==
  ASSUME TypeOK, SlowInv, up, NEW req \in Requests, req.op = "WRITE",
         Aligned(req, Len(dst)), DoWrite(req)
  PROVE  Effect(req)
<1>1. /\ req.offset \in 0..SrcLen /\ SrcLen \in Nat /\ req.data \in Seq(1..SrcLen)
      /\ s2c \in Seq(Replies) /\ rpos \in 0..SrcLen
      /\ Len(req.data) \in Nat
      /\ UNCHANGED <<pushing, rpos, stream, src_ok>>
  BY TransferAssumption DEF Requests, TypeOK, DoWrite
<1>2. /\ dst \in Seq(0..SrcLen) /\ IsPrefixOfSrc(dst) /\ Len(dst) \in Nat
      /\ dst_file \in {"absent", "ours", "foreign"}
  BY DEF TypeOK, SlowInv
<1>3. /\ req.offset <= Len(dst) /\ req.offset + Len(req.data) <= SrcLen
      /\ \A j \in 1..Len(req.data) : req.data[j] = req.offset + j
  BY DEF Aligned
<1>4. CASE /\ dst_file # "foreign" /\ dst_file' = "ours"
           /\ \E r \in MinOf(1, Len(req.data))..Len(req.data) :
                /\ dst' = Overwrite(dst, req.offset, SubSeq(req.data, 1, r))
                /\ Reply(r, <<>>)
  <2>1. PICK r \in MinOf(1, Len(req.data))..Len(req.data) :
          /\ dst' = Overwrite(dst, req.offset, SubSeq(req.data, 1, r))
          /\ Reply(r, <<>>)
    BY <1>4
  <2> DEFINE b == SubSeq(req.data, 1, r)
             m == [result |-> r, data |-> <<>>]
  <2>2. /\ r \in 0..Len(req.data) /\ r \in -3..SrcLen /\ r \in Nat
        /\ r = 0 => Len(req.data) = 0
    BY <1>1, <1>3 DEF MinOf
  <2>3. b \in Seq(1..SrcLen) /\ Len(b) = r /\ \A j \in 1..r : b[j] = req.data[j]
    BY <1>1, <2>2, Front
  <2>4. dst' = Overwrite(dst, req.offset, b) /\ Reply(r, <<>>)
    BY <2>1
  <2> HIDE DEF b
  <2>5. \A j \in 1..Len(b) : b[j] = req.offset + j
    BY <1>3, <2>2, <2>3
  <2>6. req.offset + Len(b) <= SrcLen
    BY <1>1, <1>3, <2>2, <2>3
  <2>7. /\ dst' \in Seq(0..SrcLen) /\ IsPrefixOfSrc(dst')
        /\ Len(dst') >= Len(dst)
        /\ req.offset = Len(dst) => Len(dst') = Len(dst) + r
    BY <1>1, <1>2, <1>3, <2>3, <2>4, <2>5, <2>6, Extend
  <2>8. <<>> \in Seq(1..SrcLen)
    OBVIOUS
  <2>9. /\ m \in Replies /\ m.result = r
        /\ s2c' \in Seq(Replies) /\ up' \in BOOLEAN
        /\ cpc = "ended" => s2c' = s2c
        /\ cpc # "ended" => up' /\ s2c' = Append(s2c, m)
    BY <1>1, <2>2, <2>4, <2>8, ReplyFacts
  <2> HIDE DEF m
  <2>10. /\ Room(m, req.offset)
         /\ req.offset = Len(dst) => Written(m, Len(dst'), Len(dst))
         /\ m.result = 0 => Len(req.data) = 0
    BY <1>1, <1>3, <2>2, <2>7, <2>9 DEF Room, Written
  <2> QED
    BY <1>1, <1>4, <2>7, <2>9, <2>10 DEF Effect
<1>5. CASE /\ \/ dst_file' = dst_file
              \/ dst_file = "absent" /\ dst_file' = "ours"
           /\ UNCHANGED dst
           /\ Reply(E_IO, <<>>)
  BY <1>1, <1>2, <1>5, ErrorEffect
<1> QED
  BY <1>4, <1>5 DEF DoWrite

LEMMA HandleEffect ==
  ASSUME TypeOK, SlowInv, up, NEW req \in Requests \cup {NoRequest},
         req # NoRequest => Aligned(req, Len(dst)), Handle(req)
  PROVE  Effect(req) /\ last' = req
<1>1. last' = req
  BY DEF Handle
<1>2. CASE req.op = "NONE" /\ BadOpcode
  <2>1. /\ Reply(E_BAD_OPCODE, <<>>)
        /\ UNCHANGED <<rpos, pushing, stream, src_ok, dst, dst_file>>
    BY <1>2 DEF BadOpcode, files
  <2>2. dst_file' \in {"absent", "ours", "foreign"}
    BY <2>1 DEF TypeOK
  <2> QED
    BY <1>1, <2>1, <2>2, ErrorEffect
<1>3. CASE req.op = "WRITE" /\ DoWrite(req)
  <2>1. req \in Requests /\ Aligned(req, Len(dst))
    BY <1>3 DEF NoRequest
  <2> QED
    BY <1>1, <1>3, <2>1, WriteEffect
<1>4. CASE req.op = "READ" /\ ~req.all /\ DoRead(req)
  <2>1. req \in Requests
    BY <1>4 DEF NoRequest
  <2> QED
    BY <1>1, <1>4, <2>1, ReadEffect
<1>5. CASE req.op = "READ" /\ req.all
  BY <1>5 DEF Aligned, NoRequest
<1> QED
  BY <1>2, <1>3, <1>4, <1>5 DEF Handle

LEMMA AlignedGrows ==
  ASSUME NEW r \in Requests, NEW n \in Nat, NEW k \in Nat, n <= k, Aligned(r, n)
  PROVE  Aligned(r, k)
<1>1. r.op = "WRITE" => r.offset \in Nat
  BY TransferAssumption DEF Requests
<1> QED
  BY <1>1 DEF Aligned

LEMMA EffectInv ==
  ASSUME TransferInv, ~fast, up, NEW req \in Requests \cup {NoRequest},
         Effect(req), last' = req, UNCHANGED client,
         req # NoRequest => Aligned(req, Len(dst)),
         \/ c2s # <<>> /\ req = Head(c2s) /\ c2s' = Tail(c2s)
         \/ cpc = "ended" /\ c2s = <<>> /\ c2s' = c2s
  PROVE  TransferInv'
<1>1. /\ TypeOK /\ SlowInv /\ Len(c2s) <= 1 /\ SrcLen \in Nat
      /\ UNCHANGED <<fast, cpc, m1, position, outcome>>
  BY TransferAssumption DEF TransferInv, client
<1>2. /\ c2s \in Seq(Requests) /\ s2c \in Seq(Replies) /\ Len(dst) \in Nat
      /\ stream \in Seq(1..SrcLen)
  BY <1>1 DEF TypeOK
<1>3. c2s' = <<>> /\ c2s' \in Seq(Requests) /\ Len(c2s') <= 1
  <2>1. c2s' = <<>>
    BY <1>1, <1>2, OneLeft
  <2>2. <<>> \in Seq(Requests) /\ Len(<<>>) = 0
    OBVIOUS
  <2> QED
    BY <2>1, <2>2
<1>4. /\ s2c' \in Seq(Replies) /\ up' \in BOOLEAN /\ rpos' \in 0..SrcLen
      /\ dst' \in Seq(0..SrcLen) /\ dst_file' \in {"absent", "ours", "foreign"}
      /\ pushing' = pushing /\ stream' = stream /\ src_ok' = src_ok
      /\ IsPrefixOfSrc(dst') /\ Len(dst') >= Len(dst)
  BY DEF Effect
<1>5. TypeOK'
  BY <1>1, <1>3, <1>4 DEF TypeOK
<1>6. Len(dst') \in Nat /\ Len(dst') <= SrcLen
  BY <1>4 DEF IsPrefixOfSrc
<1>7. last' # NoRequest => Aligned(last', Len(dst'))
  BY <1>2, <1>4, <1>6, AlignedGrows
<1>8. Len(s2c') <= 1 /\ Idle' /\ Reading' /\ Copying' /\ Writing' /\ Ending'
  <2>1. CASE cpc = "ended"
    <3>1. s2c' = s2c
      BY <2>1 DEF Effect
    <3>2. outcome = "OK" => Len(dst) = SrcLen
      BY <1>1 DEF SlowInv, Ending
    <3>3. outcome' = "OK" => Len(dst') = SrcLen
      BY <1>1, <1>2, <1>4, <1>6, <3>2
    <3>4. Ending'
      BY <1>1, <2>1, <3>3 DEF Ending
    <3>5. Len(s2c') <= 1
      BY <1>1, <3>1 DEF SlowInv
    <3> QED
      BY <1>1, <2>1, <3>4, <3>5 DEF Idle, Reading, Copying, Writing
  <2>2. CASE cpc # "ended"
    <3>1. c2s # <<>> /\ req = Head(c2s) /\ req \in Requests
      BY <1>2, <2>2, OneLeft
    <3>2. /\ cpc \in {"wait_read", "wait_write"} /\ s2c = <<>>
          /\ position = Len(dst)
          /\ cpc = "wait_read" => req.op = "READ" /\ req.offset = position
          /\ cpc = "wait_write" => /\ req.op = "WRITE" /\ req.offset = position
                                   /\ Len(req.data) = 0 => position = SrcLen
          /\ cpc = "wait_read" => m1 = Blank
          /\ cpc = "wait_write" => m1.result \in 0..(SrcLen - position)
          /\ position \in 0..SrcLen /\ outcome = "none"
      <4>1. cpc \in {"wait_read", "wait_write"}
        BY <1>1, <2>2, <3>1 DEF SlowInv, Idle
      <4>2. position \in 0..SrcLen /\ outcome = "none"
        BY <1>1, <2>2 DEF SlowInv, Ending
      <4>3. CASE cpc = "wait_read"
        BY <1>1, <3>1, <4>2, <4>3 DEF SlowInv, Reading, Answered, Asked
      <4>4. CASE cpc = "wait_write"
        BY <1>1, <3>1, <4>2, <4>4 DEF SlowInv, Writing, Answered, Asked
      <4> QED
        BY <4>1, <4>3, <4>4
    <3>3. up' /\ \E m \in Replies :
            /\ s2c' = Append(s2c, m)
            /\ req.op = "READ" =>
                 /\ dst' = dst
                 /\ Room(m, req.offset) /\ NextBlocks(m, req.offset)
                 /\ EndOfSrc(m, req.offset)
            /\ req.op = "WRITE" /\ req.offset = Len(dst) =>
                 /\ Room(m, req.offset) /\ Written(m, Len(dst'), Len(dst))
                 /\ m.result = 0 => Len(req.data) = 0
      BY <2>2 DEF Effect
    <3>4. PICK m \in Replies :
            /\ s2c' = Append(s2c, m)
            /\ req.op = "READ" =>
                 /\ dst' = dst
                 /\ Room(m, req.offset) /\ NextBlocks(m, req.offset)
                 /\ EndOfSrc(m, req.offset)
            /\ req.op = "WRITE" /\ req.offset = Len(dst) =>
                 /\ Room(m, req.offset) /\ Written(m, Len(dst'), Len(dst))
                 /\ m.result = 0 => Len(req.data) = 0
      BY <3>3
    <3>5. s2c' # <<>> /\ Len(s2c') = 1 /\ Head(s2c') = m
      BY <3>2, <3>4, Sent
    <3>6. Answered'
      BY <1>3, <3>5 DEF Answered
    <3>7. Reading'
      <4>1. SUFFICES ASSUME cpc = "wait_read" PROVE Reading'
        BY <1>1 DEF Reading
      <4>2. /\ dst' = dst /\ Room(m, position) /\ NextBlocks(m, position)
            /\ EndOfSrc(m, position)
        BY <3>2, <3>4, <4>1
      <4> QED
        BY <1>1, <3>2, <3>5, <3>6, <4>1, <4>2 DEF Reading
    <3>8. Writing'
      <4>1. SUFFICES ASSUME cpc = "wait_write" PROVE Writing'
        BY <1>1 DEF Writing
      <4>2. /\ Room(m, position) /\ Written(m, Len(dst'), position)
            /\ m.result = 0 => position = SrcLen
        BY <3>2, <3>4, <4>1
      <4>3. EndOfSrc(m, position)
        BY <4>2 DEF EndOfSrc
      <4> QED
        BY <1>1, <3>2, <3>5, <3>6, <4>1, <4>2, <4>3 DEF Writing
    <3>9. Idle' /\ Copying' /\ Ending'
      BY <1>1, <3>2 DEF Idle, Copying, Ending
    <3> QED
      BY <3>5, <3>7, <3>8, <3>9
  <2> QED
    BY <2>1, <2>2
<1>9. SlowInv'
  BY <1>1, <1>3, <1>4, <1>7, <1>8 DEF SlowInv
<1> QED
  BY <1>1, <1>3, <1>5, <1>9 DEF TransferInv

LEMMA ServeSlowInv ==
  ASSUME TransferInv, ~fast, Serve \/ ServeNobody
  PROVE  TransferInv'
<1>1. /\ TypeOK /\ SlowInv /\ up /\ UNCHANGED client
      /\ c2s \in Seq(Requests) /\ last \in Requests \cup {NoRequest}
  BY DEF TransferInv, TypeOK, Serve, ServeNobody
<1>2. CASE Serve
  <2>1. c2s # <<>> /\ Handle(Head(c2s)) /\ c2s' = Tail(c2s)
    BY <1>2 DEF Serve
  <2>2. Head(c2s) \in Requests /\ Aligned(Head(c2s), Len(dst))
    BY <1>1, <2>1, OneLeft DEF SlowInv
  <2>3. Effect(Head(c2s)) /\ last' = Head(c2s)
    BY <1>1, <2>1, <2>2, HandleEffect
  <2> QED
    BY <1>1, <2>1, <2>2, <2>3, EffectInv
<1>3. CASE ServeNobody
  <2>1. /\ c2s = <<>> /\ cpc = "ended" /\ c2s' = c2s
        /\ Handle(NoRequest) \/ Handle(last)
    BY <1>3 DEF ServeNobody, ClientGone
  <2>2. PICK req \in {NoRequest, last} : Handle(req)
    BY <2>1
  <2>3. /\ req \in Requests \cup {NoRequest}
        /\ req # NoRequest => Aligned(req, Len(dst))
    BY <1>1 DEF SlowInv
  <2>4. Effect(req) /\ last' = req
    BY <1>1, <2>2, <2>3, HandleEffect
  <2> QED
    BY <1>1, <2>1, <2>3, <2>4, EffectInv
<1> QED
  BY <1>2, <1>3

(* Messages under way may be lost with the process that sent them.         *)
LEMMA MayBeLost ==
  ASSUME NEW S, NEW q \in Seq(S), NEW k, k = q \/ k = <<>>
  PROVE  k \in Seq(S) /\ (Len(q) <= 1 => Len(k) <= 1)
<1>1. CASE k = q
  BY <1>1
<1>2. CASE k = <<>>
  BY <1>2
<1> QED
  BY <1>1, <1>2

LEMMA ClientDiesInv ==
  ASSUME TransferInv, ClientDies
  PROVE  TransferInv'
<1>1. /\ TypeOK /\ cpc' = "ended" /\ outcome' = "killed" /\ c2s' \in {c2s, <<>>}
      /\ UNCHANGED <<fast, m1, position, s2c, stream, server, files>>
  BY DEF TransferInv, ClientDies, End
<1>2. c2s' \in Seq(Requests) /\ Len(c2s') <= 1
  <2>1. c2s \in Seq(Requests) /\ Len(c2s) <= 1
    BY DEF TransferInv, TypeOK
  <2>2. c2s' = c2s \/ c2s' = <<>>
    BY <1>1
  <2> QED
    BY <2>1, <2>2, MayBeLost
<1>3. TypeOK'
  BY <1>1, <1>2 DEF TypeOK, server, files
<1>4. ~fast => SlowInv'
  BY <1>1 DEF TransferInv, SlowInv, Idle, Reading, Copying, Writing, Ending,
     server, files
<1>5. fast => FastInv'
  BY <1>1 DEF TransferInv, FastInv, server, files
<1> QED
  BY <1>1, <1>2, <1>3, <1>4, <1>5 DEF TransferInv

LEMMA ServerDiesInv ==
  ASSUME TransferInv, ServerDies
  PROVE  TransferInv'
<1>1. /\ TypeOK /\ up' = FALSE /\ s2c' \in {s2c, <<>>} /\ stream' \in {stream, <<>>}
      /\ UNCHANGED <<fast, cpc, m1, position, outcome, c2s, pushing, last, rpos,
                     src_ok, dst_file, dst>>
  BY DEF TransferInv, ServerDies, client, files
<1>2. /\ s2c' \in Seq(Replies) /\ stream' \in Seq(1..SrcLen)
      /\ Len(s2c) <= 1 => Len(s2c') <= 1
  <2>1. s2c \in Seq(Replies) /\ stream \in Seq(1..SrcLen)
    BY DEF TransferInv, TypeOK
  <2>2. (s2c' = s2c \/ s2c' = <<>>) /\ (stream' = stream \/ stream' = <<>>)
    BY <1>1
  <2> QED
    BY <2>1, <2>2, MayBeLost
<1>3. TypeOK'
  BY <1>1, <1>2 DEF TypeOK
<1>4. ~fast => SlowInv'
  <2> SUFFICES ASSUME ~fast PROVE SlowInv'
    OBVIOUS
  <2>1. SlowInv /\ ~up'
    BY <1>1 DEF TransferInv
  <2>2. Idle' /\ Copying' /\ Ending'
    BY <1>1, <2>1 DEF SlowInv, Idle, Copying, Ending
  <2>3. Reading'
    BY <1>1, <2>1 DEF SlowInv, Reading
  <2>4. Writing'
    BY <1>1, <2>1 DEF SlowInv, Writing
  <2> QED
    BY <1>1, <1>2, <2>1, <2>2, <2>3, <2>4 DEF SlowInv
<1>5. fast => FastInv'
  BY <1>1 DEF TransferInv, FastInv
<1> QED
  BY <1>1, <1>3, <1>4, <1>5 DEF TransferInv

----------------------------------------------------------------------------
(* The fast copy: nothing but types, and that it only ever asks for the    *)
(* whole file.                                                             *)

LEMMA SendReadAllInv ==
  ASSUME TransferInv, SendReadAll
  PROVE  TransferInv'
<1> DEFINE r == [op |-> "READ", offset |-> 0, all |-> TRUE]
<1>1. /\ TypeOK /\ fast /\ FastInv /\ cpc = "send_read" /\ c2s = <<>>
      /\ Len(c2s) <= 1 /\ SrcLen \in Nat
      /\ UNCHANGED <<fast, m1, position, s2c, stream, server, src_ok, dst>>
  BY TransferAssumption DEF TransferInv, FastInv, SendReadAll
<1>2. CASE dst_file = "foreign"
  <2>1. /\ cpc' = "ended" /\ outcome' = "error" /\ c2s' = c2s
        /\ dst_file' = dst_file
    BY <1>2 DEF SendReadAll, End
  <2>2. TypeOK'
    BY <1>1, <2>1 DEF TypeOK, server
  <2>3. FastInv'
    BY <1>1, <2>1 DEF FastInv, server
  <2> QED
    BY <1>1, <2>1, <2>2, <2>3 DEF TransferInv
<1>3. CASE dst_file # "foreign"
  <2>1. dst_file' = "ours" /\ Request(r, "pull")
    BY <1>3 DEF SendReadAll
  <2>2. r \in Requests /\ Whole(r)
    BY <1>1 DEF Requests, Whole
  <2> HIDE DEF r
  <2>3. c2s \in Seq(Requests) /\ outcome \in {"none", "OK", "error", "crashed", "killed"}
    BY <1>1 DEF TypeOK
  <2>4. /\ c2s' \in Seq(Requests) /\ Len(c2s') <= 1
        /\ c2s' # <<>> => Head(c2s') = r
        /\ cpc' \in {"pull", "ended"} /\ outcome' \in {outcome, "killed"}
    BY <1>1, <2>1, <2>2, <2>3, RequestFacts
  <2>5. TypeOK'
    BY <1>1, <2>1, <2>3, <2>4 DEF TypeOK, server
  <2>6. FastInv'
    BY <1>1, <2>2, <2>4 DEF FastInv, server
  <2> QED
    BY <1>1, <2>4, <2>5, <2>6 DEF TransferInv
<1> QED
  BY <1>2, <1>3

LEMMA PullInv ==
  ASSUME TransferInv, Pull \/ PullEnd
  PROVE  TransferInv'
<1>1. /\ TypeOK /\ cpc = "pull" /\ Len(c2s) <= 1
      /\ UNCHANGED <<fast, m1, position, c2s, s2c, server, src_ok, dst_file>>
  BY DEF TransferInv, Pull, PullEnd, wires, files
<1>2. fast /\ FastInv
  BY <1>1 DEF TransferInv, SlowInv, TypeOK
<1>3. /\ cpc' \in {"pull", "wait_status", "ended"}
      /\ outcome' \in {outcome, "error"}
  BY <1>1 DEF Pull, PullEnd, End
<1>4. stream' \in Seq(1..SrcLen) /\ dst' \in Seq(0..SrcLen)
  <2>1. stream \in Seq(1..SrcLen) /\ dst \in Seq(0..SrcLen)
    BY <1>1 DEF TypeOK
  <2>2. CASE Pull
    <3>1. PICK n \in 1..Len(stream) :
            /\ stream' = SubSeq(stream, n + 1, Len(stream))
            /\ \/ \E w \in 1..n : dst' = dst \o SubSeq(stream, 1, w)
               \/ dst' = dst
      BY <2>2 DEF Pull
    <3>2. stream' \in Seq(1..SrcLen)
      <4>1. n + 1 \in 1..(Len(stream) + 1) /\ Len(stream) \in 0..Len(stream)
        BY <2>1
      <4> QED
        BY <2>1, <3>1, <4>1, Part
    <3>3. ASSUME NEW w \in 1..n PROVE dst \o SubSeq(stream, 1, w) \in Seq(0..SrcLen)
      <4>1. w \in 0..Len(stream) /\ 1 \in 1..(Len(stream) + 1)
        BY <2>1
      <4>2. SubSeq(stream, 1, w) \in Seq(1..SrcLen)
        BY <2>1, <4>1, Part
      <4>3. 1..SrcLen \subseteq 0..SrcLen
        BY TransferAssumption
      <4>4. SubSeq(stream, 1, w) \in Seq(0..SrcLen)
        BY <4>2, <4>3, SeqMonotonic
      <4> QED
        BY <2>1, <4>4, ConcatProperties
    <3> QED
      BY <2>1, <3>1, <3>2, <3>3
  <2>3. CASE PullEnd
    BY <2>1, <2>3 DEF PullEnd, wires, files
  <2> QED
    BY <2>2, <2>3
<1>5. TypeOK'
  BY <1>1, <1>3, <1>4 DEF TypeOK, server
<1>6. FastInv'
  BY <1>1, <1>2, <1>3 DEF FastInv, server
<1> QED
  BY <1>1, <1>2, <1>5, <1>6 DEF TransferInv

LEMMA ReceiveStatusInv ==
  ASSUME TransferInv, ReceiveStatus
  PROVE  TransferInv'
<1>1. /\ TypeOK /\ cpc = "wait_status" /\ Answer /\ Len(c2s) <= 1
      /\ cpc' = "ended" /\ outcome' \in {"OK", "error"}
      /\ position' = position + m1'.result
      /\ UNCHANGED <<fast, c2s, stream, server, files>>
  BY DEF TransferInv, ReceiveStatus, End
<1>2. fast /\ FastInv /\ position = 0
  BY <1>1 DEF TransferInv, SlowInv, FastInv, TypeOK
<1>3. s2c' \in Seq(Replies) /\ m1' \in Replies
  BY <1>1, AnswerFacts DEF TypeOK
<1>4. position' \in -3..SrcLen
  <2>1. m1'.result \in -3..SrcLen /\ SrcLen \in Nat
    BY <1>3, TransferAssumption DEF Replies
  <2> QED
    BY <1>1, <1>2, <2>1
<1>5. TypeOK'
  BY <1>1, <1>3, <1>4 DEF TypeOK, server, files
<1>6. FastInv'
  BY <1>1, <1>2 DEF FastInv, server, files
<1> QED
  BY <1>1, <1>2, <1>5, <1>6 DEF TransferInv

LEMMA HandleWhole ==
  ASSUME TypeOK, up, NEW req \in Requests \cup {NoRequest},
         req # NoRequest => Whole(req), Handle(req)
  PROVE  /\ last' = req /\ s2c' \in Seq(Replies) /\ up' \in BOOLEAN
         /\ pushing' \in BOOLEAN
         /\ UNCHANGED <<rpos, stream, files>>
<1>1. /\ SrcLen \in Nat /\ <<>> \in Seq(1..SrcLen) /\ last' = req
      /\ s2c \in Seq(Replies) /\ up \in BOOLEAN /\ pushing \in BOOLEAN
  BY TransferAssumption DEF TypeOK, Handle
<1>2. req.op # "WRITE" /\ (req.op = "READ" => req.all)
  BY DEF Whole, NoRequest
<1>3. ASSUME NEW e \in {E_IO, E_BAD_OPCODE}, Reply(e, <<>>)
      PROVE  s2c' \in Seq(Replies) /\ up' \in BOOLEAN
  <2>1. e \in -3..SrcLen
    BY <1>1 DEF E_IO, E_BAD_OPCODE
  <2> QED
    BY <1>1, <1>3, <2>1, ReplyFacts
<1>4. CASE BadOpcode
  BY <1>1, <1>3, <1>4 DEF BadOpcode
<1>5. CASE BeginPush
  <2>1. CASE src_ok /\ pushing' = TRUE /\ UNCHANGED <<up, rpos, s2c, stream, files>>
    <3>1. up' \in BOOLEAN
      <4>1. up' = up
        BY <2>1
      <4> QED
        BY <1>1, <4>1, Zenon
    <3> QED
      BY <1>1, <2>1, <3>1
  <2>2. CASE ~src_ok /\ Reply(E_IO, <<>>) /\ UNCHANGED <<pushing, rpos, stream, files>>
    BY <1>1, <1>3, <2>2
  <2> QED
    BY <1>5, <2>1, <2>2 DEF BeginPush
<1> QED
  BY <1>2, <1>4, <1>5 DEF Handle

LEMMA ServeFastInv ==
  ASSUME TransferInv, fast, Serve \/ ServeNobody
  PROVE  TransferInv'
<1>1. /\ TypeOK /\ FastInv /\ up /\ UNCHANGED <<fast, cpc, m1, position, outcome>>
      /\ c2s \in Seq(Requests) /\ last \in Requests \cup {NoRequest}
      /\ Len(c2s) <= 1
  BY DEF TransferInv, TypeOK, Serve, ServeNobody, client
<1>2. PICK req \in Requests \cup {NoRequest} :
        /\ req # NoRequest => Whole(req)
        /\ Handle(req)
        /\ c2s' \in Seq(Requests) /\ Len(c2s') <= 1
        /\ c2s' # <<>> => c2s' = c2s
        /\ c2s = <<>> => c2s' = <<>>
  <2>1. CASE Serve
    <3>1. c2s # <<>> /\ Handle(Head(c2s)) /\ c2s' = Tail(c2s)
      BY <2>1 DEF Serve
    <3>2. /\ Head(c2s) \in Requests /\ Whole(Head(c2s)) /\ c2s' = <<>>
          /\ c2s' \in Seq(Requests) /\ Len(c2s') <= 1
      BY <1>1, <3>1, OneLeft DEF FastInv
    <3> QED
      BY <3>1, <3>2
  <2>2. CASE ServeNobody
    <3>1. c2s' = c2s /\ \E req \in {NoRequest, last} : Handle(req)
      BY <2>2 DEF ServeNobody
    <3> QED
      BY <1>1, <3>1 DEF FastInv
  <2> QED
    BY <2>1, <2>2
<1>3. /\ last' = req /\ s2c' \in Seq(Replies) /\ up' \in BOOLEAN
      /\ pushing' \in BOOLEAN
      /\ UNCHANGED <<rpos, stream, files>>
  BY <1>1, <1>2, HandleWhole
<1>4. TypeOK'
  BY <1>1, <1>2, <1>3 DEF TypeOK, files
<1>5. FastInv'
  <2>1. c2s' # <<>> => Whole(Head(c2s'))
    BY <1>1, <1>2 DEF FastInv
  <2> QED
    BY <1>1, <1>2, <1>3, <2>1 DEF FastInv
<1> QED
  BY <1>1, <1>2, <1>4, <1>5 DEF TransferInv

LEMMA PushInv ==
  ASSUME TransferInv, Push \/ PushEnd
  PROVE  TransferInv'
<1>1. /\ TypeOK /\ up /\ pushing /\ Len(c2s) <= 1
      /\ UNCHANGED <<fast, cpc, m1, position, outcome, c2s, last, src_ok, dst_file, dst>>
  BY DEF TransferInv, Push, PushEnd, client, files
<1>2. fast /\ FastInv
  BY <1>1 DEF TransferInv, SlowInv, TypeOK
<1>3. SrcLen \in Nat /\ rpos \in 0..SrcLen /\ stream \in Seq(1..SrcLen)
      /\ s2c \in Seq(Replies) /\ up \in BOOLEAN /\ pushing \in BOOLEAN
  BY <1>1, TransferAssumption DEF TypeOK
<1>4. /\ s2c' \in Seq(Replies) /\ up' \in BOOLEAN /\ pushing' \in BOOLEAN
      /\ stream' \in Seq(1..SrcLen) /\ rpos' \in 0..SrcLen
  <2>1. CASE Push
    <3>1. PICK n \in 1..(SrcLen - rpos) :
            /\ rpos' = rpos + n
            /\ \/ /\ stream' = stream \o SubSeq(Src, rpos + 1, rpos + n)
                  /\ up' = up
               \/ up' \in BOOLEAN /\ stream' = stream
      BY <2>1 DEF Push
    <3> DEFINE b == SubSeq(Src, rpos + 1, rpos + n)
    <3>2. b \in Seq(1..SrcLen) /\ n \in 0..(SrcLen - rpos)
      <4>1. n \in 0..(SrcLen - rpos)
        BY <1>3
      <4> QED
        BY <1>3, <4>1, Block
    <3>3. stream' \in Seq(1..SrcLen) /\ rpos' \in 0..SrcLen
      <4>1. stream' = stream \o b \/ stream' = stream
        BY <3>1
      <4>2. rpos' \in 0..SrcLen
        BY <1>3, <3>1
      <4> HIDE DEF b
      <4>3. stream \o b \in Seq(1..SrcLen)
        BY <1>3, <3>2, ConcatProperties
      <4> QED
        BY <1>3, <4>1, <4>2, <4>3
    <3>4. up' = up \/ up' \in BOOLEAN
      BY <3>1
    <3>5. up' \in BOOLEAN
      BY <1>3, <3>4, Zenon
    <3>6. s2c' = s2c /\ pushing' = pushing
      BY <2>1 DEF Push
    <3>7. pushing' \in BOOLEAN
      BY <1>3, <3>6, Zenon
    <3> QED
      BY <1>3, <3>3, <3>5, <3>6, <3>7
  <2>2. CASE PushEnd
    <3>1. /\ Reply(0, <<>>) \/ Reply(-1, <<>>)
          /\ pushing' = FALSE /\ stream' = stream /\ rpos' = rpos
      BY <2>2 DEF PushEnd
    <3>2. <<>> \in Seq(1..SrcLen) /\ 0 \in -3..SrcLen /\ -1 \in -3..SrcLen
      BY <1>3
    <3>3. s2c' \in Seq(Replies) /\ up' \in BOOLEAN
      BY <1>1, <3>1, <3>2, ReplyFacts
    <3> QED
      BY <1>3, <3>1, <3>3
  <2> QED
    BY <2>1, <2>2
<1>5. TypeOK'
  BY <1>1, <1>4 DEF TypeOK
<1>6. FastInv'
  BY <1>1, <1>2 DEF FastInv
<1> QED
  BY <1>1, <1>2, <1>5, <1>6 DEF TransferInv

----------------------------------------------------------------------------
LEMMA NextInv == TransferInv /\ [Next]_vars => TransferInv'
<1> SUFFICES ASSUME TransferInv, [Next]_vars PROVE TransferInv'
  OBVIOUS
<1>1. CASE ClientStep
  BY <1>1, SendReadInv, ReceiveReadInv, SendWriteInv, ReceiveWriteInv,
     SendReadAllInv, PullInv, ReceiveStatusInv DEF ClientStep
<1>2. CASE ServerStep
  <2>1. CASE Serve \/ ServeNobody
    BY <2>1, ServeSlowInv, ServeFastInv
  <2>2. CASE Push \/ PushEnd
    BY <2>2, PushInv
  <2> QED
    BY <1>2, <2>1, <2>2 DEF ServerStep
<1>3. CASE ClientDies
  BY <1>3, ClientDiesInv
<1>4. CASE ServerDies
  BY <1>4, ServerDiesInv
<1>5. CASE UNCHANGED vars
  <2>1. UNCHANGED <<fast, cpc, m1, position, outcome, c2s, s2c, stream, up,
                    pushing, last, rpos, src_ok, dst_file, dst>>
    BY <1>5 DEF vars, client, wires, server, files
  <2>2. TypeOK'
    BY <2>1 DEF TransferInv, TypeOK
  <2>3. ~fast => SlowInv'
    BY <2>1 DEF TransferInv, SlowInv, Idle, Reading, Copying, Writing, Ending,
       Answered, Asked
  <2>4. fast => FastInv'
    BY <2>1 DEF TransferInv, FastInv
  <2> QED
    BY <2>1, <2>2, <2>3, <2>4 DEF TransferInv
<1> QED
  BY <1>1, <1>2, <1>3, <1>4, <1>5 DEF Next

LEMMA Invariance == Spec => []TransferInv
BY InitInv, NextInv, PTL DEF Spec

(* Whatever fails, is cut short or is handled twice, client and server     *)
(* stay in the states the model gives them; the position of the client     *)
(* stays within the file, or ends below its start with an error.           *)
THEOREM TypeCorrect == Spec => []TypeOK
BY Invariance, PTL DEF TransferInv

(* No wrong block and no hole in the destination of a slow copy, however   *)
(* long the file and the buffers are (client.c:176-201, server.c:251-286). *)
THEOREM SlowCopyWritesPrefix == Spec => []SlowCopyIsPrefix
<1>1. TransferInv => SlowCopyIsPrefix
  <2> SUFFICES ASSUME TransferInv, ~fast
               PROVE  /\ Len(dst) <= SrcLen
                      /\ \A i \in 1..Len(dst) : dst[i] = Src[i]
    BY DEF SlowCopyIsPrefix
  <2>1. IsPrefixOfSrc(dst) /\ Len(dst) \in Nat /\ SrcLen \in Nat
    BY TransferAssumption DEF TransferInv, SlowInv, TypeOK
  <2>2. \A i \in 1..SrcLen : Src[i] = i
    BY DEF Src
  <2>3. Len(dst) <= SrcLen /\ \A i \in 1..Len(dst) : dst[i] = i
    BY <2>1 DEF IsPrefixOfSrc
  <2>4. \A i \in 1..Len(dst) : i \in 1..SrcLen
    BY <2>1, <2>3
  <2> QED
    BY <2>2, <2>3, <2>4
<1> QED
  BY <1>1, Invariance, PTL

(* A live client of a live server asks for the next buffer at the very end *)
(* of what was written (client.c:189-197).                                 *)
THEOREM PositionInStep == Spec => []PositionIsEndOfFile
<1>1. TransferInv => PositionIsEndOfFile
  BY DEF TransferInv, SlowInv, Idle, PositionIsEndOfFile
<1> QED
  BY <1>1, Invariance, PTL

(* A slow copy that reports OK while the server is there is complete.      *)
THEOREM SlowOkIsComplete == Spec => []SlowOkMeansComplete
<1>1. TransferInv => SlowOkMeansComplete
  <2> SUFFICES ASSUME TransferInv, ~fast, outcome = "OK", up PROVE dst = Src
    BY DEF SlowOkMeansComplete
  <2>1. IsPrefixOfSrc(dst) /\ Len(dst) = SrcLen /\ SrcLen \in Nat
        /\ dst \in Seq(0..SrcLen)
    BY TransferAssumption DEF TransferInv, SlowInv, Ending, TypeOK
  <2>2. \A i \in 1..SrcLen : dst[i] = Src[i]
    BY <2>1 DEF IsPrefixOfSrc, Src
  <2>3. Src \in Seq(1..SrcLen) /\ Len(Src) = SrcLen
    BY <2>1 DEF Src
  <2> HIDE DEF Src
  <2> QED
    BY <2>1, <2>2, <2>3
<1> QED
  BY <1>1, Invariance, PTL

----------------------------------------------------------------------------
(* The destination, seen as FileCopy sees it.  On top of TransferInv the   *)
(* proof needs to know that a WRITE answered with success has opened the   *)
(* file, and, in a fast copy, that the blocks under way are the ones the   *)
(* server has read last, all of them after the last one written.           *)
Flowing ==
  /\ Len(stream) <= rpos
  /\ \A i \in 1..Len(stream) : stream[i] = rpos - Len(stream) + i
  /\ Copy!Copied <= rpos - Len(stream)

Opened ==
  cpc = "wait_write" /\ s2c # <<>> => (Head(s2c).result >= 0 => dst_file = "ours")

CopyInv ==
  /\ cpc # "ended" => outcome = "none"
  /\ ~fast => Opened
  /\ fast /\ cpc \in {"pull", "wait_status"} => dst_file = "ours"
  /\ fast /\ cpc # "ended" => Flowing

CopyStep == [Copy!Next]_(Copy!vars)

LEMMA BlocksFacts ==
  ASSUME NEW first \in 1..SrcLen, NEW n \in Nat, first + n - 1 <= SrcLen
  PROVE  /\ Copy!Blocks(first, n) \in Seq(1..SrcLen)
         /\ Len(Copy!Blocks(first, n)) = n
         /\ \A i \in 1..n : Copy!Blocks(first, n)[i] = first + i - 1
<1>1. SrcLen \in Nat
  BY TransferAssumption
<1>2. \A i \in 1..n : first + i - 1 \in 1..SrcLen
  BY <1>1
<1> QED
  BY <1>2 DEF Copy!Blocks

(* What is written from block "first" on, as a piece of the source.        *)
LEMMA IsBlocks ==
  ASSUME NEW first \in 1..SrcLen, NEW q \in Seq(1..SrcLen),
         first + Len(q) - 1 <= SrcLen,
         \A i \in 1..Len(q) : q[i] = first + i - 1
  PROVE  q = Copy!Blocks(first, Len(q))
<1>1. Len(q) \in Nat
  OBVIOUS
<1> DEFINE b == Copy!Blocks(first, Len(q))
<1>2. b \in Seq(1..SrcLen) /\ Len(b) = Len(q) /\ \A i \in 1..Len(q) : b[i] = q[i]
  BY <1>1, BlocksFacts
<1> HIDE DEF b
<1>3. b = q
  BY <1>2, SeqEqual
<1> QED
  BY <1>3 DEF b

LEMMA Follows ==
  ASSUME NEW f \in Seq(0..SrcLen), NEW g \in Seq(0..SrcLen),
         IsPrefixOfSrc(f), IsPrefixOfSrc(g), Len(f) <= Len(g)
  PROVE  \/ g = f
         \/ /\ Len(g) - Len(f) \in 1..(SrcLen - Len(f))
            /\ g = f \o Copy!Blocks(Len(f) + 1, Len(g) - Len(f))
<1>1. /\ SrcLen \in Nat /\ Len(f) \in Nat /\ Len(g) \in Nat /\ Len(g) <= SrcLen
      /\ \A i \in 1..Len(f) : f[i] = i
      /\ \A i \in 1..Len(g) : g[i] = i
  BY TransferAssumption DEF IsPrefixOfSrc
<1>2. CASE Len(f) = Len(g)
  BY <1>1, <1>2, SeqEqual
<1>3. CASE Len(f) # Len(g)
  <2> DEFINE n == Len(g) - Len(f)
             b == Copy!Blocks(Len(f) + 1, n)
  <2>1. n \in 1..(SrcLen - Len(f)) /\ Len(f) + n = Len(g)
    BY <1>1, <1>3
  <2>2. b \in Seq(1..SrcLen) /\ Len(b) = n /\ \A i \in 1..n : b[i] = Len(f) + i
    <3>1. Len(f) + 1 \in 1..SrcLen /\ n \in Nat /\ Len(f) + 1 + n - 1 <= SrcLen
      BY <1>1, <2>1
    <3>2. b \in Seq(1..SrcLen) /\ Len(b) = n /\ \A i \in 1..n : b[i] = Len(f) + 1 + i - 1
      BY <3>1, BlocksFacts
    <3> QED
      BY <1>1, <3>2
  <2> HIDE DEF n, b
  <2>3. b \in Seq(0..SrcLen)
    <3>1. 1..SrcLen \subseteq 0..SrcLen
      BY <1>1
    <3> QED
      BY <2>2, <3>1, SeqMonotonic
  <2>4. /\ f \o b \in Seq(0..SrcLen) /\ Len(f \o b) = Len(g)
        /\ \A i \in 1..Len(g) : (f \o b)[i] = IF i <= Len(f) THEN f[i] ELSE b[i - Len(f)]
    <3>1. /\ f \o b \in Seq(0..SrcLen) /\ Len(f \o b) = Len(f) + Len(b)
          /\ \A i \in 1..(Len(f) + Len(b)) :
               (f \o b)[i] = IF i <= Len(f) THEN f[i] ELSE b[i - Len(f)]
      BY <2>3, ConcatProperties, Zenon
    <3>2. Len(f) + Len(b) = Len(g)
      BY <2>1, <2>2
    <3> QED
      BY <3>1, <3>2, Zenon
  <2>5. \A i \in 1..Len(g) : (f \o b)[i] = g[i]
    <3> TAKE i \in 1..Len(g)
    <3>1. CASE i <= Len(f)
      BY <1>1, <2>4, <3>1
    <3>2. CASE ~(i <= Len(f))
      <4>1. i - Len(f) \in 1..n
        BY <1>1, <2>1, <3>2
      <4> QED
        BY <1>1, <2>2, <2>4, <3>2, <4>1
    <3> QED
      BY <3>1, <3>2
  <2>6. g = f \o b
    BY <2>4, <2>5, SeqEqual
  <2> QED
    BY <2>1, <2>6, Zenon DEF n, b
<1> QED
  BY <1>2, <1>3

LEMMA PrefixCopied ==
  ASSUME TypeOK, IsPrefixOfSrc(dst)
  PROVE  Copy!Copied = Len(dst) /\ Len(dst) \in 0..SrcLen
<1>1. dst \in Seq(0..SrcLen) /\ Len(dst) \in Nat /\ SrcLen \in Nat
  BY TransferAssumption DEF TypeOK
<1>2. CASE dst = <<>>
  BY <1>1, <1>2 DEF Copy!Copied
<1>3. CASE dst # <<>>
  <2>1. Len(dst) \in 1..Len(dst)
    BY <1>1, <1>3
  <2> QED
    BY <1>1, <1>3, <2>1 DEF Copy!Copied, IsPrefixOfSrc
<1> QED
  BY <1>1, <1>2, <1>3 DEF IsPrefixOfSrc

(* The files after a request, whatever it was.                             *)
LEMMA HandleFiles ==
  ASSUME TypeOK, up, NEW req \in Requests \cup {NoRequest}, Handle(req)
  PROVE  /\ dst' = dst \/ (dst_file # "foreign" /\ dst_file' = "ours")
         /\ dst_file' = dst_file \/ (dst_file = "absent" /\ dst_file' = "ours")
         /\ cpc # "ended" /\ s2c = <<>> /\ req.op = "WRITE" =>
              s2c' # <<>> /\ (Head(s2c').result >= 0 => dst_file' = "ours")
<1>1. ASSUME NEW result, NEW data, Reply(result, data), cpc # "ended", s2c = <<>>
      PROVE  s2c' # <<>> /\ Head(s2c').result = result
  <2> DEFINE m == [result |-> result, data |-> data]
  <2>1. s2c' = Append(<<>>, m) /\ m.result = result
    BY <1>1 DEF Reply, ClientGone
  <2> HIDE DEF m
  <2>2. m \in {m}
    OBVIOUS
  <2> QED
    BY <2>1, <2>2, Sent
<1>2. CASE req.op = "WRITE" /\ DoWrite(req)
  <2>1. CASE /\ dst_file # "foreign" /\ dst_file' = "ours"
             /\ \E r \in MinOf(1, Len(req.data))..Len(req.data) : Reply(r, <<>>)
    <3>1. dst_file \in {"absent", "ours"}
      BY <2>1 DEF TypeOK
    <3> QED
      BY <1>1, <2>1, <3>1
  <2>2. CASE /\ dst_file' = dst_file \/ (dst_file = "absent" /\ dst_file' = "ours")
             /\ UNCHANGED dst /\ Reply(E_IO, <<>>)
    <3>1. ~(E_IO >= 0)
      BY DEF E_IO
    <3> QED
      BY <1>1, <2>2, <3>1
  <2>3. \/ /\ dst_file # "foreign" /\ dst_file' = "ours"
           /\ \E r \in MinOf(1, Len(req.data))..Len(req.data) : Reply(r, <<>>)
        \/ /\ dst_file' = dst_file \/ (dst_file = "absent" /\ dst_file' = "ours")
           /\ UNCHANGED dst /\ Reply(E_IO, <<>>)
    BY <1>2 DEF DoWrite
  <2> QED
    BY <2>1, <2>2, <2>3
<1>3. CASE req.op # "WRITE" /\ UNCHANGED files
  BY <1>3 DEF files
<1>4. req.op = "WRITE" \/ UNCHANGED files
  BY DEF Handle, DoRead, BeginPush, BadOpcode
<1>5. req.op = "WRITE" => DoWrite(req)
  BY DEF Handle
<1> QED
  BY <1>2, <1>3, <1>4, <1>5

(* The end of a piece, and the last block of two pieces.                   *)
LEMMA Rest ==
  ASSUME NEW S, NEW q \in Seq(S), NEW n \in 0..Len(q)
  PROVE  LET r == SubSeq(q, n + 1, Len(q))
         IN  /\ r \in Seq(S) /\ Len(r) = Len(q) - n
             /\ \A i \in 1..(Len(q) - n) : r[i] = q[n + i]
<1>1. Len(q) \in Nat
  OBVIOUS
<1> QED
  BY <1>1

LEMMA LastOfTwo ==
  ASSUME NEW S, NEW f \in Seq(S), NEW q \in Seq(S), q # <<>>
  PROVE  /\ f \o q # <<>> /\ (f \o q)[Len(f \o q)] = q[Len(q)]
         /\ f \o q \in Seq(S)
<1>1. Len(f) \in Nat /\ Len(q) \in Nat /\ Len(q) >= 1
  OBVIOUS
<1>2. /\ f \o q \in Seq(S) /\ Len(f \o q) = Len(f) + Len(q)
      /\ \A i \in 1..(Len(f) + Len(q)) :
           (f \o q)[i] = IF i <= Len(f) THEN f[i] ELSE q[i - Len(f)]
  BY ConcatProperties, Zenon
<1> DEFINE k == Len(f) + Len(q)
<1>3. k \in 1..(Len(f) + Len(q)) /\ ~(k <= Len(f)) /\ k - Len(f) = Len(q) /\ k # 0
  BY <1>1
<1>4. (f \o q)[k] = q[Len(q)]
  BY <1>2, <1>3, Zenon
<1>5. Len(f \o q) # 0
  BY <1>2, <1>3
<1>6. f \o q # <<>>
  BY <1>5
<1> QED
  BY <1>2, <1>4, <1>6

LEMMA CopiedType == ASSUME TypeOK PROVE Copy!Copied \in 0..SrcLen
<1>1. dst \in Seq(0..SrcLen) /\ SrcLen \in Nat
  BY TransferAssumption DEF TypeOK
<1>2. CASE dst = <<>>
  BY <1>1, <1>2 DEF Copy!Copied
<1>3. CASE dst # <<>>
  <2>1. Len(dst) \in 1..Len(dst)
    BY <1>1, <1>3
  <2> QED
    BY <1>1, <1>3, <2>1 DEF Copy!Copied
<1> QED
  BY <1>2, <1>3

(* The steps that change nothing FileCopy knows, or only who is there.     *)
LEMMA Stays ==
  ASSUME UNCHANGED <<fast, up, dst_file, dst, outcome>>
  PROVE  CopyStep
BY DEF CopyStep, Copy!vars

LEMMA Quits ==
  ASSUME outcome = "none", outcome' \in {"error", "crashed", "killed"},
         UNCHANGED <<fast, up, dst_file, dst>>
  PROVE  CopyStep
BY DEF CopyStep, Copy!Next, Copy!Finish

LEMMA MayStop ==
  ASSUME up \in BOOLEAN, up' \in BOOLEAN, up,
         UNCHANGED <<fast, dst_file, dst, outcome>>
  PROVE  CopyStep
<1>1. CASE up' = TRUE
  <2>1. up = TRUE
    BY Zenon
  <2> QED
    BY <1>1, <2>1, Stays
<1>2. CASE up' = FALSE
  BY <1>2 DEF CopyStep, Copy!Next, Copy!ServerStops
<1> QED
  BY <1>1, <1>2

----------------------------------------------------------------------------
(* Each action keeps CopyInv and is a step of FileCopy.                    *)

LEMMA SendReadCopy ==
  ASSUME TransferInv, CopyInv, SendRead
  PROVE  CopyInv' /\ CopyStep
<1>1. /\ cpc = "send_read" /\ ~fast /\ outcome = "none"
      /\ UNCHANGED <<fast, up, dst_file, dst>>
      /\ \/ cpc' = "wait_read" /\ outcome' = outcome
         \/ cpc' = "ended" /\ outcome' = "killed"
  BY DEF CopyInv, SendRead, Request, End, server, files
<1>2. CopyInv'
  BY <1>1 DEF CopyInv, Opened
<1> QED
  BY <1>1, <1>2, Stays, Quits

LEMMA ReceiveReadCopy ==
  ASSUME TransferInv, CopyInv, ReceiveRead
  PROVE  CopyInv' /\ CopyStep
<1>1. /\ cpc = "wait_read" /\ cpc' = "send_write" /\ outcome = "none"
      /\ UNCHANGED <<fast, up, dst_file, dst, outcome>>
  BY DEF CopyInv, ReceiveRead, server, files
<1>2. ~fast
  BY <1>1 DEF TransferInv, FastInv
<1>3. CopyInv'
  BY <1>1, <1>2 DEF CopyInv, Opened
<1> QED
  BY <1>1, <1>3, Stays

LEMMA SendWriteCopy ==
  ASSUME TransferInv, CopyInv, SendWrite
  PROVE  CopyInv' /\ CopyStep
<1>1. /\ cpc = "send_write" /\ outcome = "none" /\ s2c' = s2c
      /\ UNCHANGED <<fast, up, dst_file, dst>>
      /\ \/ cpc' = "wait_write" /\ outcome' = outcome
         \/ cpc' = "ended" /\ outcome' \in {"crashed", "killed"}
  BY DEF CopyInv, SendWrite, Request, End, server, files
<1>2. ~fast /\ s2c = <<>>
  BY <1>1 DEF TransferInv, FastInv, SlowInv, Idle
<1>3. CopyInv'
  BY <1>1, <1>2 DEF CopyInv, Opened
<1> QED
  BY <1>1, <1>3, Stays, Quits

(* Only a reply to a WRITE that opened the file and found nothing left to  *)
(* write ends a slow copy with OK, unless the server has gone.             *)
LEMMA ReceiveWriteCopy ==
  ASSUME TransferInv, CopyInv, ReceiveWrite
  PROVE  CopyInv' /\ CopyStep
<1>1. /\ cpc = "wait_write" /\ outcome = "none" /\ Answer
      /\ UNCHANGED <<fast, up, dst_file, dst>>
      /\ \/ cpc' = "send_read" /\ outcome' = outcome
         \/ cpc' = "ended" /\ outcome' = "OK" /\ m1'.result >= 0
         \/ cpc' = "ended" /\ outcome' = "error"
  BY DEF CopyInv, ReceiveWrite, advance, End, server, files
<1>2. ~fast /\ SlowInv /\ TypeOK
  BY <1>1 DEF TransferInv, FastInv
<1>3. TransferInv'
  BY ReceiveWriteInv
<1>4. CopyInv'
  BY <1>1, <1>2 DEF CopyInv, Opened
<1>5. CASE outcome' = "OK"
  <2>1. up => dst_file = "ours"
    <3>1. s2c \in Seq(Replies) /\ m1 \in Replies
      BY <1>2 DEF TypeOK
    <3>2. up => s2c # <<>> /\ m1' = Head(s2c)
      BY <1>1, <3>1, AnswerFacts
    <3> QED
      BY <1>1, <1>2, <1>5, <3>2 DEF CopyInv, Opened
  <2>2. up => Copy!Copied = SrcLen
    <3>1. up => Len(dst) = SrcLen
      BY <1>1, <1>2, <1>3, <1>5 DEF TransferInv, SlowInv, Ending
    <3> QED
      BY <1>2, <3>1, PrefixCopied DEF SlowInv
  <2>3. Copy!Finish
    BY <1>1, <1>2, <1>5, <2>1, <2>2 DEF Copy!Finish
  <2> QED
    BY <1>4, <2>3 DEF CopyStep, Copy!Next
<1>6. CASE outcome' # "OK"
  BY <1>1, <1>4, <1>6, Stays, Quits
<1> QED
  BY <1>5, <1>6

LEMMA SendReadAllCopy ==
  ASSUME TransferInv, CopyInv, SendReadAll
  PROVE  CopyInv' /\ CopyStep
<1>1. /\ cpc = "send_read" /\ fast /\ outcome = "none" /\ Flowing
      /\ UNCHANGED <<fast, up, dst, stream, rpos>>
  BY DEF CopyInv, SendReadAll, server
<1>2. CASE dst_file = "foreign"
  <2>1. cpc' = "ended" /\ outcome' = "error" /\ dst_file' = dst_file
    BY <1>2 DEF SendReadAll, End
  <2> QED
    BY <1>1, <2>1, Quits DEF CopyInv
<1>3. CASE dst_file # "foreign"
  <2>1. /\ dst_file' = "ours" /\ dst_file \in {"absent", "ours"}
        /\ \/ cpc' = "pull" /\ outcome' = outcome
           \/ cpc' = "ended" /\ outcome' = "killed"
    BY <1>3 DEF SendReadAll, Request, End, TransferInv, TypeOK
  <2>2. CopyInv'
    <3>1. Flowing'
      BY <1>1 DEF Flowing, Copy!Copied
    <3> QED
      BY <1>1, <2>1, <3>1 DEF CopyInv
  <2>3. CASE dst_file = "absent"
    BY <1>1, <2>1, <2>2, <2>3 DEF CopyStep, Copy!Next, Copy!Open
  <2>4. CASE dst_file = "ours"
    BY <1>1, <2>1, <2>2, <2>4, Stays, Quits
  <2> QED
    BY <2>1, <2>3, <2>4
<1> QED
  BY <1>2, <1>3

(* What the client writes of the data connection follows what it wrote.    *)
LEMMA PullCopy ==
  ASSUME TransferInv, CopyInv, Pull
  PROVE  CopyInv' /\ CopyStep
<1>1. /\ TypeOK /\ cpc = "pull" /\ stream # <<>>
      /\ UNCHANGED <<fast, up, dst_file, outcome, rpos>>
  BY DEF TransferInv, Pull, server
<1>2. fast /\ dst_file = "ours" /\ outcome = "none" /\ Flowing
  BY <1>1 DEF TransferInv, SlowInv, CopyInv
<1>3. PICK n \in 1..Len(stream) :
        /\ stream' = SubSeq(stream, n + 1, Len(stream))
        /\ \/ \E w \in 1..n : dst' = dst \o SubSeq(stream, 1, w)
              /\ UNCHANGED cpc
           \/ cpc' = "wait_status" /\ UNCHANGED dst
  BY DEF Pull
<1> DEFINE L == Len(stream)
           first == rpos - L + 1
<1>4. /\ SrcLen \in Nat /\ rpos \in 0..SrcLen /\ stream \in Seq(1..SrcLen)
      /\ L \in Nat /\ L >= 1 /\ L <= rpos /\ dst \in Seq(0..SrcLen)
  BY <1>1, <1>2, TransferAssumption DEF TypeOK, Flowing
<1>5. /\ \A i \in 1..L : stream[i] = first + i - 1
      /\ Copy!Copied \in 0..SrcLen /\ Copy!Copied < first
  BY <1>1, <1>2, <1>4, CopiedType DEF Flowing
<1>6. /\ stream' \in Seq(1..SrcLen) /\ Len(stream') = L - n
      /\ \A i \in 1..(L - n) : stream'[i] = stream[n + i]
  <2>1. n \in 0..Len(stream)
    BY <1>4
  <2> DEFINE r == SubSeq(stream, n + 1, Len(stream))
  <2>2. /\ r \in Seq(1..SrcLen) /\ Len(r) = L - n
        /\ \A i \in 1..(L - n) : r[i] = stream[n + i]
    BY <1>4, <2>1, Rest
  <2>3. stream' = r
    BY <1>3
  <2> HIDE DEF r
  <2> QED
    BY <2>2, <2>3
<1> HIDE DEF L
<1>7. /\ Len(stream') <= rpos
      /\ \A i \in 1..Len(stream') : stream'[i] = rpos - Len(stream') + i
  <2>1. \A i \in 1..(L - n) : n + i \in 1..L /\ stream[n + i] = rpos - (L - n) + i
    BY <1>3, <1>4, <1>5 DEF L
  <2>2. L - n <= rpos
    BY <1>3, <1>4 DEF L
  <2> QED
    BY <1>6, <2>1, <2>2
<1>8. CASE cpc' = "wait_status" /\ UNCHANGED dst
  <2>1. Copy!Copied' <= rpos - Len(stream')
    <3>1. Copy!Copied' = Copy!Copied
      BY <1>8 DEF Copy!Copied
    <3> QED
      BY <1>3, <1>4, <1>5, <1>6, <3>1 DEF L
  <2>2. CopyInv'
    BY <1>1, <1>2, <1>7, <1>8, <2>1 DEF CopyInv, Flowing
  <2> QED
    BY <1>1, <1>8, <2>2, Stays
<1>9. CASE /\ \E w \in 1..n : dst' = dst \o SubSeq(stream, 1, w)
           /\ UNCHANGED cpc
  <2>1. PICK w \in 1..n : dst' = dst \o SubSeq(stream, 1, w)
    BY <1>9
  <2> DEFINE q == SubSeq(stream, 1, w)
  <2>2. w \in 1..L /\ w \in Nat /\ w <= n /\ n <= L /\ n \in Nat
    BY <1>3, <1>4 DEF L
  <2>3. /\ q \in Seq(1..SrcLen) /\ Len(q) = w
        /\ \A i \in 1..w : q[i] = stream[i]
    <3>1. w \in 0..Len(stream)
      BY <2>2 DEF L
    <3> QED
      BY <1>4, <3>1, Front
  <2>4. dst' = dst \o q
    BY <2>1
  <2> HIDE DEF q
  <2>5. \A i \in 1..w : q[i] = first + i - 1
    <3> HIDE DEF first
    <3>1. \A i \in 1..w : i \in 1..L
      BY <1>4, <2>2
    <3> QED
      BY <1>5, <2>3, <3>1, Zenon
  <2>6. first \in 1..SrcLen /\ first + w - 1 <= rpos /\ first + w - 1 <= SrcLen
    BY <1>4, <2>2
  <2> HIDE DEF first
  <2>7. q = Copy!Blocks(first, w)
    BY <2>3, <2>5, <2>6, IsBlocks
  <2>8. Copy!Write
    <3>1. /\ w \in 1..(SrcLen - Copy!Copied) /\ first \in (Copy!Copied + 1)..SrcLen
          /\ first + w - 1 <= SrcLen
      BY <1>4, <1>5, <2>2, <2>6
    <3>2. dst' = dst \o Copy!Blocks(first, w)
      BY <2>4, <2>7
    <3>3. up' \in {up, FALSE}
      BY <1>1, Zenon
    <3> QED
      BY <1>1, <1>2, <3>1, <3>2, <3>3 DEF Copy!Write
  <2>9. Copy!Copied' = first + w - 1
    <3>1. q # <<>> /\ w \in 1..w
      BY <2>2, <2>3
    <3>2. q \in Seq(0..SrcLen)
      <4>1. 1..SrcLen \subseteq 0..SrcLen
        BY <1>4
      <4> QED
        BY <2>3, <4>1, SeqMonotonic
    <3>3. dst' # <<>> /\ dst'[Len(dst')] = q[Len(q)]
      BY <1>4, <2>4, <3>1, <3>2, LastOfTwo
    <3>4. Copy!Copied' = q[w]
      BY <2>3, <3>3 DEF Copy!Copied
    <3> QED
      BY <2>5, <3>1, <3>4
  <2>10. Flowing'
    <3>1. Copy!Copied' <= rpos - Len(stream')
      BY <1>4, <1>6, <2>2, <2>9 DEF first
    <3> QED
      BY <1>1, <1>7, <3>1 DEF Flowing
  <2>11. CopyInv'
    BY <1>1, <1>2, <1>9, <2>10 DEF CopyInv
  <2> QED
    BY <2>8, <2>11 DEF CopyStep, Copy!Next
<1> QED
  BY <1>3, <1>8, <1>9

LEMMA PullEndCopy ==
  ASSUME TransferInv, CopyInv, PullEnd
  PROVE  CopyInv' /\ CopyStep
<1>1. /\ cpc = "pull" /\ outcome = "none"
      /\ UNCHANGED <<fast, up, dst_file, dst, stream, rpos>>
      /\ \/ cpc' = "wait_status" /\ outcome' = outcome
         \/ cpc' = "ended" /\ outcome' = "error"
  BY DEF CopyInv, PullEnd, End, wires, server, files
<1>2. fast /\ dst_file = "ours" /\ Flowing
  BY <1>1 DEF TransferInv, SlowInv, CopyInv
<1>3. CopyInv'
  <2>1. Flowing'
    BY <1>1, <1>2 DEF Flowing, Copy!Copied
  <2> QED
    BY <1>1, <1>2, <2>1 DEF CopyInv
<1> QED
  BY <1>1, <1>3, Stays, Quits

LEMMA ReceiveStatusCopy ==
  ASSUME TransferInv, CopyInv, ReceiveStatus
  PROVE  CopyInv' /\ CopyStep
<1>1. /\ cpc = "wait_status" /\ cpc' = "ended" /\ outcome = "none"
      /\ outcome' \in {"OK", "error"}
      /\ UNCHANGED <<fast, up, dst_file, dst>>
  BY DEF CopyInv, ReceiveStatus, End, server, files
<1>2. fast /\ dst_file = "ours"
  BY <1>1 DEF TransferInv, SlowInv, CopyInv
<1>3. Copy!Finish
  BY <1>1, <1>2 DEF Copy!Finish
<1>4. CopyInv'
  BY <1>1, <1>2 DEF CopyInv
<1> QED
  BY <1>3, <1>4 DEF CopyStep, Copy!Next

(* The server's part of a slow copy: what a request leaves is a longer     *)
(* prefix of the source, or the same.                                      *)
LEMMA ServeSlowCopy ==
  ASSUME TransferInv, CopyInv, ~fast, Serve \/ ServeNobody
  PROVE  CopyInv' /\ CopyStep
<1>1. /\ TypeOK /\ SlowInv /\ up /\ UNCHANGED <<fast, cpc, outcome>>
      /\ c2s \in Seq(Requests) /\ last \in Requests \cup {NoRequest}
  BY DEF TransferInv, TypeOK, Serve, ServeNobody, client
<1>2. PICK req \in Requests \cup {NoRequest} :
        /\ req # NoRequest => Aligned(req, Len(dst))
        /\ Handle(req)
        /\ cpc = "wait_write" => s2c = <<>> /\ req.op = "WRITE"
  <2>1. CASE Serve
    <3>1. c2s # <<>> /\ Handle(Head(c2s))
      BY <2>1 DEF Serve
    <3>2. Head(c2s) \in Requests /\ Aligned(Head(c2s), Len(dst))
      BY <1>1, <3>1, OneLeft DEF SlowInv
    <3>3. cpc = "wait_write" => s2c = <<>> /\ Head(c2s).op = "WRITE"
      BY <1>1, <3>1 DEF SlowInv, Writing, Answered, Asked
    <3> QED
      BY <3>1, <3>2, <3>3
  <2>2. CASE ServeNobody
    <3>1. cpc = "ended" /\ \E req \in {NoRequest, last} : Handle(req)
      BY <2>2 DEF ServeNobody, ClientGone
    <3> QED
      BY <1>1, <3>1 DEF SlowInv
  <2> QED
    BY <2>1, <2>2
<1>3. Effect(req)
  BY <1>1, <1>2, HandleEffect
<1>4. /\ up' \in BOOLEAN /\ dst' \in Seq(0..SrcLen) /\ IsPrefixOfSrc(dst')
      /\ Len(dst') >= Len(dst) /\ dst \in Seq(0..SrcLen) /\ IsPrefixOfSrc(dst)
      /\ Len(dst) \in Nat /\ Len(dst') \in Nat /\ up \in BOOLEAN
  BY <1>1, <1>3 DEF Effect, TypeOK, SlowInv
<1>5. /\ dst' = dst \/ (dst_file # "foreign" /\ dst_file' = "ours")
      /\ dst_file' = dst_file \/ (dst_file = "absent" /\ dst_file' = "ours")
      /\ cpc # "ended" /\ s2c = <<>> /\ req.op = "WRITE" =>
           s2c' # <<>> /\ (Head(s2c').result >= 0 => dst_file' = "ours")
  BY <1>1, <1>2, HandleFiles
<1>6. CopyInv'
  BY <1>1, <1>2, <1>5 DEF CopyInv, Opened
<1>7. up' \in {up, FALSE}
  BY <1>1, <1>4, Zenon
<1>8. CASE dst' # dst
  <2> DEFINE n == Len(dst') - Len(dst)
             first == Len(dst) + 1
  <2>1. n \in 1..(SrcLen - Len(dst)) /\ dst' = dst \o Copy!Blocks(first, n)
    BY <1>4, <1>8, Follows
  <2>2. Copy!Copied = Len(dst) /\ Len(dst) \in 0..SrcLen /\ SrcLen \in Nat
    BY <1>1, <1>4, PrefixCopied, TransferAssumption
  <2>3. /\ n \in 1..(SrcLen - Copy!Copied) /\ first \in (Copy!Copied + 1)..SrcLen
        /\ first + n - 1 <= SrcLen /\ first = Copy!Copied + 1
    BY <2>1, <2>2
  <2> HIDE DEF n, first
  <2>4. Copy!Write
    BY <1>1, <1>5, <1>7, <1>8, <2>1, <2>3 DEF Copy!Write
  <2> QED
    BY <1>6, <2>4 DEF CopyStep, Copy!Next
<1>9. CASE dst' = dst /\ dst_file' # dst_file
  BY <1>1, <1>5, <1>6, <1>7, <1>9 DEF CopyStep, Copy!Next, Copy!Open
<1>10. CASE dst' = dst /\ dst_file' = dst_file
  BY <1>1, <1>4, <1>6, <1>10, MayStop
<1> QED
  BY <1>8, <1>9, <1>10

(* The server's part of a fast copy: nothing but the data connection.      *)
LEMMA ServeFastCopy ==
  ASSUME TransferInv, CopyInv, fast, Serve \/ ServeNobody
  PROVE  CopyInv' /\ CopyStep
<1>1. /\ TypeOK /\ FastInv /\ up /\ UNCHANGED <<fast, cpc, outcome>>
      /\ c2s \in Seq(Requests) /\ last \in Requests \cup {NoRequest}
      /\ up \in BOOLEAN
  BY DEF TransferInv, TypeOK, Serve, ServeNobody, client
<1>2. PICK req \in Requests \cup {NoRequest} :
        (req # NoRequest => Whole(req)) /\ Handle(req)
  <2>1. CASE Serve
    BY <1>1, <2>1, OneLeft DEF Serve, FastInv
  <2>2. CASE ServeNobody
    <3>1. \E req \in {NoRequest, last} : Handle(req)
      BY <2>2 DEF ServeNobody
    <3> QED
      BY <1>1, <3>1 DEF FastInv
  <2> QED
    BY <2>1, <2>2
<1>3. up' \in BOOLEAN /\ UNCHANGED <<rpos, stream, dst_file, dst>>
  BY <1>1, <1>2, HandleWhole DEF files
<1>4. CopyInv'
  <2>1. Flowing => Flowing'
    BY <1>3 DEF Flowing, Copy!Copied
  <2> QED
    BY <1>1, <1>3, <2>1 DEF CopyInv
<1> QED
  BY <1>1, <1>3, <1>4, MayStop

(* A block that is pushed follows the one pushed before.                   *)
LEMMA PushCopy ==
  ASSUME TransferInv, CopyInv, Push
  PROVE  CopyInv' /\ CopyStep
<1>1. /\ TypeOK /\ up /\ pushing /\ up \in BOOLEAN /\ cpc' = cpc
      /\ UNCHANGED <<fast, dst_file, dst, outcome>>
  BY DEF TransferInv, TypeOK, Push, client, files
<1>2. fast
  BY <1>1 DEF TransferInv, SlowInv
<1>3. PICK n \in 1..(SrcLen - rpos) :
        /\ rpos' = rpos + n
        /\ \/ /\ cpc # "ended" /\ up' = up
              /\ stream' = stream \o SubSeq(Src, rpos + 1, rpos + n)
           \/ cpc = "ended" /\ up' \in BOOLEAN
  BY DEF Push, ClientGone
<1>4. up' \in BOOLEAN
  <2>1. up' = up \/ up' \in BOOLEAN
    BY <1>3
  <2> QED
    BY <1>1, <2>1, Zenon
<1>5. ASSUME cpc # "ended" PROVE Flowing'
  <2> DEFINE b == SubSeq(Src, rpos + 1, rpos + n)
             L == Len(stream)
  <2>1. /\ SrcLen \in Nat /\ rpos \in 0..SrcLen /\ stream \in Seq(1..SrcLen)
        /\ L \in Nat /\ n \in 0..(SrcLen - rpos) /\ n \in Nat
        /\ Copy!Copied \in 0..SrcLen
    BY <1>1, <1>3, TransferAssumption, CopiedType DEF TypeOK
  <2>2. L <= rpos /\ Copy!Copied <= rpos - L /\ \A i \in 1..L : stream[i] = rpos - L + i
    BY <1>2, <1>5 DEF CopyInv, Flowing
  <2>3. b \in Seq(1..SrcLen) /\ Len(b) = n /\ \A i \in 1..n : b[i] = rpos + i
    BY <2>1, Block
  <2>4. stream' = stream \o b
    BY <1>3, <1>5
  <2> HIDE DEF b
  <2>5. /\ Len(stream') = Len(stream) + Len(b)
        /\ \A i \in 1..(Len(stream) + Len(b)) :
             stream'[i] = IF i <= Len(stream) THEN stream[i] ELSE b[i - Len(stream)]
    BY <2>1, <2>3, <2>4, ConcatProperties, Zenon
  <2>6. /\ Len(stream') = L + n
        /\ \A i \in 1..(L + n) : stream'[i] = IF i <= L THEN stream[i] ELSE b[i - L]
    BY <2>3, <2>5, Zenon
  <2> HIDE DEF L
  <2>7. \A i \in 1..(L + n) : stream'[i] = rpos + n - (L + n) + i
    <3> TAKE i \in 1..(L + n)
    <3>1. CASE i <= L
      <4>1. i \in 1..L
        BY <2>1, <3>1
      <4>2. stream'[i] = rpos - L + i
        BY <2>2, <2>6, <3>1, <4>1
      <4> QED
        BY <2>1, <4>2
    <3>2. CASE ~(i <= L)
      <4>1. i - L \in 1..n
        BY <2>1, <3>2
      <4>2. stream'[i] = rpos + (i - L)
        BY <2>3, <2>6, <3>2, <4>1
      <4> QED
        BY <2>1, <4>2
    <3> QED
      BY <3>1, <3>2
  <2>8. Copy!Copied' = Copy!Copied
    BY <1>1 DEF Copy!Copied
  <2>9. rpos' = rpos + n /\ Len(stream') <= rpos' /\ Copy!Copied' <= rpos' - Len(stream')
    BY <1>3, <2>1, <2>2, <2>6, <2>8
  <2>10. \A i \in 1..Len(stream') : stream'[i] = rpos' - Len(stream') + i
    <3> TAKE i \in 1..Len(stream')
    <3>1. i \in 1..(L + n)
      BY <2>6
    <3>2. stream'[i] = rpos + n - (L + n) + i
      BY <2>7, <3>1
    <3>3. Len(stream') = L + n /\ rpos' = rpos + n
      BY <2>6, <2>9
    <3> QED
      BY <2>1, <3>2, <3>3
  <2> QED
    BY <2>9, <2>10 DEF Flowing
<1>6. CopyInv'
  BY <1>1, <1>2, <1>5 DEF CopyInv
<1> QED
  BY <1>1, <1>4, <1>6, MayStop

LEMMA PushEndCopy ==
  ASSUME TransferInv, CopyInv, PushEnd
  PROVE  CopyInv' /\ CopyStep
<1>1. /\ TypeOK /\ up /\ pushing /\ up \in BOOLEAN
      /\ UNCHANGED <<fast, cpc, dst_file, dst, outcome, stream, rpos>>
      /\ Reply(0, <<>>) \/ Reply(-1, <<>>)
  BY DEF TransferInv, TypeOK, PushEnd, client, files
<1>2. fast
  BY <1>1 DEF TransferInv, SlowInv
<1>3. up' \in BOOLEAN
  <2>1. up' = up \/ up' \in BOOLEAN
    BY <1>1 DEF Reply
  <2> QED
    BY <1>1, <2>1, Zenon
<1>4. CopyInv'
  <2>1. Flowing => Flowing'
    BY <1>1 DEF Flowing, Copy!Copied
  <2> QED
    BY <1>1, <1>2, <2>1 DEF CopyInv
<1> QED
  BY <1>1, <1>3, <1>4, MayStop

LEMMA DiesCopy ==
  ASSUME TransferInv, CopyInv, ClientDies \/ ServerDies
  PROVE  CopyInv' /\ CopyStep
<1>1. CASE ClientDies
  <2>1. /\ outcome = "none" /\ outcome' = "killed" /\ cpc' = "ended"
        /\ UNCHANGED <<fast, up, dst_file, dst>>
    BY <1>1 DEF CopyInv, ClientDies, End, server, files
  <2> QED
    BY <2>1, Quits DEF CopyInv, Opened
<1>2. CASE ServerDies
  <2>1. /\ up /\ up' = FALSE /\ stream' \in {stream, <<>>} /\ s2c' \in {s2c, <<>>}
        /\ UNCHANGED <<fast, cpc, outcome, rpos, dst_file, dst>>
    BY <1>2 DEF ServerDies, client, files
  <2>2. Flowing => Flowing'
    <3>1. Copy!Copied' = Copy!Copied
      BY <2>1 DEF Copy!Copied
    <3>2. CASE stream' = stream
      BY <2>1, <3>1, <3>2 DEF Flowing
    <3>3. CASE stream' = <<>>
      <4>1. /\ Copy!Copied \in 0..SrcLen /\ rpos \in 0..SrcLen /\ SrcLen \in Nat
            /\ Len(stream) \in Nat
        BY CopiedType, TransferAssumption DEF TransferInv, TypeOK
      <4>2. Len(<<>>) = 0 /\ \A i \in 1..0 : FALSE
        OBVIOUS
      <4> QED
        BY <2>1, <3>1, <3>3, <4>1, <4>2 DEF Flowing
    <3> QED
      BY <2>1, <3>2, <3>3
  <2>3. CopyInv'
    BY <2>1, <2>2 DEF CopyInv, Opened
  <2>4. up' \in BOOLEAN /\ up \in BOOLEAN
    BY <2>1 DEF TransferInv, TypeOK
  <2> QED
    BY <2>1, <2>3, <2>4, MayStop
<1> QED
  BY <1>1, <1>2

LEMMA CopyInit == Init => Copy!Init /\ CopyInv
<1> SUFFICES ASSUME Init PROVE Copy!Init /\ CopyInv
  OBVIOUS
<1>1. Copy!Init
  BY DEF Init, Copy!Init
<1>2. Flowing
  <2>1. Len(stream) = 0 /\ rpos = 0 /\ Copy!Copied = 0 /\ \A i \in 1..0 : FALSE
    BY DEF Init, Copy!Copied
  <2> QED
    BY <2>1 DEF Flowing
<1> QED
  BY <1>1, <1>2 DEF Init, CopyInv, Opened

LEMMA CopyNext ==
  ASSUME TransferInv, CopyInv, [Next]_vars
  PROVE  CopyInv' /\ CopyStep
<1>1. CASE ClientStep
  BY <1>1, SendReadCopy, ReceiveReadCopy, SendWriteCopy, ReceiveWriteCopy,
     SendReadAllCopy, PullCopy, PullEndCopy, ReceiveStatusCopy DEF ClientStep
<1>2. CASE ServerStep
  BY <1>2, ServeSlowCopy, ServeFastCopy, PushCopy, PushEndCopy DEF ServerStep
<1>3. CASE ClientDies \/ ServerDies
  BY <1>3, DiesCopy
<1>4. CASE UNCHANGED vars
  <2>1. UNCHANGED <<fast, cpc, outcome, s2c, stream, up, rpos, dst_file, dst>>
    BY <1>4 DEF vars, client, wires, server, files
  <2>2. CopyInv'
    BY <2>1 DEF CopyInv, Opened, Flowing, Copy!Copied
  <2> QED
    BY <2>1, <2>2, Stays
<1> QED
  BY <1>1, <1>2, <1>3, <1>4 DEF Next

(* Whatever is cut short, lost or handled twice and whoever is killed, the *)
(* two processes do to the destination what FileCopy says, for a file of   *)
(* any length (client.c:176-237, server.c:251-326).                        *)
THEOREM TransferImplementsFileCopy == Spec => ImplementsFileCopy
<1>1. Init => Copy!Init /\ CopyInv
  BY CopyInit
<1>2. TransferInv /\ CopyInv /\ [Next]_vars => CopyInv' /\ CopyStep
  BY CopyNext
<1>3. TransferInv /\ CopyInv /\ [Next]_vars => CopyInv' /\ [Copy!Next]_(Copy!vars)
  BY <1>2 DEF CopyStep
<1> QED
  BY <1>1, <1>3, Invariance, PTL DEF Spec, Copy!Spec, ImplementsFileCopy

----------------------------------------------------------------------------
(* What follows from FileCopy alone.                                       *)
OrderInv ==
  /\ dst \in Seq(1..SrcLen)
  /\ Copy!InOrder

LEMMA OrderNext ==
  ASSUME OrderInv, CopyStep
  PROVE  OrderInv'
<1>1. CASE Copy!Write
  <2>1. PICK n \in 1..(SrcLen - Copy!Copied), first \in (Copy!Copied + 1)..SrcLen :
          /\ first + n - 1 <= SrcLen
          /\ dst' = dst \o Copy!Blocks(first, n)
    BY <1>1 DEF Copy!Write
  <2> DEFINE b == Copy!Blocks(first, n)
             L == Len(dst)
  <2>2. SrcLen \in Nat /\ L \in Nat /\ dst \in Seq(1..SrcLen)
    BY TransferAssumption DEF OrderInv
  <2>3. /\ Copy!Copied \in Nat
        /\ \A i \in 1..L : dst[i] \in 1..SrcLen /\ dst[i] <= Copy!Copied
    <3>1. CASE dst = <<>>
      BY <3>1 DEF Copy!Copied
    <3>2. CASE dst # <<>>
      <4>1. L \in 1..L /\ Copy!Copied = dst[L]
        BY <2>2, <3>2 DEF Copy!Copied
      <4>2. \A i \in 1..L : dst[i] \in 1..SrcLen
        BY <2>2
      <4>3. \A i \in 1..L : i < L => dst[i] < dst[L]
        BY <4>1 DEF OrderInv, Copy!InOrder
      <4>4. \A i \in 1..L : i = L \/ i < L
        BY <2>2
      <4> QED
        BY <2>2, <4>1, <4>2, <4>3, <4>4
    <3> QED
      BY <3>1, <3>2
  <2>4. first \in 1..SrcLen /\ n \in Nat /\ first > Copy!Copied
    BY <2>1, <2>2, <2>3
  <2>5. /\ b \in Seq(1..SrcLen) /\ Len(b) = n
        /\ \A i \in 1..n : b[i] = first + i - 1
    BY <2>1, <2>4, BlocksFacts
  <2>6. dst' = dst \o b
    BY <2>1
  <2> HIDE DEF b
  <2>7. /\ dst' \in Seq(1..SrcLen) /\ Len(dst') = Len(dst) + Len(b)
        /\ \A i \in 1..(Len(dst) + Len(b)) :
             dst'[i] = IF i <= Len(dst) THEN dst[i] ELSE b[i - Len(dst)]
    BY <2>2, <2>5, <2>6, ConcatProperties, Zenon
  <2>8. /\ Len(dst') = L + n
        /\ \A i \in 1..(L + n) : dst'[i] = IF i <= L THEN dst[i] ELSE b[i - L]
    BY <2>5, <2>7, Zenon
  <2>9. ASSUME NEW i \in 1..(L + n), NEW j \in 1..(L + n), i < j
        PROVE  dst'[i] < dst'[j]
    <3> HIDE DEF L
    <3>1. CASE j <= L
      <4>1. i \in 1..L /\ j \in 1..L /\ i <= L
        BY <2>2, <2>9, <3>1
      <4>2. dst[i] < dst[j]
        BY <2>9, <4>1 DEF OrderInv, Copy!InOrder, L
      <4> QED
        BY <2>8, <2>9, <3>1, <4>1, <4>2
    <3>2. CASE ~(j <= L)
      <4>1. j - L \in 1..n /\ dst'[j] = b[j - L]
        BY <2>2, <2>4, <2>8, <3>2
      <4>2. dst'[j] = first + (j - L) - 1
        BY <2>5, <4>1
      <4>3. CASE i <= L
        <5>1. i \in 1..L /\ dst'[i] = dst[i]
          BY <2>2, <2>8, <4>3
        <5>2. dst[i] \in 1..SrcLen /\ dst[i] <= Copy!Copied
          BY <2>3, <5>1
        <5> QED
          BY <2>2, <2>3, <2>4, <4>1, <4>2, <5>1, <5>2
      <4>4. CASE ~(i <= L)
        <5>1. i - L \in 1..n /\ dst'[i] = b[i - L]
          BY <2>2, <2>4, <2>8, <4>4
        <5>2. dst'[i] = first + (i - L) - 1
          BY <2>5, <5>1
        <5> QED
          BY <2>2, <2>4, <2>9, <4>2, <5>2
      <4> QED
        BY <4>3, <4>4
    <3> QED
      BY <3>1, <3>2
  <2>10. Copy!InOrder'
    BY <2>8, <2>9 DEF Copy!InOrder
  <2> QED
    BY <2>7, <2>10 DEF OrderInv
<1>2. CASE UNCHANGED dst
  BY <1>2 DEF OrderInv, Copy!InOrder
<1> QED
  BY <1>1, <1>2 DEF CopyStep, Copy!Next, Copy!Open, Copy!Finish,
     Copy!ServerStops, Copy!vars

(* No block of the source is written twice, or after one that follows it,  *)
(* in either mode (client.c:176-237, server.c:251-326).                    *)
THEOREM NeverOutOfOrder == Spec => []Copy!InOrder
<1>1. Copy!Init => OrderInv
  <2> SUFFICES ASSUME Copy!Init PROVE OrderInv
    OBVIOUS
  <2>1. dst = <<>> /\ Len(<<>>) = 0 /\ \A i \in 1..0 : FALSE
    BY DEF Copy!Init
  <2> QED
    BY <2>1 DEF OrderInv, Copy!InOrder
<1>2. OrderInv /\ [Copy!Next]_(Copy!vars) => OrderInv'
  BY OrderNext DEF CopyStep
<1>3. OrderInv => Copy!InOrder
  BY DEF OrderInv
<1>4. Copy!Spec => []Copy!InOrder
  BY <1>1, <1>2, <1>3, PTL DEF Copy!Spec
<1> QED
  BY <1>4, TransferImplementsFileCopy DEF ImplementsFileCopy
=============================================================================
