----------------------------- MODULE CubicProofs ----------------------------
(***************************************************************************)
(* For every value of the constants: Cubic keeps its types, always divides *)
(* by a rate of two or more, measures time from the past and pays for its  *)
(* growth; and with the constants of the file (CubicExact) its root is     *)
(* close and its curve fits.                                               *)
(***************************************************************************)
EXTENDS Cubic, CubicExact, CubicRootProofs

(* The types, what bictcp_update needs to keep them, and the floor under   *)
(* the rate once one has been calculated.                                  *)
Inv ==
  /\ TypeOK
  /\ ca.last_max_cwnd <= Clamp
  /\ RateIsSafe

LEMMA Constants ==
  /\ Clamp \in Nat /\ Clamp >= 2
  /\ UsecPerJiffy \in Nat /\ UsecPerJiffy >= 1
  /\ UsecPerSec \in Nat /\ UsecPerSec >= 1
  /\ BicHz \in Nat /\ CubeRttScale \in Nat /\ FriendScale \in Nat
  /\ CubeDiv \in Nat /\ CubeDiv >= 1
  /\ U32 \in Nat /\ U32 >= 1
  /\ Beta \in Nat /\ Beta <= BetaScale /\ BetaScale \in Nat /\ BetaScale >= 1
  /\ InfRtt \in Nat /\ InfRtt >= 1
  /\ Rtts \subseteq 0..InfRtt
  /\ DelayMin \in Nat /\ DelayMax \in Nat
BY TcpSockAssumption, CubicAssumption

(* The fields of ca that the growth function keeps.                        *)
GrowthOK(c) ==
  /\ c \in BicTcp
  /\ c.last_max_cwnd <= Clamp

LEMMA JiffiesNat == TypeOK => jiffies \in Nat
<1> SUFFICES ASSUME TypeOK PROVE now \div UsecPerJiffy \in Nat
  BY DEF jiffies
<1>1. now \in Nat
  BY DEF TypeOK
<1> QED
  BY <1>1, DivFacts, Constants

LEMMA InitInv == Init => Inv
<1> SUFFICES ASSUME Init PROVE Inv
  OBVIOUS
<1>1. SockTypeOK
  BY TcpSockAssumption DEF Init, SockInit, SockTypeOK
<1>2. now \in Nat /\ lsndtime \in Nat
  BY Constants DEF Init
<1>3. ca \in BicTcp /\ ca.last_max_cwnd = 0 /\ ca.last_cwnd = 0
  BY <1>2, Constants DEF Init, NewConnection, BicTcp
<1> QED
  BY <1>1, <1>2, <1>3, Constants DEF Inv, TypeOK, RateIsSafe

----------------------------------------------------------------------------
(* The three ways through bictcp_update.                                   *)
(* The argument of cubic_root is the product of two 32-bit numbers.        *)
LEMMA ArgumentFits ==
  ASSUME NEW n \in 1..Clamp
  PROVE  /\ CubeFactor \in Nat /\ CubeFactor * n \in Nat
         /\ CubeFactor * n < Bit[64]
<1> DEFINE f == CubeFactor
           w == Bit[32]
<1>1. f \in Nat /\ n \in Nat /\ Clamp \in Nat
  BY DivBounds, Constants, CubicAssumption DEF CubeFactor
<1>2. ASSUME NEW m \in Nat, m \div Bit[16] < Bit[16] PROVE m < w
  <2>1. Bit[16] = 65536 /\ w = 4294967296
    BY BitValues
  <2> DEFINE q == m \div 65536
  <2>2. q \in Nat /\ m < q * 65536 + 65536 /\ q < 65536
    BY <1>2, <2>1, DivBounds
  <2> HIDE DEF q
  <2> QED
    BY <2>1, <2>2
<1>3. f < w /\ Clamp < w /\ n < w /\ w \in Nat
  <2>1. f < w /\ Clamp < w
    BY <1>1, <1>2, CubicRootAssumption
  <2>2. w \in Nat
    BY BitPositive
  <2> HIDE DEF f, w
  <2> QED
    BY <1>1, <2>1, <2>2
<1>4. Bit[64] = w * w
  <2>1. Bit[32 + 32] = Bit[32] * Bit[32]
    BY BitSum
  <2> QED
    BY <2>1
<1> HIDE DEF f, w
<1>5. f * n \in Nat /\ f * n < w * w
  <2>1. f * n <= f * w /\ f * n \in Nat /\ f * w \in Nat
    BY <1>1, <1>3, MulMono
  <2>2. f * w < w * w
    BY <1>1, <1>3
  <2> QED
    BY <1>3, <2>1, <2>2
<1> QED
  BY <1>1, <1>4, <1>5 DEF f

LEMMA RootOfDistance ==
  ASSUME NEW n \in 1..Clamp
  PROVE  cubic_root(CubeFactor * n) \in Nat
<1> DEFINE a == CubeFactor * n
<1>1. a \in Nat /\ a < Bit[64]
  BY ArgumentFits
<1> HIDE DEF a
<1>2. cubic_root(a) \in Nat
  BY <1>1, RootType
<1> QED
  BY <1>2 DEF a

LEMMA StartEpochType ==
  ASSUME TypeOK, NEW c, GrowthOK(c), NEW win \in 1..Clamp, NEW acked \in Nat
  PROVE  GrowthOK(StartEpoch(c, win, acked))
<1> DEFINE K == IF c.last_max_cwnd <= win THEN 0
                ELSE cubic_root(CubeFactor * (c.last_max_cwnd - win))
<1>1. c.last_max_cwnd \in Nat /\ c.last_max_cwnd <= Clamp /\ c \in BicTcp
  BY DEF GrowthOK, BicTcp
<1>2. K \in Nat
  <2>1. CASE c.last_max_cwnd <= win
    BY <2>1
  <2>2. CASE ~(c.last_max_cwnd <= win)
    <3>1. c.last_max_cwnd - win \in 1..Clamp
      BY <1>1, <2>2, Constants
    <3> QED
      BY <2>2, <3>1, RootOfDistance
  <2> QED
    BY <2>1, <2>2
<1> HIDE DEF K
<1>3. MaxOf(c.last_max_cwnd, win) \in Nat
  BY <1>1 DEF MaxOf
<1>4. jiffies \in Nat /\ win \in Nat
  BY JiffiesNat, Constants
<1>5. StartEpoch(c, win, acked) =
        [c EXCEPT !.epoch_start = jiffies, !.ack_cnt = acked,
                  !.tcp_cwnd = win, !.bic_K = K,
                  !.bic_origin_point = MaxOf(c.last_max_cwnd, win)]
  BY DEF StartEpoch, K
<1> DEFINE e == [c EXCEPT !.epoch_start = jiffies, !.ack_cnt = acked,
                          !.tcp_cwnd = win, !.bic_K = K,
                          !.bic_origin_point = MaxOf(c.last_max_cwnd, win)]
<1>6. e \in BicTcp
  BY <1>1, <1>2, <1>3, <1>4 DEF BicTcp
<1>7. e.last_max_cwnd = c.last_max_cwnd
  BY <1>1 DEF BicTcp
<1> HIDE DEF e
<1> QED
  BY <1>1, <1>5, <1>6, <1>7 DEF GrowthOK, e

LEMMA TargetInt ==
  ASSUME TypeOK, NEW c, GrowthOK(c)
  PROVE  bic_target(c) \in Nat
<1> DEFINE x == ((jiffies - c.epoch_start) * UsecPerJiffy + c.delay_min) * BicHz
           t     == Elapsed(c)
           offs  == IF t < c.bic_K THEN c.bic_K - t ELSE t - c.bic_K
           cube  == CubeRttScale * offs * offs * offs
           delta == (cube \div CubeDiv) % U32
<1>1. /\ c.epoch_start \in Nat /\ c.delay_min \in Nat /\ c.bic_K \in Nat
      /\ c.bic_origin_point \in Nat /\ jiffies \in Nat
  BY JiffiesNat DEF GrowthOK, BicTcp
<1>2. x \in Int
  <2>1. (jiffies - c.epoch_start) * UsecPerJiffy \in Int
    BY <1>1, Constants
  <2> QED
    BY <1>1, <2>1, Constants
<1> HIDE DEF x
<1>3. t \in Int
  BY <1>2, Constants DEF Elapsed, x
<1> HIDE DEF t
<1>4. offs \in Int
  BY <1>1, <1>3
<1> HIDE DEF offs
<1>5. cube \in Int
  BY <1>4, Constants
<1> HIDE DEF cube
<1>6. delta \in Int
  BY <1>5, Constants
<1> HIDE DEF delta
<1>7. bic_target(c) = IF t < c.bic_K THEN (c.bic_origin_point - delta) % U32
                      ELSE (c.bic_origin_point + delta) % U32
  BY DEF bic_target, delta, cube, offs, t
<1> QED
  BY <1>1, <1>6, <1>7, Constants

(* Below the origin of an epoch that started D packets under it, the curve *)
(* lies at most 16% deeper than D.  So bic_target does not wrap as long as *)
(* the epoch starts from 14% of the last maximum or more; a reduction      *)
(* leaves 70% (bpfcubic.bpf.c:316-318, 341-350).  With the constants of    *)
(* the file CubeFactor is beyond 2^31.                                     *)
THEOREM CurveStaysNearStart ==
  ASSUME TypeOK, Bit[26] <= CubeFactor, Clamp < U32,
         NEW c \in BicTcp, NEW W \in 1..Clamp, NEW D \in 1..W,
         c.bic_origin_point = W, c.bic_K = cubic_root(CubeFactor * D),
         c.epoch_start <= jiffies, Elapsed(c) < c.bic_K, 9261 * D <= 8000 * W
  PROVE  bic_target(c) \in 0..W /\ 8000 * (W - bic_target(c)) <= 9261 * D
<1> DEFINE F == CubeFactor
           K == c.bic_K
           t == Elapsed(c)
           o == K - t
           cube == CubeRttScale * o * o * o
           d == cube \div CubeDiv
<1>1. /\ W \in Nat /\ W < U32 /\ D \in 1..Clamp /\ D \in Nat /\ D >= 1
      /\ CubeRttScale \in Nat /\ CubeRttScale >= 1
      /\ CubeDiv \in Nat /\ CubeDiv >= 1 /\ U32 \in Nat
  BY Constants, CubicAssumption
<1>2. F \in Nat /\ F * D \in Nat /\ F * D < Bit[64] /\ F * CubeRttScale <= CubeDiv
  BY <1>1, ArgumentFits, DivBounds DEF CubeFactor
<1>3. Bit[26] <= F * D
  <2>1. Bit[26] \in Nat /\ Bit[26] <= F
    BY BitPositive
  <2> HIDE DEF F
  <2>2. F * 1 <= F * D
    BY <1>1, <1>2
  <2> QED
    BY <1>2, <2>1, <2>2
<1>4. K \in Nat /\ 8000 * Cubed(K) <= 9261 * (F * D)
  <2>1. K = cubic_root(F * D) /\ K \in Nat
    BY DEF BicTcp
  <2> DEFINE a == F * D
  <2>2. a \in Nat /\ Bit[26] <= a /\ a < Bit[64] /\ K = cubic_root(a)
    BY <1>2, <1>3, <2>1
  <2> HIDE DEF a
  <2>3. 8000 * Cubed(K) <= 9261 * a
    BY <2>2, RootWithinFivePercent
  <2> QED
    BY <2>1, <2>3 DEF a
<1>5. t \in Nat /\ t < K
  <2> DEFINE x == ((jiffies - c.epoch_start) * UsecPerJiffy + c.delay_min) * BicHz
  <2>1. jiffies \in Nat /\ c.epoch_start \in Nat /\ c.delay_min \in Nat
    BY JiffiesNat DEF BicTcp
  <2>2. x \in Nat
    <3>1. jiffies - c.epoch_start \in Nat
      BY <2>1
    <3>2. (jiffies - c.epoch_start) * UsecPerJiffy \in Nat
      BY <3>1, Constants
    <3>3. (jiffies - c.epoch_start) * UsecPerJiffy + c.delay_min \in Nat
      BY <2>1, <3>2
    <3> QED
      BY <3>3, Constants
  <2> HIDE DEF x
  <2>3. x \div UsecPerSec \in Nat
    BY <2>2, Constants, DivBounds
  <2> QED
    BY <2>3 DEF Elapsed, x
<1> HIDE DEF F, K, t
<1>6. o \in Nat /\ Cubed(o) <= Cubed(K) /\ Cubed(o) \in Nat /\ Cubed(K) \in Nat
  <2>1. o \in Nat /\ o <= K
    BY <1>4, <1>5
  <2> HIDE DEF o
  <2>2. K \in Nat
    BY <1>4
  <2>3. Cubed(o) <= Cubed(K)
    BY <2>1, <2>2, CubeFacts
  <2>4. Cubed(o) \in Nat /\ Cubed(K) \in Nat
    BY <2>1, <2>2, CubeNat
  <2> QED
    BY <2>1, <2>3, <2>4
<1>7. cube \in Nat /\ cube = CubeRttScale * Cubed(o)
  <2> HIDE DEF o
  <2> QED
    BY <1>1, <1>6 DEF Cubed
<1> HIDE DEF cube
<1>8. d \in Nat /\ d * CubeDiv <= cube
  BY <1>1, <1>7, DivBounds
<1> HIDE DEF d
<1>9. 8000 * d <= 9261 * D
  <2> DEFINE k == Cubed(K)
             S == CubeRttScale
  <2>1. cube <= S * k
    BY <1>1, <1>6, <1>7
  <2>2. S * (8000 * k) <= S * (9261 * (F * D))
    BY <1>1, <1>2, <1>4, <1>6
  <2>3. (F * S) * (9261 * D) <= CubeDiv * (9261 * D)
    BY <1>1, <1>2
  <2>4. (8000 * d) * CubeDiv <= (9261 * D) * CubeDiv
    <3> HIDE DEF k, S
    <3> DEFINE m == d * CubeDiv
               n == S * k
               u == (F * S) * (9261 * D)
               w == CubeDiv * (9261 * D)
    <3>1. S \in Nat /\ k \in Nat
      BY <1>1, <1>6 DEF S, k
    <3>2. m \in Nat /\ n \in Nat /\ u \in Nat /\ w \in Nat
      BY <1>1, <1>2, <1>8, <3>1
    <3>3. m <= n /\ 8000 * n <= u /\ u <= w
      <4>1. S * (8000 * k) = 8000 * n /\ S * (9261 * (F * D)) = u
        BY <1>1, <1>2, <3>1
      <4> QED
        BY <1>7, <1>8, <2>1, <2>2, <2>3, <3>2, <4>1
    <3>4. (8000 * d) * CubeDiv = 8000 * m /\ (9261 * D) * CubeDiv = w
      BY <1>1, <1>8
    <3> HIDE DEF m, n, u, w
    <3> QED
      BY <3>2, <3>3, <3>4
  <2> QED
    BY <1>1, <1>8, <2>4, CancelFactor
<1>10. d <= W
  BY <1>1, <1>8, <1>9
<1>11. bic_target(c) = (W - (d % U32)) % U32
  BY <1>5 DEF bic_target, d, cube, o, t, K
<1>12. bic_target(c) = W - d
  <2>1. d % U32 = d /\ W - d \in 0..W /\ (W - d) % U32 = W - d
    BY <1>1, <1>8, <1>10
  <2> QED
    BY <1>11, <2>1
<1> QED
  BY <1>1, <1>8, <1>9, <1>10, <1>12

LEMMA RateType ==
  ASSUME TypeOK, NEW c, GrowthOK(c), NEW win \in 1..Clamp
  PROVE  CubicRate(c, win) \in Nat
<1> DEFINE target == bic_target(c)
           rate   == IF target > win THEN win \div (target - win)
                     ELSE 100 * win
<1>1. target \in Nat
  BY TargetInt
<1> HIDE DEF target
<1>2. rate \in Nat
  <2>1. win \in Nat
    BY Constants
  <2>2. CASE target > win
    <3>1. target - win \in Nat /\ target - win >= 1
      BY <1>1, <2>1, <2>2
    <3> QED
      BY <2>1, <2>2, <3>1, DivFacts
  <2>3. CASE ~(target > win)
    BY <2>1, <2>3
  <2> QED
    BY <2>2, <2>3
<1>3. CubicRate(c, win) = IF c.last_max_cwnd = 0 THEN MinOf(rate, 20) ELSE rate
  BY DEF CubicRate, target
<1> HIDE DEF rate
<1> QED
  BY <1>2, <1>3 DEF MinOf

LEMMA RecalculateType ==
  ASSUME TypeOK, NEW c, GrowthOK(c), NEW win \in 1..Clamp, NEW acked \in Nat
  PROVE  GrowthOK(Recalculate(c, win, acked))
<1> DEFINE c1 == [c EXCEPT !.last_cwnd = win, !.last_time = jiffies]
           c2 == IF c1.epoch_start = 0 THEN StartEpoch(c1, win, acked) ELSE c1
<1>1. GrowthOK(c1)
  <2>1. jiffies \in Nat /\ win \in Nat
    BY JiffiesNat, Constants
  <2>2. c1 \in BicTcp
    BY <2>1 DEF GrowthOK, BicTcp
  <2>3. c1.last_max_cwnd = c.last_max_cwnd
    BY DEF GrowthOK, BicTcp
  <2> QED
    BY <2>2, <2>3 DEF GrowthOK
<1> HIDE DEF c1
<1>2. GrowthOK(c2)
  BY <1>1, StartEpochType
<1> HIDE DEF c2
<1>3. Recalculate(c, win, acked) = [c2 EXCEPT !.cnt = CubicRate(c2, win)]
  BY DEF Recalculate, c1, c2
<1> QED
  BY <1>2, <1>3, RateType DEF GrowthOK, BicTcp

LEMMA FriendlyType ==
  ASSUME NEW c, GrowthOK(c), NEW win \in 1..Clamp
  PROVE  /\ GrowthOK(TcpFriendly(c, win))
         /\ TcpFriendly(c, win).cnt >= 2
<1> DEFINE delta == (win * FriendScale) \div 8
           n     == IF delta > 0 /\ c.ack_cnt > delta THEN c.ack_cnt \div delta
                    ELSE 0
           tcp   == c.tcp_cwnd + n
           rate  == IF tcp > win THEN MinOf(c.cnt, win \div (tcp - win))
                    ELSE c.cnt
<1>1. c.ack_cnt \in Nat /\ c.tcp_cwnd \in Nat /\ c.cnt \in Nat
  BY DEF GrowthOK, BicTcp
<1>2. delta \in Nat
  <2>1. win \in Nat
    BY Constants
  <2>2. win * FriendScale \in Nat
    BY <2>1, Constants, MulMono
  <2> QED
    BY <2>2, DivFacts
<1> HIDE DEF delta
<1>3. n \in Nat /\ c.ack_cnt - n * delta \in Nat
  <2>1. CASE delta > 0 /\ c.ack_cnt > delta
    <3>1. n = c.ack_cnt \div delta /\ delta >= 1
      BY <1>2, <2>1
    <3>2. /\ c.ack_cnt \div delta \in Nat
          /\ c.ack_cnt - (c.ack_cnt \div delta) * delta \in 0..(delta - 1)
      BY <1>1, <1>2, <3>1, DivFacts
    <3> QED
      BY <1>2, <3>1, <3>2
  <2>2. CASE ~(delta > 0 /\ c.ack_cnt > delta)
    BY <1>1, <1>2, <2>2
  <2> QED
    BY <2>1, <2>2
<1> HIDE DEF n
<1>4. tcp \in Nat
  BY <1>1, <1>3
<1> HIDE DEF tcp
<1>5. rate \in Nat
  <2>1. win \in Nat
    BY Constants
  <2>2. CASE tcp > win
    <3>1. tcp - win \in Nat /\ tcp - win >= 1
      BY <1>4, <2>1, <2>2
    <3>2. win \div (tcp - win) \in Nat
      BY <2>1, <3>1, DivFacts
    <3> QED
      BY <1>1, <2>2, <3>2 DEF MinOf
  <2>3. CASE ~(tcp > win)
    BY <1>1, <2>3
  <2> QED
    BY <2>2, <2>3
<1> HIDE DEF rate
<1>6. rate_floor(rate) \in Nat /\ rate_floor(rate) >= 2
  BY <1>5 DEF rate_floor, MaxOf
<1>7. TcpFriendly(c, win) = [c EXCEPT !.ack_cnt = c.ack_cnt - n * delta,
                                       !.tcp_cwnd = tcp,
                                       !.cnt = rate_floor(rate)]
  BY DEF TcpFriendly, delta, n, tcp, rate
<1> QED
  BY <1>3, <1>4, <1>6, <1>7 DEF GrowthOK, BicTcp

LEMMA UpdateType ==
  ASSUME TypeOK, NEW c, GrowthOK(c), c.last_cwnd # 0 => c.cnt >= 2,
         NEW win \in 1..Clamp, NEW acked \in Nat
  PROVE  /\ GrowthOK(bictcp_update(c, win, acked))
         /\ bictcp_update(c, win, acked).cnt >= 2
<1> DEFINE d == [c EXCEPT !.ack_cnt = @ + acked]
<1>1. GrowthOK(d) /\ d.last_cwnd = c.last_cwnd /\ d.cnt = c.cnt
  BY DEF GrowthOK, BicTcp
<1>2. bictcp_update(c, win, acked) =
        IF StillValid(d, win) THEN d
        ELSE IF CalculatedThisJiffy(d) THEN TcpFriendly(d, win)
        ELSE TcpFriendly(Recalculate(d, win, acked), win)
  BY DEF bictcp_update
<1> HIDE DEF d
<1>3. CASE StillValid(d, win)
  BY <1>1, <1>2, <1>3 DEF StillValid
<1>4. CASE ~StillValid(d, win)
  BY <1>1, <1>2, <1>4, RecalculateType, FriendlyType
<1> QED
  BY <1>3, <1>4

----------------------------------------------------------------------------
(* One lemma per step.                                                     *)
LEMMA SendInv ==
  ASSUME Inv, NEW idle \in BOOLEAN, Send(idle)
  PROVE  Inv'
<1>1. jiffies \in Nat /\ lsndtime \in Nat /\ ca \in BicTcp
  BY JiffiesNat DEF Inv, TypeOK
<1>2. CASE ~(idle /\ ca.epoch_start # 0 /\ jiffies > lsndtime)
  BY <1>1, <1>2 DEF Send, Inv, TypeOK, SockTypeOK, RateIsSafe, sockVars
<1>3. CASE idle /\ ca.epoch_start # 0 /\ jiffies > lsndtime
  <2>1. MinOf(ca.epoch_start + (jiffies - lsndtime), jiffies) \in Nat
    BY <1>1, <1>3 DEF MinOf, BicTcp
  <2>2. ca' = [ca EXCEPT !.epoch_start =
                           MinOf(ca.epoch_start + (jiffies - lsndtime), jiffies)]
    BY <1>3 DEF Send
  <2>3. ca' \in BicTcp
    BY <1>1, <2>1, <2>2 DEF BicTcp
  <2>4. /\ ca'.last_max_cwnd = ca.last_max_cwnd
        /\ ca'.last_cwnd = ca.last_cwnd /\ ca'.cnt = ca.cnt
    BY <1>1, <2>2 DEF BicTcp
  <2> QED
    BY <1>1, <2>3, <2>4
    DEF Send, Inv, TypeOK, SockTypeOK, RateIsSafe, sockVars
<1> QED
  BY <1>2, <1>3

(* What a sample does to ca.                                               *)
LEMMA SampleFacts ==
  ASSUME ca \in BicTcp, now \in Nat, NEW rtt_us \in Rtts,
         NEW ack_delay \in AckDelays, NEW paced \in BOOLEAN,
         PktsAcked(rtt_us, ack_delay, paced)
  PROVE  /\ ca' \in BicTcp
         /\ ca'.last_max_cwnd = ca.last_max_cwnd
         /\ ca'.last_cwnd = ca.last_cwnd /\ ca'.cnt = ca.cnt
         /\ ca'.epoch_start = ca.epoch_start /\ ca'.last_time = ca.last_time
         /\ \E delay \in 1..InfRtt :
              /\ ca'.delay_min = IF ca.delay_min = 0 THEN delay
                                 ELSE MinOf(ca.delay_min, delay)
              /\ \/ ca'.curr_rtt = ca.curr_rtt
                 \/ ca'.curr_rtt = MinOf(ca.curr_rtt, delay)
<1> DEFINE delay == MaxOf(rtt_us, 1)
           low   == IF ca.delay_min = 0 THEN delay ELSE MinOf(ca.delay_min, delay)
           c     == [ca EXCEPT !.delay_min = low]
           samp  == c.sample_cnt < MinSamples
           last  == IF TrainGoesOn(c) THEN now ELSE c.last_ack
           curr  == IF samp THEN MinOf(c.curr_rtt, delay) ELSE c.curr_rtt
           cnt   == IF samp THEN c.sample_cnt + 1 ELSE c.sample_cnt
           found == AckTrainFound(c, ack_delay, paced) \/ DelayFound(c)
           c1    == [c EXCEPT !.last_ack = last, !.curr_rtt = curr,
                              !.sample_cnt = cnt, !.found = found]
<1>1. delay \in 1..InfRtt /\ delay \in Nat
  BY Constants DEF MaxOf
<1> HIDE DEF delay
<1>2. low \in Nat
  BY <1>1 DEF MinOf, BicTcp
<1>3. ca' = IF Watched(c) THEN c1 ELSE c
  BY DEF PktsAcked, hystart_update, delay
<1> HIDE DEF low
<1>4. /\ c \in BicTcp /\ c.delay_min = low /\ c.curr_rtt = ca.curr_rtt
      /\ c.last_max_cwnd = ca.last_max_cwnd
      /\ c.last_cwnd = ca.last_cwnd /\ c.cnt = ca.cnt
      /\ c.epoch_start = ca.epoch_start /\ c.last_time = ca.last_time
  BY <1>2 DEF BicTcp
<1> HIDE DEF c
<1>5. last \in Nat /\ curr \in Nat /\ cnt \in Nat
  BY <1>1, <1>4 DEF BicTcp, MinOf
<1>6. found \in BOOLEAN
  BY DEF AckTrainFound, DelayFound
<1>7. curr = c.curr_rtt \/ curr = MinOf(c.curr_rtt, delay)
  OBVIOUS
<1> HIDE DEF last, curr, cnt, found
<1>8. /\ c1 \in BicTcp /\ c1.delay_min = low /\ c1.curr_rtt = curr
      /\ c1.last_max_cwnd = ca.last_max_cwnd
      /\ c1.last_cwnd = ca.last_cwnd /\ c1.cnt = ca.cnt
      /\ c1.epoch_start = ca.epoch_start /\ c1.last_time = ca.last_time
  BY <1>4, <1>5, <1>6 DEF BicTcp
<1> HIDE DEF c1
<1>9. /\ ca'.delay_min = low
      /\ \/ ca'.curr_rtt = ca.curr_rtt
         \/ ca'.curr_rtt = MinOf(ca.curr_rtt, delay)
  BY <1>3, <1>4, <1>7, <1>8
<1> QED
  BY <1>1, <1>3, <1>4, <1>8, <1>9 DEF low

LEMMA SampleInv ==
  ASSUME Inv, Sample
  PROVE  Inv'
<1>1. PICK rtt_us \in Rtts, ack_delay \in AckDelays, paced \in BOOLEAN :
        PktsAcked(rtt_us, ack_delay, paced)
  BY DEF Sample
<1>2. ca \in BicTcp /\ now \in Nat
  BY DEF Inv, TypeOK
<1>3. /\ ca' \in BicTcp
      /\ ca'.last_max_cwnd = ca.last_max_cwnd
      /\ ca'.last_cwnd = ca.last_cwnd /\ ca'.cnt = ca.cnt
  BY <1>1, <1>2, SampleFacts
<1>4. snd_ssthresh' \in {snd_ssthresh, snd_cwnd}
  BY <1>1 DEF PktsAcked
<1>5. UNCHANGED <<snd_cwnd, snd_cwnd_cnt, prior_cwnd, prior_ssthresh, ca_state,
                  now, lsndtime>>
  BY <1>1 DEF PktsAcked
<1> QED
  BY <1>3, <1>4, <1>5 DEF Inv, TypeOK, SockTypeOK, Ssthreshes, RateIsSafe

(* A call of cong_avoid: what it leaves in ca, and what it pays.           *)
LEMMA CongAvoidFacts ==
  ASSUME Inv, NEW acked \in 1..MaxAcked, NEW past, NEW mpo, NEW lim,
         CongAvoid(acked, past, mpo, lim)
  PROVE  /\ GrowthOK(ca') /\ RateIsSafe'
         /\ snd_cwnd' \in 1..Clamp /\ snd_cwnd_cnt' \in Nat
         /\ Contract!Ack(acked)
<1> DEFINE slow == tcp_in_slow_start
           c    == IF slow /\ past THEN bictcp_hystart_reset(ca) ELSE ca
           ss   == SlowPart(acked)
           c1   == bictcp_update(c, ss.cwnd, ss.left)
           r    == IF ss.left = 0
                   THEN [cwnd |-> ss.cwnd, cnt |-> snd_cwnd_cnt]
                   ELSE tcp_cong_avoid_ai(ss.cwnd, snd_cwnd_cnt, c1.cnt, ss.left)
<1>1. /\ acked \in Nat /\ acked # 0 /\ snd_cwnd \in 1..Clamp
      /\ snd_cwnd_cnt \in Nat /\ SockTypeOK /\ TypeOK /\ ca \in BicTcp
      /\ now \in Nat /\ snd_cwnd \in Nat
  BY TcpSockAssumption DEF Inv, TypeOK, SockTypeOK
<1>2. GrowthOK(c) /\ (c.last_cwnd # 0 => c.cnt >= 2)
  <2>1. CASE slow /\ past
    <3> DEFINE d == bictcp_hystart_reset(ca)
    <3>1. d = [ca EXCEPT !.round_start = now, !.last_ack = now,
                         !.curr_rtt = InfRtt, !.sample_cnt = 0]
      BY DEF bictcp_hystart_reset
    <3>2. d \in BicTcp
      BY <1>1, Constants DEF BicTcp, bictcp_hystart_reset
    <3>3. /\ d.last_max_cwnd = ca.last_max_cwnd
          /\ d.last_cwnd = ca.last_cwnd /\ d.cnt = ca.cnt
      BY <1>1, <3>1 DEF BicTcp
    <3> HIDE DEF d
    <3> QED
      BY <2>1, <3>2, <3>3 DEF Inv, GrowthOK, RateIsSafe, d
  <2>2. CASE ~(slow /\ past)
    BY <2>2, <1>1 DEF Inv, GrowthOK, RateIsSafe
  <2> QED
    BY <2>1, <2>2
<1>3. ss.cwnd \in 1..Clamp /\ ss.cwnd \in Nat /\ ss.left \in Nat
  <2>1. ss.cwnd \in snd_cwnd..Clamp /\ ss.left \in 0..acked
    BY <1>1, SlowPartFacts
  <2> QED
    BY <1>1, <2>1, TcpSockAssumption
<1>4. /\ snd_cwnd' = r.cwnd /\ snd_cwnd_cnt' = r.cnt
      /\ ca' = IF ss.left = 0 THEN c ELSE c1
  BY DEF CongAvoid, SlowPart
<1>5. ss = SlowPart(acked)
  OBVIOUS
<1> HIDE DEF c, ss
<1>6. GrowthOK(c1) /\ c1.cnt >= 2 /\ c1.cnt \in Nat
  <2>1. GrowthOK(c1) /\ c1.cnt >= 2
    BY <1>1, <1>2, <1>3, UpdateType
  <2> HIDE DEF c1
  <2> QED
    BY <2>1 DEF GrowthOK, BicTcp
<1>7. r = IF ss.left = 0 THEN [cwnd |-> ss.cwnd, cnt |-> snd_cwnd_cnt]
          ELSE tcp_cong_avoid_ai(ss.cwnd, snd_cwnd_cnt, c1.cnt, ss.left)
  OBVIOUS
<1> HIDE DEF c1, r
<1>8. PICK s \in 0..acked, k \in 0..(snd_cwnd_cnt + acked) :
        /\ snd_cwnd + s = ss.cwnd
        /\ Earned(acked, s, k, 2, r.cwnd, r.cnt)
  BY <1>1, <1>5, <1>6, <1>7, AckEarns
<1>9. GrowthOK(ca') /\ RateIsSafe'
  BY <1>2, <1>4, <1>6 DEF RateIsSafe
<1>10. Contract!Ack(acked)
  <2>1. [u \in 1..Clamp |-> 2][snd_cwnd + s] = 2
    BY <1>3, <1>8
  <2>2. /\ ~tcp_in_cwnd_reduction
        /\ UNCHANGED <<snd_ssthresh, prior_cwnd, tcp_in_cwnd_reduction>>
    BY DEF CongAvoid, MayRaiseCwnd, tcp_in_cwnd_reduction
  <2> QED
    BY <1>4, <1>8, <2>1, <2>2 DEF Earned, Contract!Ack
<1>11. snd_cwnd' \in 1..Clamp /\ snd_cwnd_cnt' \in Nat
  BY <1>1, <1>3, <1>4, <1>8, Constants DEF Earned
<1> QED
  BY <1>9, <1>10, <1>11

LEMMA AckInv ==
  ASSUME Inv, Ack
  PROVE  Inv'
<1>1. PICK acked \in 1..MaxAcked, past \in BOOLEAN :
        CongAvoid(acked, past, snd_cwnd, TRUE)
  BY DEF Ack
<1>2. /\ GrowthOK(ca') /\ RateIsSafe'
      /\ snd_cwnd' \in 1..Clamp /\ snd_cwnd_cnt' \in Nat
  BY <1>1, CongAvoidFacts
<1>3. UNCHANGED <<snd_ssthresh, prior_cwnd, prior_ssthresh, ca_state, now,
                  lsndtime>>
  BY <1>1 DEF CongAvoid
<1> QED
  BY <1>2, <1>3 DEF Inv, TypeOK, SockTypeOK, GrowthOK

----------------------------------------------------------------------------
(* A quotient is bounded by what the dividend is bounded by.               *)
LEMMA QuotientBound ==
  ASSUME NEW a \in Nat, NEW w \in Nat, w >= 1, NEW u \in Nat, a <= u * w
  PROVE  a \div w \in 0..u
<1> DEFINE q == a \div w
<1>1. q \in Nat /\ q * w <= a
  BY DivFacts
<1> HIDE DEF q
<1>2. SUFFICES ASSUME q >= u + 1 PROVE FALSE
  BY <1>1 DEF q
<1>3. (u + 1) * w <= q * w
  <2>1. w * (u + 1) <= w * q
    BY <1>1, <1>2, MulMono
  <2> QED
    BY <1>1, <2>1
<1>4. (u + 1) * w = u * w + w /\ u * w \in Nat
  OBVIOUS
<1> QED
  BY <1>1, <1>3, <1>4

(* The threshold, and the maximum the next epoch aims at, stay within the  *)
(* window a loss found.                                                    *)
LEMMA RecalcFacts ==
  ASSUME TypeOK, GrowthOK(ca)
  PROVE  /\ RecalcSsthresh \in 2..Clamp
         /\ GrowthOK(cubictcp_recalc_ssthresh(ca))
         /\ cubictcp_recalc_ssthresh(ca).last_cwnd = ca.last_cwnd
         /\ cubictcp_recalc_ssthresh(ca).cnt = ca.cnt
<1>1. snd_cwnd \in 1..Clamp /\ snd_cwnd \in Nat /\ ca \in BicTcp
  BY Constants DEF TypeOK, SockTypeOK
<1>2. (snd_cwnd * Beta) \div BetaScale \in 0..snd_cwnd
  <2>1. snd_cwnd * Beta <= snd_cwnd * BetaScale /\ snd_cwnd * Beta \in Nat
    BY <1>1, Constants, MulMono
  <2> QED
    BY <1>1, <2>1, Constants, QuotientBound
<1>3. (snd_cwnd * (BetaScale + Beta)) \div (2 * BetaScale) \in 0..snd_cwnd
  <2>1. /\ BetaScale + Beta \in Nat /\ 2 * BetaScale \in Nat
        /\ 2 * BetaScale >= 1 /\ BetaScale + Beta <= 2 * BetaScale
    BY Constants
  <2>2. /\ snd_cwnd * (BetaScale + Beta) <= snd_cwnd * (2 * BetaScale)
        /\ snd_cwnd * (BetaScale + Beta) \in Nat
    BY <1>1, <2>1, MulMono
  <2> QED
    BY <1>1, <2>1, <2>2, QuotientBound
<1> DEFINE m == IF snd_cwnd < ca.last_max_cwnd
                THEN (snd_cwnd * (BetaScale + Beta)) \div (2 * BetaScale)
                ELSE snd_cwnd
           d == [ca EXCEPT !.epoch_start = 0, !.last_max_cwnd = m]
<1>4. m \in 0..Clamp /\ m \in Nat
  BY <1>1, <1>3, Constants
<1>5. cubictcp_recalc_ssthresh(ca) = d
  BY DEF cubictcp_recalc_ssthresh
<1> HIDE DEF m
<1>6. /\ d \in BicTcp /\ d.last_max_cwnd = m
      /\ d.last_cwnd = ca.last_cwnd /\ d.cnt = ca.cnt
  BY <1>1, <1>4 DEF BicTcp
<1> HIDE DEF d
<1>7. RecalcSsthresh \in 2..Clamp
  BY <1>1, <1>2, Constants DEF RecalcSsthresh, MaxOf
<1> QED
  BY <1>4, <1>5, <1>6, <1>7, Constants DEF GrowthOK

(* A timeout leaves no rate and no epoch behind.                           *)
LEMMA LossFacts ==
  ASSUME GrowthOK(ca), NEW c, GrowthOK(c), now \in Nat
  PROVE  /\ GrowthOK(cubictcp_state(c, "Loss"))
         /\ cubictcp_state(c, "Loss").last_cwnd = 0
         /\ cubictcp_state(c, "Loss").epoch_start = 0
         /\ cubictcp_state(c, "Loss").last_time = 0
         /\ cubictcp_state(c, "Loss").delay_min = 0
         /\ cubictcp_state(c, "Loss").curr_rtt = InfRtt
<1> DEFINE d == bictcp_reset(c)
           e == bictcp_hystart_reset(d)
<1>1. /\ d \in BicTcp /\ d.last_max_cwnd = 0 /\ d.last_cwnd = 0
      /\ d.epoch_start = 0 /\ d.last_time = 0 /\ d.delay_min = 0
  BY DEF bictcp_reset, GrowthOK, BicTcp
<1> HIDE DEF d
<1>2. /\ e \in BicTcp /\ e.last_max_cwnd = 0 /\ e.last_cwnd = 0
      /\ e.epoch_start = 0 /\ e.last_time = 0 /\ e.delay_min = 0
      /\ e.curr_rtt = InfRtt
  BY <1>1, Constants DEF bictcp_hystart_reset, BicTcp
<1> HIDE DEF e
<1>3. cubictcp_state(c, "Loss") = e
  BY DEF cubictcp_state, e, d
<1> QED
  BY <1>2, <1>3, Constants DEF GrowthOK

LEMMA ReductionInv ==
  ASSUME Inv, EnterReduction
  PROVE  Inv'
<1>1. PICK st \in {"CWR", "Recovery"} :
        /\ KernelEnterReduction(st, RecalcSsthresh)
        /\ ca' = cubictcp_state(cubictcp_recalc_ssthresh(ca), st)
  BY DEF EnterReduction
<1>2. TypeOK /\ SockTypeOK /\ GrowthOK(ca)
  BY DEF Inv, TypeOK, GrowthOK
<1>3. SockTypeOK'
  <2>1. RecalcSsthresh \in Ssthreshes
    BY <1>2, RecalcFacts, Constants DEF Ssthreshes
  <2> QED
    BY <1>1, <1>2, <2>1, EnterReductionType
<1>4. ca' = cubictcp_recalc_ssthresh(ca)
  BY <1>1 DEF cubictcp_state
<1>5. GrowthOK(ca') /\ ca'.last_cwnd = ca.last_cwnd /\ ca'.cnt = ca.cnt
  BY <1>2, <1>4, RecalcFacts
<1> QED
  BY <1>3, <1>5
  DEF EnterReduction, clock, Inv, TypeOK, GrowthOK, RateIsSafe

LEMMA LossInv ==
  ASSUME Inv, EnterLoss
  PROVE  Inv'
<1>1. PICK fresh \in BOOLEAN :
        /\ KernelEnterLoss(fresh, RecalcSsthresh)
        /\ ca' = cubictcp_state(IF fresh THEN cubictcp_recalc_ssthresh(ca)
                                ELSE ca, "Loss")
  BY DEF EnterLoss
<1>2. TypeOK /\ SockTypeOK /\ GrowthOK(ca) /\ now \in Nat
  BY DEF Inv, TypeOK, GrowthOK
<1>3. SockTypeOK'
  <2>1. RecalcSsthresh \in Ssthreshes
    BY <1>2, RecalcFacts, Constants DEF Ssthreshes
  <2> QED
    BY <1>1, <1>2, <2>1, EnterLossType
<1>4. GrowthOK(ca') /\ ca'.last_cwnd = 0
  BY <1>1, <1>2, RecalcFacts, LossFacts
<1> QED
  BY <1>2, <1>3, <1>4
  DEF EnterLoss, clock, Inv, TypeOK, GrowthOK, RateIsSafe

(* Steps that leave ca alone.                                              *)
LEMMA OtherInv ==
  ASSUME Inv, Tick \/ Undo \/ KernelOnly
  PROVE  Inv'
<1>1. SockTypeOK' /\ ca' = ca /\ lsndtime' = lsndtime /\ now' \in Nat
  <2>1. CASE Tick
    BY <2>1 DEF Tick, Inv, TypeOK, SockTypeOK, sockVars
  <2>2. CASE Undo
    BY <2>2, HookFacts, UndoType DEF Undo, Inv, TypeOK, clock
  <2>3. CASE KernelOnly
    BY <2>3, KernelAloneType DEF KernelOnly, KernelAlone, Inv, TypeOK, clock
  <2> QED
    BY <2>1, <2>2, <2>3
<1> QED
  BY <1>1 DEF Inv, TypeOK, RateIsSafe

LEMMA Invariance == Spec => []Inv
<1>1. Init => Inv
  BY InitInv
<1>2. Inv /\ [Next]_vars => Inv'
  <2> SUFFICES ASSUME Inv, [Next]_vars PROVE Inv'
    OBVIOUS
  <2>1. CASE \E idle \in BOOLEAN : Send(idle)
    BY <2>1, SendInv
  <2>2. CASE Sample
    BY <2>2, SampleInv
  <2>3. CASE Ack
    BY <2>3, AckInv
  <2>4. CASE EnterReduction
    BY <2>4, ReductionInv
  <2>5. CASE EnterLoss
    BY <2>5, LossInv
  <2>6. CASE Tick \/ Undo \/ KernelOnly
    BY <2>6, OtherInv
  <2>7. CASE UNCHANGED vars
    BY <2>7 DEF vars, sockVars, Inv, TypeOK, SockTypeOK, RateIsSafe
  <2> QED
    BY <2>1, <2>2, <2>3, <2>4, <2>5, <2>6, <2>7 DEF Next
<1> QED
  BY <1>1, <1>2, PTL DEF Spec

(* Every reachable state is well typed (TypeOK): no unsigned difference of *)
(* the growth function is stored below zero and the window is never 0.     *)
THEOREM TypeCorrect == Spec => []TypeOK
<1>1. Inv => TypeOK
  BY DEF Inv
<1> QED
  BY <1>1, Invariance, PTL

(* Once a rate is calculated it is at least two, by any of the three ways  *)
(* through bictcp_update (RateIsSafe).                                     *)
THEOREM RateNeverZero == Spec => []RateIsSafe
<1>1. Inv => RateIsSafe
  BY DEF Inv
<1> QED
  BY <1>1, Invariance, PTL

----------------------------------------------------------------------------
(* The steps of the kernel and of HyStart are the contract's: a loss takes *)
(* the share Beta, HyStart ends slow start, the others steer the window    *)
(* down, give it up or give it back.                                       *)
LEMMA SampleImplements ==
  ASSUME TypeOK, Sample
  PROVE  [Contract!Next]_(Contract!vars)
<1>1. /\ UNCHANGED <<snd_cwnd, snd_cwnd_cnt, prior_cwnd, tcp_in_cwnd_reduction>>
      /\ \/ snd_ssthresh' = snd_ssthresh
         \/ tcp_in_slow_start /\ snd_ssthresh' = snd_cwnd
  BY DEF Sample, PktsAcked, Watched, tcp_in_cwnd_reduction
<1>2. CASE snd_ssthresh' = snd_ssthresh
  BY <1>1, <1>2 DEF Contract!vars
<1>3. CASE tcp_in_slow_start /\ snd_ssthresh' = snd_cwnd
  BY <1>1, <1>3 DEF tcp_in_slow_start, Contract!EndSlowStart, Contract!Next
<1> QED
  BY <1>1, <1>2, <1>3

LEMMA LossImplements ==
  ASSUME TypeOK, TypeOK', EnterReduction \/ EnterLoss
  PROVE  Contract!Next
<1> USE Constants DEF tcp_in_cwnd_reduction
<1> DEFINE Reduced == [w \in 1..Clamp |-> MaxOf((w * Beta) \div BetaScale, 2)]
<1>1. snd_cwnd \in 1..Clamp
  BY DEF TypeOK, SockTypeOK
<1>2. RecalcSsthresh = Reduced[snd_cwnd]
  BY <1>1 DEF RecalcSsthresh
<1> HIDE DEF Reduced
<1>3. CASE EnterReduction
  <2>1. /\ snd_ssthresh' = Reduced[snd_cwnd] /\ prior_cwnd' = snd_cwnd
        /\ snd_cwnd_cnt' = 0 /\ snd_cwnd' = snd_cwnd
    BY <1>2, <1>3 DEF EnterReduction, KernelEnterReduction
  <2>2. Contract!LossEpisode
    BY <1>1, <2>1 DEF Contract!LossEpisode, Reduced
  <2> QED
    BY <2>2 DEF Contract!Next
<1>4. CASE EnterLoss
  <2>1. PICK fresh \in BOOLEAN : KernelEnterLoss(fresh, RecalcSsthresh)
    BY <1>4 DEF EnterLoss
  <2>2. CASE fresh
    <3>1. /\ snd_ssthresh' = Reduced[snd_cwnd] /\ prior_cwnd' = snd_cwnd
          /\ snd_cwnd_cnt' = 0 /\ snd_cwnd' \in 1..snd_cwnd
      BY <1>2, <2>1, <2>2 DEF KernelEnterLoss
    <3>2. Contract!LossEpisode
      BY <3>1 DEF Contract!LossEpisode, Reduced
    <3> QED
      BY <3>2 DEF Contract!Next
  <2>3. CASE ~fresh
    <3>1. Contract!Decay
      BY <1>1, <2>1, <2>3
      DEF KernelEnterLoss, Contract!Decay, TypeOK, SockTypeOK, Ssthreshes
    <3> QED
      BY <3>1 DEF Contract!Next
  <2> QED
    BY <2>2, <2>3
<1> QED
  BY <1>3, <1>4

LEMMA OtherImplements ==
  ASSUME TypeOK, TypeOK', Undo \/ KernelOnly
  PROVE  [Contract!Next]_(Contract!vars)
<1> USE Constants DEF tcp_in_cwnd_reduction
<1>1. CASE Undo
  <2>1. Contract!Restore
    BY <1>1 DEF Undo, KernelUndo, tcp_reno_undo_cwnd, MaxOf, Contract!Restore,
                TypeOK, SockTypeOK, Ssthreshes
  <2> QED
    BY <2>1 DEF Contract!Next
<1>2. CASE KernelDisorder \/ KernelOrder \/ KernelCwrToRecovery \/ KernelExitLoss
  BY <1>2 DEF KernelDisorder, KernelOrder, KernelCwrToRecovery,
              KernelExitLoss, Contract!vars
<1>3. CASE KernelReduce \/ KernelEndReduction
  <2>1. Contract!Reduce
    BY <1>3 DEF KernelReduce, KernelEndReduction, Contract!Reduce, TypeOK,
                SockTypeOK, Ssthreshes
  <2> QED
    BY <2>1 DEF Contract!Next
<1>4. CASE KernelShrink
  <2>1. snd_cwnd' \in 1..snd_cwnd
    BY <1>4 DEF KernelShrink, MinOf, TypeOK, SockTypeOK
  <2>2. snd_ssthresh' \in {t \in Ssthreshes : t >= snd_ssthresh}
    BY <1>4 DEF KernelShrink, tcp_current_ssthresh, MaxOf, TypeOK, SockTypeOK,
                Ssthreshes
  <2>3. Contract!Decay
    BY <1>4, <2>1, <2>2 DEF KernelShrink, Contract!Decay
  <2> QED
    BY <2>3 DEF Contract!Next
<1> QED
  BY <1>1, <1>2, <1>3, <1>4 DEF KernelOnly

(* Cubic implements the contract at a price of two packets per segment,    *)
(* with slow start ending early where HyStart says so (ImplementsAimd).    *)
THEOREM CubicImplementsAimd == Spec => ImplementsAimd
<1>1. Init => Contract!Init
  BY DEF Init, SockInit, Contract!Init, tcp_in_cwnd_reduction
<1>2. Inv /\ Inv' /\ [Next]_vars => [Contract!Next]_(Contract!vars)
  <2> SUFFICES ASSUME Inv, Inv', [Next]_vars
               PROVE  [Contract!Next]_(Contract!vars)
    OBVIOUS
  <2>1. TypeOK /\ TypeOK'
    BY DEF Inv
  <2>2. CASE Ack
    BY <2>2, CongAvoidFacts DEF Ack, Contract!Next
  <2>3. CASE Sample
    BY <2>1, <2>3, SampleImplements
  <2>4. CASE EnterReduction \/ EnterLoss
    BY <2>1, <2>4, LossImplements
  <2>5. CASE Undo \/ KernelOnly
    BY <2>1, <2>5, OtherImplements
  <2>6. CASE Tick \/ (\E idle \in BOOLEAN : Send(idle)) \/ UNCHANGED vars
    BY <2>6
    DEF Tick, Send, vars, sockVars, Contract!vars, tcp_in_cwnd_reduction
  <2> QED
    BY <2>2, <2>3, <2>4, <2>5, <2>6 DEF Next
<1> QED
  BY <1>1, <1>2, Invariance, PTL DEF Spec, ImplementsAimd, Contract!Spec

----------------------------------------------------------------------------
(* What else a call of cong_avoid may do to ca: it starts an epoch or      *)
(* notes a calculation at the present moment only, and leaves the delays   *)
(* alone except to start a round.                                          *)
SameTimes(c, d) ==
  /\ d.epoch_start \in {c.epoch_start, jiffies}
  /\ d.last_time \in {c.last_time, jiffies}
  /\ d.delay_min = c.delay_min
  /\ d.curr_rtt = c.curr_rtt

LEMMA RecalculateTimes ==
  ASSUME TypeOK, NEW c, GrowthOK(c), NEW win \in 1..Clamp, NEW acked \in Nat
  PROVE  SameTimes(c, Recalculate(c, win, acked))
<1> DEFINE c1 == [c EXCEPT !.last_cwnd = win, !.last_time = jiffies]
           c2 == IF c1.epoch_start = 0 THEN StartEpoch(c1, win, acked) ELSE c1
<1>1. /\ GrowthOK(c1) /\ c1.last_time = jiffies
      /\ c1.epoch_start = c.epoch_start
      /\ c1.delay_min = c.delay_min /\ c1.curr_rtt = c.curr_rtt
  <2>1. jiffies \in Nat /\ win \in Nat
    BY JiffiesNat, Constants
  <2>2. c1 \in BicTcp
    BY <2>1 DEF GrowthOK, BicTcp
  <2> QED
    BY <2>2 DEF GrowthOK, BicTcp
<1> HIDE DEF c1
<1>2. /\ GrowthOK(c2) /\ c2.last_time = jiffies
      /\ c2.epoch_start \in {c.epoch_start, jiffies}
      /\ c2.delay_min = c.delay_min /\ c2.curr_rtt = c.curr_rtt
  <2>1. CASE c1.epoch_start = 0
    <3>1. GrowthOK(c2)
      BY <1>1, <2>1, StartEpochType
    <3>2. /\ c2.last_time = c1.last_time /\ c2.epoch_start = jiffies
          /\ c2.delay_min = c1.delay_min /\ c2.curr_rtt = c1.curr_rtt
      BY <1>1, <2>1 DEF StartEpoch, GrowthOK, BicTcp
    <3> QED
      BY <1>1, <3>1, <3>2
  <2>2. CASE c1.epoch_start # 0
    BY <1>1, <2>2
  <2> QED
    BY <2>1, <2>2
<1> HIDE DEF c2
<1>3. Recalculate(c, win, acked) = [c2 EXCEPT !.cnt = CubicRate(c2, win)]
  BY DEF Recalculate, c1, c2
<1> QED
  BY <1>2, <1>3 DEF SameTimes, GrowthOK, BicTcp

LEMMA FriendlyTimes ==
  ASSUME NEW c, GrowthOK(c), NEW win
  PROVE  /\ TcpFriendly(c, win).epoch_start = c.epoch_start
         /\ TcpFriendly(c, win).last_time = c.last_time
         /\ TcpFriendly(c, win).delay_min = c.delay_min
         /\ TcpFriendly(c, win).curr_rtt = c.curr_rtt
BY DEF TcpFriendly, GrowthOK, BicTcp

LEMMA UpdateTimes ==
  ASSUME TypeOK, NEW c, GrowthOK(c), NEW win \in 1..Clamp, NEW acked \in Nat
  PROVE  SameTimes(c, bictcp_update(c, win, acked))
<1> DEFINE d == [c EXCEPT !.ack_cnt = @ + acked]
           u == Recalculate(d, win, acked)
<1>1. /\ GrowthOK(d) /\ d.epoch_start = c.epoch_start
      /\ d.last_time = c.last_time
      /\ d.delay_min = c.delay_min /\ d.curr_rtt = c.curr_rtt
  BY DEF GrowthOK, BicTcp
<1>2. bictcp_update(c, win, acked) =
        IF StillValid(d, win) THEN d
        ELSE IF CalculatedThisJiffy(d) THEN TcpFriendly(d, win)
        ELSE TcpFriendly(u, win)
  BY DEF bictcp_update
<1> HIDE DEF d
<1>3. GrowthOK(u) /\ SameTimes(d, u)
  BY <1>1, RecalculateType, RecalculateTimes
<1> HIDE DEF u
<1>4. SameTimes(c, d) /\ SameTimes(c, u)
  BY <1>1, <1>3 DEF SameTimes
<1>5. SameTimes(c, TcpFriendly(d, win)) /\ SameTimes(c, TcpFriendly(u, win))
  BY <1>1, <1>3, <1>4, FriendlyTimes DEF SameTimes
<1> QED
  BY <1>2, <1>4, <1>5

LEMMA AckTimes ==
  ASSUME Inv, Ack
  PROVE  /\ ca'.epoch_start \in {ca.epoch_start, jiffies}
         /\ ca'.last_time \in {ca.last_time, jiffies}
         /\ ca'.delay_min = ca.delay_min
         /\ ca'.curr_rtt \in {ca.curr_rtt, InfRtt}
         /\ UNCHANGED <<now, lsndtime>>
<1>1. PICK acked \in 1..MaxAcked, past \in BOOLEAN :
        CongAvoid(acked, past, snd_cwnd, TRUE)
  BY DEF Ack
<1> DEFINE slow == tcp_in_slow_start
           c    == IF slow /\ past THEN bictcp_hystart_reset(ca) ELSE ca
           ss   == IF slow THEN tcp_slow_start(acked)
                   ELSE [cwnd |-> snd_cwnd, left |-> acked]
           c1   == bictcp_update(c, ss.cwnd, ss.left)
<1>2. /\ acked \in Nat /\ snd_cwnd \in 1..Clamp
      /\ SockTypeOK /\ TypeOK /\ ca \in BicTcp /\ now \in Nat
  BY TcpSockAssumption DEF Inv, TypeOK, SockTypeOK
<1>3. /\ GrowthOK(c)
      /\ c.epoch_start = ca.epoch_start /\ c.last_time = ca.last_time
      /\ c.delay_min = ca.delay_min /\ c.curr_rtt \in {ca.curr_rtt, InfRtt}
  <2>1. CASE slow /\ past
    <3> DEFINE d == bictcp_hystart_reset(ca)
    <3>1. d \in BicTcp
      BY <1>2, Constants DEF BicTcp, bictcp_hystart_reset
    <3>2. /\ d.epoch_start = ca.epoch_start /\ d.last_time = ca.last_time
          /\ d.delay_min = ca.delay_min /\ d.curr_rtt = InfRtt
          /\ d.last_max_cwnd = ca.last_max_cwnd
      BY <1>2 DEF BicTcp, bictcp_hystart_reset
    <3> HIDE DEF d
    <3> QED
      BY <2>1, <3>1, <3>2 DEF Inv, GrowthOK, d
  <2>2. CASE ~(slow /\ past)
    BY <2>2, <1>2 DEF Inv, GrowthOK
  <2> QED
    BY <2>1, <2>2
<1>4. ss.cwnd \in 1..Clamp /\ ss.left \in Nat
  <2>1. CASE slow
    <3>1. ss.cwnd \in snd_cwnd..Clamp /\ ss.left \in 0..acked
      BY <1>2, <2>1, SlowStartFacts
    <3> QED
      BY <1>2, <2>1, <3>1, TcpSockAssumption
  <2>2. CASE ~slow
    BY <1>2, <2>2
  <2> QED
    BY <2>1, <2>2
<1>5. ca' \in {c, c1}
  BY <1>1 DEF CongAvoid
<1> HIDE DEF c, ss
<1>6. SameTimes(c, c1)
  BY <1>2, <1>3, <1>4, UpdateTimes
<1>7. UNCHANGED <<now, lsndtime>>
  BY <1>1 DEF CongAvoid
<1> HIDE DEF c1
<1> QED
  BY <1>3, <1>5, <1>6, <1>7 DEF SameTimes

(* The clock's jiffies never go back.                                      *)
LEMMA JiffiesMonotone ==
  ASSUME now \in Nat, Tick
  PROVE  jiffies <= jiffies' /\ jiffies \in Nat /\ jiffies' \in Nat
<1> DEFINE a == now \div UsecPerJiffy
           b == (now + 1) \div UsecPerJiffy
           w == UsecPerJiffy
<1>1. jiffies = a /\ jiffies' = b
  BY DEF jiffies, Tick
<1>2. w \in Nat /\ w >= 1
  BY Constants
<1>3. a \in Nat /\ a * w <= now
  BY <1>2, DivFacts
<1>4. b \in Nat /\ now + 1 < b * w + w
  <2>1. now + 1 \in Nat
    OBVIOUS
  <2>2. b \in Nat /\ b * w \in Nat /\ now + 1 - b * w \in 0..(w - 1)
    <3> DEFINE m == now + 1
    <3>1. m \in Nat
      BY <2>1
    <3> HIDE DEF m, w
    <3>2. m \div w \in Nat /\ (m \div w) * w \in Nat
          /\ m - (m \div w) * w \in 0..(w - 1)
      BY <1>2, <3>1, DivFacts
    <3> QED
      BY <3>2 DEF m, w
  <2> HIDE DEF b, w
  <2> QED
    BY <1>2, <2>1, <2>2
<1> HIDE DEF a, b, w
<1>5. SUFFICES ASSUME a >= b + 1 PROVE FALSE
  BY <1>1, <1>3, <1>4
<1>6. w * (b + 1) <= w * a
  BY <1>2, <1>3, <1>4, <1>5, MulMono
<1> DEFINE p == a * w
           q == b * w
<1>7. w * (b + 1) = q + w /\ w * a = p /\ p \in Nat /\ q \in Nat
  BY <1>2, <1>3, <1>4
<1>8. p <= now /\ now + 1 < q + w /\ q + w <= p
  BY <1>3, <1>4, <1>6, <1>7
<1> HIDE DEF p, q
<1> QED
  BY <1>2, <1>7, <1>8

(* What an epoch is measured from never lies in the future                 *)
(* (EpochHasBegun).                                                        *)
THEOREM ElapsedNeverWraps == Spec => []EpochHasBegun
<1>1. Init => EpochHasBegun
  <2> SUFFICES ASSUME Init PROVE EpochHasBegun
    OBVIOUS
  <2>1. jiffies \in Nat
    BY InitInv, JiffiesNat DEF Inv
  <2>2. ca.epoch_start = 0 /\ ca.last_time = 0 /\ lsndtime = 0
    BY DEF Init, NewConnection
  <2> QED
    BY <2>1, <2>2 DEF EpochHasBegun
<1>2. Inv /\ EpochHasBegun /\ [Next]_vars => EpochHasBegun'
  <2> SUFFICES ASSUME Inv, EpochHasBegun, [Next]_vars PROVE EpochHasBegun'
    OBVIOUS
  <2>1. /\ jiffies \in Nat /\ lsndtime \in Nat /\ now \in Nat /\ TypeOK
        /\ ca \in BicTcp /\ GrowthOK(ca)
        /\ ca.epoch_start \in Nat /\ ca.last_time \in Nat
    BY JiffiesNat DEF Inv, TypeOK, BicTcp, GrowthOK
  <2>2. CASE Tick
    BY <2>1, <2>2, JiffiesMonotone DEF Tick, EpochHasBegun
  <2>3. CASE \E idle \in BOOLEAN : Send(idle)
    <3>1. jiffies' = jiffies /\ lsndtime' = jiffies
      BY <2>3 DEF Send, jiffies
    <3>2. ca'.last_time = ca.last_time
      BY <2>1, <2>3 DEF Send, BicTcp
    <3>3. ca'.epoch_start <= jiffies
      BY <2>1, <2>3 DEF Send, BicTcp, EpochHasBegun, MinOf
    <3> QED
      BY <2>1, <3>1, <3>2, <3>3 DEF EpochHasBegun
  <2>4. CASE Sample
    <3>1. ca'.epoch_start = ca.epoch_start /\ ca'.last_time = ca.last_time
      BY <2>1, <2>4, SampleFacts DEF Sample
    <3>2. UNCHANGED <<now, lsndtime>>
      BY <2>4 DEF Sample, PktsAcked
    <3> QED
      BY <3>1, <3>2 DEF EpochHasBegun, jiffies
  <2>5. CASE Ack
    <3>1. /\ ca'.epoch_start \in {ca.epoch_start, jiffies}
          /\ ca'.last_time \in {ca.last_time, jiffies}
          /\ UNCHANGED <<now, lsndtime>>
      BY <2>5, AckTimes
    <3>2. jiffies' = jiffies
      BY <3>1 DEF jiffies
    <3> QED
      BY <2>1, <3>1, <3>2 DEF EpochHasBegun
  <2>6. CASE EnterReduction
    <3>1. ca' = cubictcp_recalc_ssthresh(ca)
      BY <2>6 DEF EnterReduction, cubictcp_state
    <3>2. ca'.epoch_start = 0 /\ ca'.last_time = ca.last_time
      BY <2>1, <3>1 DEF cubictcp_recalc_ssthresh, BicTcp
    <3>3. jiffies' = jiffies /\ lsndtime' = lsndtime
      BY <2>6 DEF EnterReduction, clock, jiffies
    <3> QED
      BY <2>1, <3>2, <3>3 DEF EpochHasBegun
  <2>7. CASE EnterLoss
    <3>1. ca'.epoch_start = 0 /\ ca'.last_time = 0
      BY <2>1, <2>7, RecalcFacts, LossFacts DEF EnterLoss
    <3>2. jiffies' = jiffies /\ lsndtime' = lsndtime
      BY <2>7 DEF EnterLoss, clock, jiffies
    <3> QED
      BY <2>1, <3>1, <3>2 DEF EpochHasBegun
  <2>8. CASE Undo \/ KernelOnly \/ UNCHANGED vars
    <3>1. UNCHANGED <<ca, now, lsndtime>>
      BY <2>8 DEF Undo, KernelOnly, clock, vars
    <3> QED
      BY <3>1 DEF EpochHasBegun, jiffies
  <2> QED
    BY <2>2, <2>3, <2>4, <2>5, <2>6, <2>7, <2>8 DEF Next
<1> QED
  BY <1>1, <1>2, Invariance, PTL DEF Spec

----------------------------------------------------------------------------
(* RoundDelayAboveBase, strengthened: no base means no delay either, and   *)
(* the base never reaches past the mark a round starts from.               *)
DelayInv ==
  /\ RoundDelayAboveBase
  /\ ca.delay_min <= InfRtt
  /\ ca.delay_min = 0 => ca.curr_rtt = InfRtt

LEMMA DelayInvariant == Spec => []DelayInv
<1> USE DEF DelayInv, RoundDelayAboveBase
<1>1. Init => DelayInv
  BY Constants DEF Init, NewConnection
<1>2. Inv /\ DelayInv /\ [Next]_vars => DelayInv'
  <2> SUFFICES ASSUME Inv, DelayInv, [Next]_vars PROVE DelayInv'
    OBVIOUS
  <2>1. /\ TypeOK /\ ca \in BicTcp /\ GrowthOK(ca) /\ now \in Nat
        /\ ca.delay_min \in Nat /\ ca.curr_rtt \in Nat
    BY DEF Inv, TypeOK, BicTcp, GrowthOK
  <2>2. CASE ca' = ca
    BY <2>2
  <2>3. CASE \E idle \in BOOLEAN : Send(idle)
    <3>1. ca'.delay_min = ca.delay_min /\ ca'.curr_rtt = ca.curr_rtt
      BY <2>1, <2>3 DEF Send, BicTcp
    <3> QED
      BY <3>1
  <2>4. CASE Sample
    <3>1. PICK delay \in 1..InfRtt :
            /\ ca'.delay_min = IF ca.delay_min = 0 THEN delay
                               ELSE MinOf(ca.delay_min, delay)
            /\ \/ ca'.curr_rtt = ca.curr_rtt
               \/ ca'.curr_rtt = MinOf(ca.curr_rtt, delay)
      BY <2>1, <2>4, SampleFacts DEF Sample
    <3> QED
      BY <2>1, <3>1, Constants DEF MinOf
  <2>5. CASE Ack
    <3>1. /\ ca'.delay_min = ca.delay_min
          /\ ca'.curr_rtt \in {ca.curr_rtt, InfRtt}
      BY <2>5, AckTimes
    <3> QED
      BY <2>1, <3>1, Constants
  <2>6. CASE EnterReduction
    <3>1. ca' = cubictcp_recalc_ssthresh(ca)
      BY <2>6 DEF EnterReduction, cubictcp_state
    <3>2. ca'.delay_min = ca.delay_min /\ ca'.curr_rtt = ca.curr_rtt
      BY <2>1, <3>1 DEF cubictcp_recalc_ssthresh, BicTcp
    <3> QED
      BY <3>2
  <2>7. CASE EnterLoss
    <3>1. ca'.delay_min = 0 /\ ca'.curr_rtt = InfRtt
      BY <2>1, <2>7, RecalcFacts, LossFacts DEF EnterLoss
    <3> QED
      BY <3>1, Constants
  <2>8. CASE Tick \/ Undo \/ KernelOnly \/ UNCHANGED vars
    BY <2>2, <2>8 DEF Tick, Undo, KernelOnly, vars
  <2> QED
    BY <2>3, <2>4, <2>5, <2>6, <2>7, <2>8 DEF Next
<1> QED
  BY <1>1, <1>2, Invariance, PTL DEF Spec

(* The delay HyStart compares is never below the base it is compared with  *)
(* (RoundDelayAboveBase).                                                  *)
THEOREM DelayIsAnIncrease == Spec => []RoundDelayAboveBase
<1>1. DelayInv => RoundDelayAboveBase
  BY DEF DelayInv
<1> QED
  BY <1>1, DelayInvariant, PTL

LEMMA HystartStep ==
  ASSUME Inv, Sample
  PROVE  \/ snd_ssthresh' = snd_ssthresh
         \/ /\ snd_ssthresh' < snd_ssthresh /\ snd_ssthresh' = snd_cwnd
            /\ ~ca.found /\ ca'.found
<1>1. PICK rtt_us \in Rtts, ack_delay \in AckDelays, paced \in BOOLEAN :
        PktsAcked(rtt_us, ack_delay, paced)
  BY DEF Sample
<1> DEFINE delay == MaxOf(rtt_us, 1)
           c     == [ca EXCEPT !.delay_min = IF @ = 0 THEN delay
                                             ELSE MinOf(@, delay)]
           c1    == hystart_update(c, delay, ack_delay, paced)
<1>2. c.found = ca.found
  BY DEF Inv, TypeOK, BicTcp
<1>3. /\ ca' = IF Watched(c) THEN c1 ELSE c
      /\ snd_ssthresh' = IF Watched(c) /\ c1.found THEN snd_cwnd
                         ELSE snd_ssthresh
  BY <1>1 DEF PktsAcked
<1> HIDE DEF c, c1
<1>4. Watched(c) => snd_cwnd < snd_ssthresh /\ ~c.found
  BY DEF Watched, tcp_in_slow_start
<1> QED
  BY <1>2, <1>3, <1>4

(* HyStart lowers the threshold, to the window, and once per episode       *)
(* (HystartEndsSlowStartOnce).                                             *)
THEOREM HystartOnce == Spec => HystartEndsSlowStartOnce
<1>1. Inv /\ [Next]_vars =>
        [Sample =>
           \/ snd_ssthresh' = snd_ssthresh
           \/ /\ snd_ssthresh' < snd_ssthresh /\ snd_ssthresh' = snd_cwnd
              /\ ~ca.found /\ ca'.found]_vars
  BY HystartStep
<1> QED
  BY <1>1, Invariance, PTL DEF Spec, HystartEndsSlowStartOnce

----------------------------------------------------------------------------
(* The digits of CubicExact compute what the numbers would.  The highest   *)
(* bit of a number is that of its digits.                                  *)
LEMMA FlsWide ==
  ASSUME NEW w \in Wide, Value(w) # 0, Value(w) < Bit[64]
  PROVE  fls64_wide(w) = fls64(Value(w))
<1> DEFINE a == Value(w)
           n == BitLength(w)
           k == (n + 1) \div 2
<1>1. a \in Nat
  BY WideDigits
<1>2. n \in 1..80 /\ Bit[n - 1] <= a /\ a < Bit[n]
  BY BitLengthFacts
<1>3. fls64_wide(w) = n + (n % 2)
  BY DEF fls64_wide
<1> HIDE DEF n
<1>4. n <= 64
  <2>1. SUFFICES ASSUME 64 <= n - 1 PROVE FALSE
    BY <1>2
  <2>2. n - 1 \in Nat /\ 64 \in Nat
    BY <1>2
  <2>3. Bit[64] <= Bit[n - 1] /\ Bit[64] \in Nat /\ Bit[n - 1] \in Nat
    BY <2>1, <2>2, BitMonotone, BitPositive
  <2> QED
    BY <1>1, <1>2, <2>3
<1>5. k \in 1..32 /\ n + (n % 2) = 2 * k /\ n <= 2 * k /\ 2 * k - 2 <= n - 1
  BY <1>2, <1>4
<1> HIDE DEF k
<1>6. n \in Nat /\ n - 1 \in Nat /\ 2 * k \in Nat /\ 2 * k - 2 \in Nat
  BY <1>2, <1>5
<1>7. /\ Bit[n] <= Bit[2 * k] /\ Bit[2 * k - 2] <= Bit[n - 1]
      /\ Bit[n] \in Nat /\ Bit[2 * k] \in Nat
      /\ Bit[n - 1] \in Nat /\ Bit[2 * k - 2] \in Nat
  BY <1>5, <1>6, BitMonotone, BitPositive
<1>8. a < Bit[2 * k] /\ Bit[2 * k - 2] <= a
  BY <1>1, <1>2, <1>7
<1> HIDE DEF a
<1>9. fls64(a) = 2 * k
  BY <1>1, <1>5, <1>8, HighestPair
<1> QED
  BY <1>3, <1>5, <1>9 DEF a

LEMMA BigBits ==
  /\ Bit[26] = 67108864 /\ Bit[30] = 1073741824 /\ Bit[40] = 1048576 * 1048576
  /\ Bit[80] = Bit[40] * Bit[40]
<1>1. /\ Bit[20 + 6] = Bit[20] * Bit[6] /\ Bit[20 + 10] = Bit[20] * Bit[10]
      /\ Bit[20 + 20] = Bit[20] * Bit[20] /\ Bit[40 + 40] = Bit[40] * Bit[40]
  BY BitSum
<1>2. 20 + 6 = 26 /\ 20 + 10 = 30 /\ 20 + 20 = 40 /\ 40 + 40 = 80
  OBVIOUS
<1> QED
  BY <1>1, <1>2, BitValues, BitTen

(* cubic_root computed on digits is cubic_root, for every 64-bit argument: *)
(* what CubicExact checks is the function of bpfcubic.bpf.c:249-277, the   *)
(* quotients of its Newton step included.                                  *)
THEOREM WideRootIsRoot ==
  \A w \in Wide : Value(w) < Bit[64] => cubic_root_wide(w) = cubic_root(Value(w))
<1> SUFFICES ASSUME NEW w \in Wide, Value(w) < Bit[64]
             PROVE  cubic_root_wide(w) = cubic_root(Value(w))
  OBVIOUS
<1> DEFINE a == Value(w)
<1>1. a \in Nat /\ a < Bit[64]
  BY WideDigits
<1>2. AtMost(w, ToWide(63)) <=> a <= 63
  <2>1. ToWide(63) \in Wide /\ Value(ToWide(63)) = 63
    BY BigBits, ToWideValue
  <2> QED
    BY <2>1, AtMostValue
<1> HIDE DEF a
<1>3. CASE a <= 63
  <2>1. ToNat(w) = a
    <3>1. Value(w) < Bit[30]
      BY <1>1, <1>3, BigBits DEF a
    <3> QED
      BY <3>1, ToNatValue DEF a
  <2>2. a < 64
    BY <1>1, <1>3
  <2>3. cubic_root_wide(w) = (v[a + 1] + 35) \div 64
    BY <1>2, <1>3, <2>1 DEF cubic_root_wide
  <2>4. cubic_root(a) = (v[a + 1] + 35) \div 64
    BY <2>2 DEF cubic_root
  <2> QED
    BY <2>3, <2>4 DEF a
<1>4. CASE ~(a <= 63)
  <2>1. a >= 64
    BY <1>1, <1>4
  <2>2. Leading(a) \in 4..63 /\ Guess(a) >= 4
    BY <1>1, <2>1, TableSuffices
  <2>3. Refined(a) * 341 < Bit[32]
    BY <1>1, <2>1, StepFits
  <2>4. Third(a) \in 1..20 /\ LookedUp(a, Bit[Third(a)], Leading(a), Guess(a))
    BY <1>1, <2>1, GuessFacts
  <2>5. Guess(a) \in Nat
    BY <2>4 DEF LookedUp
  <2> DEFINE b == (fls64_wide(w) * 84) \div 256 - 1
             shift == ToNat(ShiftRight(w, 3 * b))
             x == ((v[shift + 1] + 10) * Bit[b]) \div 64
             q == a \div (Guess(a) * (Guess(a) - 1))
             wide == Over(Over(w, Guess(a)), Guess(a) - 1)
  <2>6. cubic_root_wide(w) = IF shift >= 64 THEN 0 ELSE NewtonStep(w, x)
    BY <1>2, <1>4 DEF cubic_root_wide, Newton
  <2>7. b = Third(a)
    <3>1. fls64_wide(w) = fls64(a)
      BY <1>1, <1>4, FlsWide DEF a
    <3> QED
      BY <3>1 DEF Third
  <2>8. shift = Leading(a)
    <3> DEFINE s == ShiftRight(w, 3 * Third(a))
    <3>1. 3 * Third(a) \in Nat /\ 3 * Third(a) < 90
      BY <2>4
    <3>2. s \in Wide /\ Value(s) = a \div Bit[3 * Third(a)]
      BY <3>1, ShiftValue DEF a
    <3>3. Value(s) = Leading(a)
      BY <3>2 DEF Leading
    <3> HIDE DEF s
    <3>4. Value(s) < Bit[30]
      BY <2>2, <3>3, BigBits
    <3>5. ToNat(s) = Leading(a)
      BY <3>2, <3>3, <3>4, ToNatValue
    <3> QED
      BY <2>7, <3>5 DEF s
  <2> HIDE DEF b, shift
  <2>9. x = Guess(a)
    BY <2>7, <2>8 DEF Guess, Shifted
  <2> HIDE DEF x
  <2>10. cubic_root_wide(w) = NewtonStep(w, Guess(a))
    BY <2>2, <2>6, <2>8, <2>9
  <2>11. wide \in Wide /\ Value(wide) = q
    <3> DEFINE g == Guess(a)
    <3>1. g \in Nat /\ g >= 1 /\ g - 1 \in Nat /\ g - 1 >= 1
      BY <2>2, <2>5
    <3> HIDE DEF g
    <3>2. Over(w, g) \in Wide /\ Value(Over(w, g)) = a \div g
      BY <3>1, OverValue DEF a
    <3>3. /\ Over(Over(w, g), g - 1) \in Wide
          /\ Value(Over(Over(w, g), g - 1)) = (a \div g) \div (g - 1)
      BY <3>1, <3>2, OverValue
    <3>4. (a \div g) \div (g - 1) = a \div (g * (g - 1))
      BY <1>1, <3>1, DivDiv
    <3> QED
      BY <3>3, <3>4 DEF g
  <2>12. Refined(a) = 2 * Guess(a) + q
    BY DEF Refined
  <2> HIDE DEF wide, q
  <2>13. q \in Nat
    BY <2>11, WideDigits
  <2>14. q < Bit[30]
    BY <2>3, <2>5, <2>12, <2>13, BigBits, BitValues
  <2>15. ToNat(wide) = q
    BY <2>11, <2>14, ToNatValue
  <2>16. NewtonStep(w, Guess(a)) = (Refined(a) * 341) \div 1024
    BY <2>12, <2>15 DEF NewtonStep, wide
  <2>17. cubic_root(a) = (Refined(a) * 341) \div 1024
    <3>1. ~(a < 64) /\ ~(Leading(a) >= 64)
      BY <1>1, <2>1, <2>2
    <3> QED
      BY <3>1 DEF cubic_root
  <2> QED
    BY <2>10, <2>16, <2>17 DEF a
<1> QED
  BY <1>3, <1>4

(* The maximum of an epoch is at most a million packets and above the      *)
(* window.                                                                 *)
ExactInv ==
  /\ last_max_cwnd \in 17..Bit[20]
  /\ cwnd \in 16..(last_max_cwnd - 1)

LEMMA ExactInvariant == ExactSpec => []ExactInv
<1>1. ExactInit => ExactInv
  <2> SUFFICES ASSUME ExactInit PROVE ExactInv
    OBVIOUS
  <2>1. last_max_cwnd \in 17..Bit[20] /\ cwnd = 16
    BY CubicExactAssumption DEF ExactInit, hystart_low_window
  <2>2. Bit[20] \in Nat
    BY BitPositive
  <2> QED
    BY <2>1, <2>2 DEF ExactInv
<1>2. ExactInv /\ [NextWindow]_exactVars => ExactInv'
  <2> SUFFICES ASSUME ExactInv, [NextWindow]_exactVars PROVE ExactInv'
    OBVIOUS
  <2>1. Bit[20] \in Nat
    BY BitPositive
  <2>2. CASE NextWindow
    BY <2>1, <2>2 DEF ExactInv, NextWindow
  <2>3. CASE UNCHANGED exactVars
    BY <2>3 DEF ExactInv, exactVars
  <2> QED
    BY <2>2, <2>3
<1> QED
  BY <1>1, <1>2, PTL DEF ExactSpec

(* Products of less than 2^80 do not lose a carry.                         *)
LEMMA SmallTimes ==
  ASSUME NEW w \in Wide, NEW k \in Nat, Value(w) < Bit[60], k <= Bit[20]
  PROVE  Times(w, k) \in Wide /\ Value(Times(w, k)) = Value(w) * k
<1> DEFINE x == Value(w)  A == Bit[60]  B == Bit[20]
<1>1. x \in Nat /\ A \in Nat /\ B \in Nat /\ B >= 1 /\ x + 1 <= A /\ k <= B
  BY WideDigits, BitPositive
<1>2. Bit[80] = A * B
  <2>1. Bit[60 + 20] = A * B
    BY BitSum
  <2> QED
    BY <2>1
<1> HIDE DEF x, A, B
<1>3. x * k < A * B
  <2>1. x * k <= x * B
    BY <1>1, MulMono
  <2>2. B * (x + 1) <= B * A
    BY <1>1, MulMono
  <2> DEFINE xk == x * k  xb == x * B  ab == A * B
  <2>3. xk \in Nat /\ xb \in Nat /\ ab \in Nat /\ xk <= xb /\ xb + B <= ab
    BY <1>1, <2>1, <2>2
  <2> HIDE DEF xk, xb, ab
  <2>4. xk < ab
    BY <1>1, <2>3
  <2> QED
    BY <2>4 DEF xk, ab
<1>4. Value(w) * k < Bit[80]
  BY <1>2, <1>3 DEF x
<1> QED
  BY <1>4, TimesValue

LEMMA Sixty ==
  /\ Bit[20] = 1048576
  /\ Bit[60] = 1048576 * (1048576 * 1048576)
  /\ Bit[52] = 4294967296 * 1048576
<1>1. /\ Bit[20 + 40] = Bit[20] * Bit[40] /\ Bit[32 + 20] = Bit[32] * Bit[20]
  BY BitSum
<1>2. 20 + 40 = 60 /\ 32 + 20 = 52
  OBVIOUS
<1> QED
  BY <1>1, <1>2, BitValues, BigBits

(* cube_factor, and the argument of cubic_root.                            *)
LEMMA FactorFacts ==
  /\ cube_factor \in Wide /\ Value(cube_factor) \in Nat
  /\ 410 * Value(cube_factor) <= Bit[40]
  /\ Value(cube_factor) < Bit[32] /\ Bit[26] <= Value(cube_factor)
<1> DEFINE p == PowerOfTwo(40)
<1>1. p \in Wide /\ Value(p) = Bit[40]
  BY PowerValue
<1> HIDE DEF p
<1>2. cube_factor = Over(p, 410)
  BY DEF cube_factor, cube_rtt_scale, p
<1>3. cube_factor \in Wide /\ Value(cube_factor) = Bit[40] \div 410
  BY <1>1, <1>2, OverValue
<1> DEFINE f == Value(cube_factor)  B == Bit[40]
<1>4. B \in Nat /\ B = 1048576 * 1048576
  BY BigBits
<1>5. f = B \div 410
  BY <1>3
<1> HIDE DEF f, B
<1>6. f \in Nat /\ f * 410 <= B /\ B < f * 410 + 410
  BY <1>4, <1>5, DivBounds
<1>7. 410 * f <= B /\ f < 4294967296 /\ 67108864 <= f
  BY <1>4, <1>6
<1> QED
  BY <1>3, <1>6, <1>7, BigBits, BitValues DEF f, B

LEMMA ArgumentFacts ==
  ASSUME ExactInv
  PROVE  LET D == Distance
             F == Value(cube_factor)
             a == Times(cube_factor, D)
         IN  /\ D \in Nat /\ D >= 1 /\ D <= Bit[20]
             /\ a \in Wide /\ Value(a) = F * D
             /\ Bit[26] <= F * D /\ F * D < Bit[52]
<1> DEFINE D == Distance
           F == Value(cube_factor)
<1>1. D \in Nat /\ D >= 1 /\ D <= 1048576
  <2> DEFINE B == Bit[20]
  <2>0. B = 1048576
    BY Sixty, SMT
  <2>1. B \in Nat
    BY <2>0, SMT
  <2>2. last_max_cwnd \in 17..B /\ cwnd \in 16..(last_max_cwnd - 1)
    BY DEF ExactInv
  <2>3. D = last_max_cwnd - cwnd
    BY DEF Distance
  <2> HIDE DEF B, D
  <2>4. last_max_cwnd \in Nat /\ last_max_cwnd <= B
    BY <2>1, <2>2
  <2>5. cwnd \in Nat /\ 16 <= cwnd /\ cwnd + 1 <= last_max_cwnd
    BY <2>2, <2>4
  <2>6. D \in Nat /\ D >= 1 /\ D <= B
    BY <2>1, <2>3, <2>4, <2>5
  <2> QED
    BY <2>0, <2>6, SMT
<1>2. /\ cube_factor \in Wide /\ F \in Nat /\ F < 4294967296 /\ 67108864 <= F
  BY FactorFacts, BitValues, BigBits
<1> HIDE DEF D, F
<1>3. 67108864 <= F * D /\ F * D < 4294967296 * 1048576
  <2>1. F * 1 <= F * D
    BY <1>1, <1>2, MulMono
  <2>2. F * D <= F * 1048576
    BY <1>1, <1>2, MulMono
  <2> DEFINE x == F * D
  <2>3. x \in Nat /\ F <= x /\ x <= F * 1048576
    BY <1>1, <1>2, <2>1, <2>2
  <2> HIDE DEF x
  <2>4. 67108864 <= x /\ x < 4294967296 * 1048576
    BY <1>2, <2>3
  <2> QED
    BY <2>4 DEF x
<1>4. F < Bit[60]
  BY <1>2, Sixty
<1>5. Times(cube_factor, D) \in Wide /\ Value(Times(cube_factor, D)) = F * D
  BY <1>1, <1>2, <1>4, Sixty, SmallTimes DEF F
<1> QED
  BY <1>1, <1>3, <1>5, Sixty, BigBits DEF D, F

LEMMA RootFacts ==
  ASSUME ExactInv
  PROVE  LET x == Value(cube_factor) * Distance
         IN  /\ bic_K \in Nat /\ bic_K < Bit[20]
             /\ 6859 * x <= 8000 * Cubed(bic_K)
             /\ 8000 * Cubed(bic_K) <= 9261 * x
<1> DEFINE x == Value(cube_factor) * Distance
           a == Times(cube_factor, Distance)
           K == bic_K
<1>1. a \in Wide /\ Value(a) = x /\ Bit[26] <= x /\ x < Bit[52]
  BY ArgumentFacts
<1>2. x \in Nat
  BY <1>1, WideDigits
<1>3. bic_K = cubic_root_wide(a)
  BY DEF bic_K
<1> HIDE DEF x, a
<1>4. x < Bit[64]
  <2>1. Bit[52] <= Bit[64] /\ Bit[52] \in Nat /\ Bit[64] \in Nat
    BY BitMonotone, BitPositive
  <2> QED
    BY <1>1, <1>2, <2>1
<1>5. K = cubic_root(x)
  BY <1>1, <1>3, <1>4, WideRootIsRoot
<1> HIDE DEF K
<1>6. K \in Nat
  BY <1>2, <1>4, <1>5, RootType
<1>7. 6859 * x <= 8000 * Cubed(K) /\ 8000 * Cubed(K) <= 9261 * x
  BY <1>1, <1>2, <1>4, <1>5, RootWithinFivePercent
<1>8. K < 1048576
  <2>1. SUFFICES ASSUME 1048576 <= K PROVE FALSE
    BY <1>6
  <2>2. Cubed(1048576) <= Cubed(K) /\ Cubed(K) \in Nat
    BY <1>6, <2>1, CubeFacts, CubeNat
  <2> DEFINE k == Cubed(K)
  <2>3. /\ k \in Nat /\ 1048576 * 1048576 * 1048576 <= k
        /\ 8000 * k <= 9261 * x /\ x < 4294967296 * 1048576
    BY <1>1, <1>7, <2>2, Sixty DEF Cubed
  <2> HIDE DEF k
  <2> QED
    BY <1>2, <2>3
<1> QED
  BY <1>6, <1>7, <1>8, Sixty DEF K, x

LEMMA WideCube ==
  ASSUME NEW n \in Nat, n < Bit[20]
  PROVE  Cube(n) \in Wide /\ Value(Cube(n)) = Cubed(n) /\ Cubed(n) < Bit[60]
<1> DEFINE w == ToWide(n)
           w2 == Times(w, n)
           w3 == Times(w2, n)
           nn == n * n
           N == 1048576
<1>1. n < N /\ n <= Bit[20] /\ n < Bit[30] /\ n < Bit[60]
  BY Sixty, BigBits
<1>2. w \in Wide /\ Value(w) = n
  BY <1>1, ToWideValue
<1> HIDE DEF w
<1>3. w2 \in Wide /\ Value(w2) = nn
  BY <1>1, <1>2, SmallTimes
<1> HIDE DEF w2
<1>4. nn \in Nat /\ nn <= N * N
  <2>1. n * n <= n * N /\ N * n <= N * N
    BY <1>1, MulMono
  <2> QED
    BY <2>1
<1> HIDE DEF nn
<1>5. nn < Bit[60]
  BY <1>4, Sixty
<1>6. w3 \in Wide /\ Value(w3) = nn * n
  BY <1>1, <1>3, <1>5, SmallTimes
<1>7. nn * n = Cubed(n)
  BY DEF nn, Cubed
<1>8. Cube(n) = w3
  BY DEF Cube, w3, w2, w
<1>9. nn * n < Bit[60]
  <2>1. nn < N * N
    <3>1. n + 1 <= N
      BY <1>1
    <3>2. n * (n + 1) <= n * N /\ N * (n + 1) <= N * N
      BY <3>1, MulMono
    <3>3. n * (n + 1) = nn + n /\ nn \in Nat
      BY <1>4 DEF nn
    <3> QED
      BY <1>1, <1>4, <3>2, <3>3
  <2>2. nn * n <= nn * N
    BY <1>1, <1>4, MulMono
  <2> DEFINE c == nn * n
  <2>3. c \in Nat /\ c <= nn * 1048576
    BY <1>4, <2>2
  <2> HIDE DEF c
  <2>4. c < 1048576 * (1048576 * 1048576)
    BY <1>4, <2>1, <2>3, SMT
  <2> QED
    BY <2>4, Sixty DEF c
<1> QED
  BY <1>6, <1>7, <1>8, <1>9

(* With it the bounds on the root hold of the digits as of the numbers.    *)
LEMMA RootStaysClose == ExactInv => RootIsClose
<1> SUFFICES ASSUME ExactInv PROVE RootIsClose
  OBVIOUS
<1> DEFINE a == Times(cube_factor, Distance)
           x == Value(cube_factor) * Distance
           K == bic_K
           c == Cube(K)
           k == Cubed(K)
<1>1. a \in Wide /\ Value(a) = x /\ x < Bit[52]
  BY ArgumentFacts
<1>2. x \in Nat
  BY <1>1, WideDigits
<1>3. K \in Nat /\ K < Bit[20] /\ 6859 * x <= 8000 * k /\ 8000 * k <= 9261 * x
  BY RootFacts
<1>4. c \in Wide /\ Value(c) = k /\ k < Bit[60]
  BY <1>3, WideCube
<1>5. k \in Nat
  BY <1>3, CubeNat
<1>6. RootIsClose <=> /\ AtMost(Times(c, 8000), Times(a, 9261))
                      /\ AtMost(Times(a, 6859), Times(c, 8000))
  BY DEF RootIsClose
<1> HIDE DEF a, x, K, c, k
<1>7. /\ 8000 <= Bit[20] /\ 9261 <= Bit[20] /\ 6859 <= Bit[20]
      /\ x < Bit[60]
  <2>1. Bit[52] <= Bit[60] /\ Bit[52] \in Nat /\ Bit[60] \in Nat
    BY BitMonotone, BitPositive
  <2>2. x < Bit[60]
    BY <1>1, <1>2, <2>1
  <2> QED
    BY <2>2, Sixty
<1>8. /\ Times(c, 8000) \in Wide /\ Value(Times(c, 8000)) = k * 8000
  BY <1>4, <1>7, SmallTimes
<1>9. /\ Times(a, 9261) \in Wide /\ Value(Times(a, 9261)) = x * 9261
  BY <1>1, <1>7, SmallTimes
<1>10. /\ Times(a, 6859) \in Wide /\ Value(Times(a, 6859)) = x * 6859
  BY <1>1, <1>7, SmallTimes
<1>11. k * 8000 <= x * 9261 /\ x * 6859 <= k * 8000
  BY <1>2, <1>3, <1>5
<1>12. AtMost(Times(c, 8000), Times(a, 9261))
  BY <1>8, <1>9, <1>11, AtMostValue
<1>13. AtMost(Times(a, 6859), Times(c, 8000))
  BY <1>8, <1>10, <1>11, AtMostValue
<1> QED
  BY <1>6, <1>12, <1>13

(* The first point of the curve is below its origin by at most 1.16 times  *)
(* the distance from the window to it.                                     *)
LEMMA DepthBound ==
  ASSUME ExactInv
  PROVE  Depth \in Nat /\ 8000 * Depth <= 9261 * Distance
<1> DEFINE D == Distance
           F == Value(cube_factor)
           K == bic_K
           o == IF FirstT < K THEN K - FirstT ELSE 0
           w1 == Times(ToWide(410), o)
           w2 == Times(w1, o)
           w3 == Times(w2, o)
           s == ShiftRight(w3, 40)
           N == 1048576
<1>1. D \in Nat /\ D >= 1 /\ D <= Bit[20]
  BY ArgumentFacts
<1>2. F \in Nat /\ 410 * F <= Bit[40]
  BY FactorFacts
<1>3. K \in Nat /\ K < Bit[20] /\ 8000 * Cubed(K) <= 9261 * (F * D)
  BY RootFacts
<1>4. Depth = ToNat(s)
  BY DEF Depth, cube_rtt_scale
<1> HIDE DEF K
<1>5. o \in Nat /\ o <= K
  BY <1>3, CubicExactAssumption
<1> HIDE DEF D, F, o
<1>6. o <= N /\ o <= Bit[20]
  BY <1>3, <1>5, Sixty
<1>7. ToWide(410) \in Wide /\ Value(ToWide(410)) = 410
  BY BigBits, ToWideValue
<1>8. 410 < Bit[60]
  BY Sixty, SMT
<1>9. w1 \in Wide /\ Value(w1) = 410 * o
  BY <1>5, <1>6, <1>7, <1>8, SmallTimes
<1> HIDE DEF w1
<1> DEFINE oo == o * o
<1>10. oo \in Nat /\ oo <= N * N
  <2>1. o * o <= o * N /\ N * o <= N * N
    BY <1>5, <1>6, MulMono
  <2> QED
    BY <1>5, <1>6, <2>1
<1>11. w2 \in Wide /\ Value(w2) = 410 * oo
  <2>1. 410 * o < Bit[60]
    BY <1>5, <1>6, Sixty, SMT
  <2>2. w2 \in Wide /\ Value(w2) = (410 * o) * o
    BY <1>5, <1>6, <1>9, <2>1, SmallTimes
  <2> QED
    BY <1>5, <2>2
<1> HIDE DEF oo, w2
<1>12. w3 \in Wide /\ Value(w3) = 410 * Cubed(o)
  <2>1. 410 * oo < Bit[60]
    BY <1>10, Sixty, SMT
  <2>2. w3 \in Wide /\ Value(w3) = (410 * oo) * o
    BY <1>5, <1>6, <1>11, <2>1, SmallTimes
  <2>3. (410 * oo) * o = 410 * Cubed(o)
    BY <1>5 DEF oo, Cubed
  <2> QED
    BY <2>2, <2>3
<1> HIDE DEF w3
<1> DEFINE d == (410 * Cubed(o)) \div Bit[40]
           C == Bit[40]
           ko == Cubed(o)
           kk == Cubed(K)
<1>13. s \in Wide /\ Value(s) = d
  BY <1>12, ShiftValue
<1> HIDE DEF s
<1>14. ko \in Nat /\ kk \in Nat /\ ko <= kk
  <2>1. K \in Nat
    BY <1>3
  <2>2. Cubed(o) \in Nat /\ Cubed(K) \in Nat
    BY <1>5, <2>1, CubeNat
  <2>3. Cubed(o) <= Cubed(K)
    BY <1>5, <2>1, CubeFacts
  <2> QED
    BY <2>2, <2>3
<1>15. C \in Nat /\ C >= 1
  BY BitPositive
<1>16. d \in Nat /\ d * C <= 410 * ko
  <2> DEFINE y == 410 * Cubed(o)
  <2>1. y \in Nat /\ d = y \div C
    BY <1>14
  <2> HIDE DEF y, d, C
  <2>2. d \in Nat /\ d * C <= y
    BY <1>15, <2>1, DivBounds
  <2> QED
    BY <2>2 DEF y, ko
<1> HIDE DEF d, ko, kk
<1>17. 8000 * kk <= 9261 * (F * D) /\ 410 * F <= C
  BY <1>2, <1>3 DEF kk
<1> HIDE DEF C
<1>18. (8000 * d) * C <= (9261 * D) * C
  <2> DEFINE m == d * C  fd == F * D  cd == C * D
  <2>1. m \in Nat /\ fd \in Nat /\ cd \in Nat
    BY <1>1, <1>2, <1>15, <1>16
  <2>2. D * (410 * F) <= D * C
    BY <1>1, <1>2, <1>15, <1>17, MulMono
  <2>3. 410 * fd <= cd
    BY <1>1, <1>2, <1>15, <2>2
  <2>4. m <= 410 * ko /\ 8000 * kk <= 9261 * fd
    BY <1>16, <1>17
  <2>5. (8000 * d) * C = 8000 * m /\ (9261 * D) * C = 9261 * cd
    BY <1>1, <1>15, <1>16
  <2> HIDE DEF m, fd, cd
  <2>6. 8000 * m <= 9261 * cd
    BY <1>14, <2>1, <2>3, <2>4
  <2> QED
    BY <2>5, <2>6
<1>19. 8000 * d <= 9261 * D
  BY <1>1, <1>15, <1>16, <1>18, CancelFactor
<1>20. d < Bit[30]
  BY <1>1, <1>16, <1>19, Sixty, BigBits, SMT
<1>21. ToNat(s) = d
  BY <1>13, <1>20, ToNatValue
<1> QED
  BY <1>4, <1>16, <1>19, <1>21 DEF D

LEMMA CurveFits == ExactInv => CurveFitsAfterReduction
<1> SUFFICES ASSUME ExactInv, 10 * cwnd >= 7 * last_max_cwnd
             PROVE  Depth <= last_max_cwnd
  BY DEF CurveFitsAfterReduction
<1> DEFINE B == Bit[20]
<1>1. B \in Nat
  BY BitPositive
<1>2. last_max_cwnd \in 17..B /\ cwnd \in 16..(last_max_cwnd - 1)
  BY DEF ExactInv
<1> HIDE DEF B
<1>3. last_max_cwnd \in Nat /\ cwnd \in Nat
  BY <1>1, <1>2
<1>4. Depth \in Nat /\ 8000 * Depth <= 9261 * Distance
  BY DepthBound
<1>5. Distance = last_max_cwnd - cwnd
  BY DEF Distance
<1> QED
  BY <1>3, <1>4, <1>5

(* For every set of windows up to a million packets and every window above *)
(* hystart_low_window: the K of an epoch is within 5% of the cubic root of *)
(* cube_factor times the distance (bpfcubic.bpf.c:249-277, 316-317).       *)
THEOREM ExactRootIsClose == ExactSpec => []RootIsClose
BY ExactInvariant, RootStaysClose, PTL

(* Of those epochs, one that starts from 70% of the maximum or more starts *)
(* its curve above zero: origin - delta does not wrap, whatever t is then  *)
(* (bpfcubic.bpf.c:341-350, 476).                                          *)
THEOREM ExactCurveFits == ExactSpec => []CurveFitsAfterReduction
BY ExactInvariant, CurveFits, PTL
=============================================================================
