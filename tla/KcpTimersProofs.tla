--------------------------- MODULE KcpTimersProofs ---------------------------
(***************************************************************************)
(* Proofs about KcpTimers: its types, the round-trip estimate for all      *)
(* samples, the congestion window and the count of overtakings.            *)
(***************************************************************************)
EXTENDS KcpTimers, TLAPS, WellFoundedInduction

(* Times: arithmetic modulo TsMod. *)

\* The quotient of the remainder.
LEMMA Quotient ==
    ASSUME NEW m \in Nat \ {0}, NEW x \in Int
    PROVE  x % m \in 0..(m - 1) /\ \E q \in Int : x - (x % m) = q * m
<1>1. x \div m \in Int
  BY SMT
<1>2. x % m \in 0..(m - 1)
  BY SMT
<1>3. x = (x \div m) * m + (x % m)
  BY SMT
<1>4. PICK q \in Int, r \in 0..(m - 1) : q = x \div m /\ r = x % m
  BY <1>1, <1>2
<1>5. q * m \in Int
  BY SMT
<1>6. x - r = q * m
  BY <1>3, <1>4, <1>5
<1> QED BY <1>4, <1>6, Zenon

LEMMA Remainder ==
    ASSUME NEW m \in Nat \ {0}, NEW x \in Int, NEW y \in 0..(m - 1),
           NEW q \in Int, x - y = q * m
    PROVE  x % m = y
BY SMT

LEMMA SameRemainder ==
    ASSUME NEW m \in Nat \ {0}, NEW x \in Int, NEW z \in Int, NEW q \in Int, x - z = q * m
    PROVE  x % m = z % m
<1>1. PICK p \in Int : z - (z % m) = p * m
  BY Quotient
<1>2. PICK y : y = z % m
  OBVIOUS
<1>3. y \in 0..(m - 1)
  BY <1>2, Quotient
<1>4. p * m \in Int /\ q * m \in Int /\ (p + q) * m = p * m + q * m /\ p + q \in Int
  BY SMT
<1>5. PICK u \in Int, v \in Int : u = p * m /\ v = q * m
  BY <1>4
<1>6. x - y = u + v
  <2>1. z - y = u
    BY <1>1, <1>2, <1>5, Zenon
  <2>2. x - z = v
    BY <1>5
  <2> QED BY <1>3, <1>5, <2>1, <2>2
<1>7. x - y = (p + q) * m
  BY <1>4, <1>5, <1>6
<1>8. x % m = y
  BY <1>3, <1>4, <1>7, Remainder
<1> QED BY <1>2, <1>8

\* A difference of times is what it seems, up to turns of the clock; it is the
\* only one of its size.
LEMMA TimediffIs ==
    ASSUME NEW a \in Int, NEW b \in Int
    PROVE  /\ timediff(a, b) \in Int
           /\ 0 - TsMod <= 2 * timediff(a, b) /\ 2 * timediff(a, b) < TsMod
           /\ \E q \in Int : (a - b) - timediff(a, b) = q * TsMod
<1> DEFINE d == (a - b) % TsMod
<1>1. TsMod \in Nat \ {0}
  BY ArithmeticAssumption
<1>2. d \in 0..(TsMod - 1) /\ \E q \in Int : (a - b) - d = q * TsMod
  <2>1. a - b \in Int
    OBVIOUS
  <2> QED BY <1>1, <2>1, Quotient, Zenon
<1>3. PICK q \in Int : (a - b) - d = q * TsMod
  BY <1>2
<1>4. timediff(a, b) = IF 2 * d >= TsMod THEN d - TsMod ELSE d
  BY DEF timediff
<1> HIDE DEF d
<1>5. q * TsMod \in Int /\ (q + 1) * TsMod = q * TsMod + TsMod /\ q + 1 \in Int
  BY <1>1, SMT
<1>6. CASE 2 * d >= TsMod
  <2>1. PICK u \in Int : u = q * TsMod
    BY <1>5
  <2>2. (a - b) - timediff(a, b) = u + TsMod
    BY <1>1, <1>2, <1>3, <1>4, <1>6, <2>1
  <2>3. (a - b) - timediff(a, b) = (q + 1) * TsMod
    BY <1>5, <2>1, <2>2
  <2> QED BY <1>1, <1>2, <1>4, <1>5, <1>6, <2>3
<1>7. CASE ~(2 * d >= TsMod)
  BY <1>1, <1>2, <1>3, <1>4, <1>7
<1> QED BY <1>6, <1>7

LEMMA OnlyTimediff ==
    ASSUME NEW a \in Int, NEW b \in Int, NEW x \in Int, 0 - TsMod <= 2 * x, 2 * x < TsMod,
           NEW q \in Int, (a - b) - x = q * TsMod
    PROVE  timediff(a, b) = x
<1>1. TsMod \in Nat \ {0} /\ q * TsMod \in Int /\ a - b \in Int
  BY ArithmeticAssumption, SMT
<1>2. timediff(a, b) = LET d == (a - b) % TsMod IN IF 2 * d >= TsMod THEN d - TsMod ELSE d
  BY DEF timediff
<1>3. CASE x >= 0
  <2>1. x \in 0..(TsMod - 1)
    BY <1>1, <1>3
  <2>2. (a - b) % TsMod = x
    BY <1>1, <2>1, Remainder
  <2>3. timediff(a, b) = IF 2 * x >= TsMod THEN x - TsMod ELSE x
    BY <1>2, <2>2, Zenon
  <2> QED BY <1>1, <2>3
<1>4. CASE x < 0
  <2>1. (q - 1) * TsMod = q * TsMod - TsMod /\ q - 1 \in Int
    BY <1>1, SMT
  <2>2. (a - b) - (x + TsMod) = (q - 1) * TsMod
    BY <1>1, <2>1
  <2>3. x + TsMod \in 0..(TsMod - 1)
    BY <1>1, <1>4
  <2>4. (a - b) % TsMod = x + TsMod
    BY <1>1, <2>1, <2>2, <2>3, Remainder
  <2>5. timediff(a, b) = IF 2 * (x + TsMod) >= TsMod THEN (x + TsMod) - TsMod ELSE x + TsMod
    BY <1>2, <2>4, Zenon
  <2> QED BY <1>1, <1>4, <2>5
<1> QED BY <1>3, <1>4

\* After stays on the clock, and moves a time by d.
LEMMA AfterIs ==
    ASSUME NEW t \in Int, NEW d \in Int
    PROVE  After(t, d) \in Clock /\ \E q \in Int : (t + d) - After(t, d) = q * TsMod
<1>1. TsMod \in Nat \ {0} /\ t + d \in Int
  BY ArithmeticAssumption
<1>2. /\ (t + d) % TsMod \in 0..(TsMod - 1)
      /\ \E q \in Int : (t + d) - ((t + d) % TsMod) = q * TsMod
  BY <1>1, Quotient
<1> QED BY <1>2, Zenon DEF After, Clock

LEMMA Moved ==
    ASSUME NEW a \in Int, NEW b \in Int, NEW d \in Int
    PROVE  /\ LET x == timediff(a, b) + d
              IN  0 - TsMod <= 2 * x /\ 2 * x < TsMod => timediff(After(a, d), b) = x
           /\ LET x == timediff(a, b) - d
              IN  0 - TsMod <= 2 * x /\ 2 * x < TsMod => timediff(a, After(b, d)) = x
<1>1. PICK r : r = timediff(a, b)
  OBVIOUS
<1>2. r \in Int /\ \E q \in Int : (a - b) - r = q * TsMod
  BY <1>1, TimediffIs
<1>3. PICK q \in Int : (a - b) - r = q * TsMod
  BY <1>2
<1>4. TsMod \in Nat \ {0} /\ q * TsMod \in Int
  BY ArithmeticAssumption, SMT
<1>5. ASSUME 0 - TsMod <= 2 * (r + d), 2 * (r + d) < TsMod
      PROVE  timediff(After(a, d), b) = r + d
  <2>1. PICK p \in Int : (a + d) - After(a, d) = p * TsMod
    BY AfterIs
  <2>2. PICK c : c = After(a, d)
    OBVIOUS
  <2>3. c \in Int
    BY <1>4, <2>2, AfterIs DEF Clock
  <2>4. p * TsMod \in Int /\ (q - p) * TsMod = q * TsMod - p * TsMod /\ q - p \in Int
    BY <1>4, SMT
  <2>5. (c - b) - (r + d) = (q - p) * TsMod
    BY <1>2, <1>3, <1>4, <2>1, <2>2, <2>3, <2>4
  <2>6. timediff(c, b) = r + d
    BY <1>2, <1>5, <2>3, <2>4, <2>5, OnlyTimediff
  <2> QED BY <2>2, <2>6
<1>6. ASSUME 0 - TsMod <= 2 * (r - d), 2 * (r - d) < TsMod
      PROVE  timediff(a, After(b, d)) = r - d
  <2>1. PICK p \in Int : (b + d) - After(b, d) = p * TsMod
    BY AfterIs
  <2>2. PICK c : c = After(b, d)
    OBVIOUS
  <2>3. c \in Int
    BY <1>4, <2>2, AfterIs DEF Clock
  <2>4. p * TsMod \in Int /\ (q + p) * TsMod = q * TsMod + p * TsMod /\ q + p \in Int
    BY <1>4, SMT
  <2>5. (a - c) - (r - d) = (q + p) * TsMod
    BY <1>2, <1>3, <1>4, <2>1, <2>2, <2>3, <2>4
  <2>6. timediff(a, c) = r - d
    BY <1>2, <1>6, <2>3, <2>4, <2>5, OnlyTimediff
  <2> QED BY <2>2, <2>6
<1> QED BY <1>1, <1>5, <1>6

\* The other way round, but for the point opposite on the clock.
LEMMA Opposite ==
    ASSUME NEW a \in Int, NEW b \in Int
    PROVE  /\ timediff(a, b) > 0 => timediff(b, a) = -timediff(a, b)
           /\ timediff(a, b) = 0 => timediff(b, a) = 0
<1>1. PICK r : r = timediff(a, b)
  OBVIOUS
<1>2. /\ r \in Int /\ 0 - TsMod <= 2 * r /\ 2 * r < TsMod
      /\ \E q \in Int : (a - b) - r = q * TsMod
  BY <1>1, TimediffIs
<1>3. PICK q \in Int : (a - b) - r = q * TsMod
  BY <1>2
<1>4. q * TsMod \in Int /\ (-q) * TsMod = -(q * TsMod) /\ -q \in Int /\ TsMod \in Nat
  BY ArithmeticAssumption, SMT
<1>5. (b - a) - (-r) = (-q) * TsMod
  BY <1>2, <1>3, <1>4
<1>6. r >= 0 => timediff(b, a) = -r
  BY <1>2, <1>4, <1>5, OnlyTimediff
<1> QED BY <1>1, <1>2, <1>6

LEMMA SameTime ==
    ASSUME NEW a \in Int
    PROVE  timediff(a, a) = 0
<1>1. (a - a) - 0 = 0 * TsMod /\ 0 < TsMod /\ TsMod \in Nat
  BY ArithmeticAssumption
<1> QED BY <1>1, OnlyTimediff

-----------------------------------------------------------------------------
\* Every set of numbers that is bounded on the right side has a least or a
\* greatest one.
LEMMA LeastNat ==
    ASSUME NEW S \in SUBSET Nat, S # {}
    PROVE  \E a \in S : \A b \in S : a <= b
<1>1. PICK x \in S : \A y \in S : ~(<<y, x>> \in OpToRel(<, Nat))
  BY WFMin, NatLessThanWellFounded
<1>2. \A y \in S : ~(y < x)
  BY <1>1 DEF OpToRel
<1> QED BY <1>2

LEMMA LeastIs ==
    ASSUME NEW S \in SUBSET Int, S # {}, NEW low \in Int, \A a \in S : low <= a
    PROVE  Least(S) \in S /\ \A b \in S : Least(S) <= b
<1> DEFINE N == {n \in Nat : low + n \in S}
<1>1. N # {}
  <2>1. PICK a \in S : TRUE
    OBVIOUS
  <2>2. a - low \in N
    BY <2>1
  <2> QED BY <2>2
<1>2. PICK n \in N : \A k \in N : n <= k
  BY <1>1, LeastNat
<1>3. \A b \in S : low + n <= b
  <2> SUFFICES ASSUME NEW b \in S PROVE low + n <= b
    OBVIOUS
  <2>1. b - low \in N /\ b \in Int
    OBVIOUS
  <2>2. n <= b - low /\ n \in Nat
    BY <1>2, <2>1
  <2> QED BY <2>1, <2>2
<1>4. \E a \in S : \A b \in S : a <= b
  BY <1>2, <1>3
<1> QED BY <1>4 DEF Least

LEMMA GreatestIs ==
    ASSUME NEW S \in SUBSET Int, S # {}, NEW high \in Int, \A a \in S : a <= high
    PROVE  Greatest(S) \in S /\ \A b \in S : b <= Greatest(S)
<1> DEFINE N == {n \in Nat : high - n \in S}
<1>1. N # {}
  <2>1. PICK a \in S : TRUE
    OBVIOUS
  <2>2. high - a \in N
    BY <2>1
  <2> QED BY <2>2
<1>2. PICK n \in N : \A k \in N : n <= k
  BY <1>1, LeastNat
<1>3. \A b \in S : b <= high - n
  <2> SUFFICES ASSUME NEW b \in S PROVE b <= high - n
    OBVIOUS
  <2>1. high - b \in N /\ b \in Int
    OBVIOUS
  <2>2. n <= high - b /\ n \in Nat
    BY <1>2, <2>1
  <2> QED BY <2>1, <2>2
<1>4. \E a \in S : \A b \in S : b <= a
  BY <1>2, <1>3
<1> QED BY <1>4 DEF Greatest
-----------------------------------------------------------------------------
(* The round-trip estimate. *)

\* A step of a w-th towards b, rounded down, stays between 0 and any bound of
\* both: what x += (b - x) >> k does to a non-negative x.
LEMMA Step ==
    ASSUME NEW a \in Nat, NEW b \in Nat, NEW w \in {4, 8, 32}
    PROVE  /\ a + (b - a) \div w \in Nat
           /\ \A m \in Nat : a <= m /\ b <= m => a + (b - a) \div w <= m
<1>1. CASE w = 4
  BY <1>1, SMT
<1>2. CASE w = 8
  BY <1>2, SMT
<1>3. CASE w = 32
  BY <1>3, SMT
<1> QED BY <1>1, <1>2, <1>3

\* The assumptions on the constants, with the sets taken apart.
LEMMA Constants ==
    /\ RtoNdl \in Nat /\ RtoMin \in Nat /\ RtoDef \in Nat /\ RtoMax \in Nat
    /\ RtoNdl <= RtoMin /\ RtoMin <= RtoDef /\ RtoDef <= RtoMax
    /\ Rtts \subseteq Nat
    /\ \A e \in Ends : e.interval \in Nat
BY EndAssumption, RtoAssumption, InputAssumption

-----------------------------------------------------------------------------
\* RttBounded with the types that make it inductive.
RttInv ==
    /\ end \in Ends
    /\ rx_srtt \in Nat /\ rx_rttvar \in Nat /\ rx_rto \in Nat
    /\ RttBounded

LEMMA RttInit == Init => RttInv
<1> SUFFICES ASSUME Init PROVE RttInv
  OBVIOUS
<1>1. end \in Ends /\ rx_srtt = 0 /\ rx_rttvar = 0 /\ rx_rto = RtoDef
  BY DEF Init
<1>2. minrto \in Nat /\ minrto <= RtoDef
  BY Constants DEF minrto
<1>3. rx_rto \in minrto..RtoMax
  BY <1>1, <1>2, Constants
<1>4. \A rtt \in Rtts : rx_srtt <= rtt /\ rx_rttvar <= rtt
  BY <1>1, Constants
<1> QED BY <1>1, <1>3, <1>4, Constants DEF RttInv, RttBounded

\* One sample.
LEMMA RttSample ==
    ASSUME RttInv, NEW rtt \in Rtts, update_ack(rtt), end' = end
    PROVE  RttInv'
<1> DEFINE weight == IF rtt < Srtt(rtt) - rx_rttvar THEN 32 ELSE 4
           d == Abs(rtt - rx_srtt)
<1>1. /\ end \in Ends /\ rtt \in Nat /\ end.interval \in Nat
      /\ rx_srtt \in Nat /\ rx_rttvar \in Nat
  BY Constants DEF RttInv
<1>2. d \in Nat /\ \A m \in Nat : rtt <= m /\ rx_srtt <= m => d <= m
  BY <1>1 DEF Abs
<1>3. /\ rx_srtt' \in Nat
      /\ \A m \in Nat : rtt <= m /\ rx_srtt <= m => rx_srtt' <= m
  <2>1. rx_srtt' = IF rx_srtt = 0 THEN rtt ELSE rx_srtt + (rtt - rx_srtt) \div 8
    BY DEF update_ack, Srtt
  <2> QED BY <1>1, <2>1, Step
<1>4. /\ rx_rttvar' \in Nat
      /\ \A m \in Nat : rtt <= m /\ rx_srtt <= m /\ rx_rttvar <= m => rx_rttvar' <= m
  <2>1. CASE rx_srtt = 0
    <3>1. rx_rttvar' = rtt \div 2
      BY <2>1 DEF update_ack, Rttvar
    <3>2. rtt \div 2 \in Nat /\ rtt \div 2 <= rtt
      BY <1>1, SMT
    <3> QED BY <1>1, <3>1, <3>2
  <2>2. CASE rx_srtt # 0
    <3>1. rx_rttvar' = rx_rttvar + (d - rx_rttvar) \div weight
      BY <2>2 DEF update_ack, Rttvar
    <3>2. weight \in {4, 8, 32}
      OBVIOUS
    <3> HIDE DEF d, weight
    <3> QED BY <1>1, <1>2, <3>1, <3>2, Step
  <2> QED BY <2>1, <2>2
<1>5. /\ rx_rto' \in minrto'..RtoMax
      /\ rx_rto' >= Min2(RtoMax, rx_srtt' + end.interval)
  <2>1. rx_rto' = Bound(minrto, rx_srtt' + Max2(end.interval, 4 * rx_rttvar'), RtoMax)
    BY DEF update_ack
  <2>2. minrto' = minrto /\ minrto \in Nat /\ minrto <= RtoMax
    BY Constants DEF minrto
  <2>3. ASSUME NEW s \in Nat, NEW v \in Nat, NEW i \in Nat, NEW lo \in Nat,
               NEW hi \in Nat, lo <= hi
        PROVE  /\ Bound(lo, s + Max2(i, 4 * v), hi) \in lo..hi
               /\ Bound(lo, s + Max2(i, 4 * v), hi) >= Min2(hi, s + i)
    BY <2>3 DEF Bound, Min2, Max2
  <2> QED BY <1>1, <1>3, <1>4, <2>1, <2>2, <2>3, Constants
<1>6. \A r \in Rtts : (\A q \in Rtts : q <= r) => rx_srtt' <= r /\ rx_rttvar' <= r
  <2> SUFFICES ASSUME NEW r \in Rtts, \A q \in Rtts : q <= r
               PROVE  rx_srtt' <= r /\ rx_rttvar' <= r
    OBVIOUS
  <2>1. r \in Nat /\ rtt <= r /\ rx_srtt <= r /\ rx_rttvar <= r
    BY Constants DEF RttInv, RttBounded
  <2> QED BY <1>3, <1>4, <2>1
<1>7. rx_rto' \in Nat
  BY <1>5, Constants DEF minrto
<1> QED BY <1>1, <1>3, <1>4, <1>5, <1>6, <1>7 DEF RttInv, RttBounded

\* Nothing but a sample touches the estimate.
LEMMA RttStep == RttInv /\ [Next]_vars => RttInv'
<1> SUFFICES ASSUME RttInv, [Next]_vars PROVE RttInv'
  OBVIOUS
<1>1. ASSUME end' = end, UNCHANGED ackVars PROVE RttInv'
  BY <1>1 DEF ackVars, RttInv, RttBounded, minrto
<1>2. CASE Tick
  BY <1>1, <1>2 DEF Tick
<1>3. CASE ClockSet
  BY <1>1, <1>3 DEF ClockSet
<1>4. CASE Poll
  BY <1>1, <1>4 DEF Poll
<1>5. CASE ClientServeKcp
  BY <1>1, <1>5 DEF ClientServeKcp
<1>6. CASE ServerServeKcp
  BY <1>1, <1>6 DEF ServerServeKcp
<1>7. CASE Send
  BY <1>1, <1>7 DEF Send
<1>10. CASE Doze \/ ServerIclock
  BY <1>1, <1>10 DEF Doze, ServerIclock
<1>8. CASE Input
  <2>1. end' = end
    BY <1>8 DEF Input
  <2>2. UNCHANGED ackVars \/ \E rtt \in Rtts : update_ack(rtt)
    BY <1>8 DEF Input
  <2> QED BY <1>1, <2>1, <2>2, RttSample
<1>9. CASE UNCHANGED vars
  BY <1>1, <1>9 DEF vars
<1> QED BY <1>2, <1>3, <1>4, <1>5, <1>6, <1>7, <1>8, <1>9, <1>10 DEF Next

\* For every set of samples and every setting of the constants, the smoothed
\* round trip and its deviation stay within the samples, and the timeout
\* within its limits and above a round trip and one flush (update_ack,
\* kcp.go:347).
THEOREM RttCorrect == Spec => []RttBounded
<1>1. RttInv => RttBounded
  BY DEF RttInv
<1> QED BY <1>1, RttInit, RttStep, PTL DEF Spec
-----------------------------------------------------------------------------
(* What the helpers and handlers do to the buffer. *)

LEMMA Numbers ==
    /\ Mss \in Nat /\ SndWnd \in Nat /\ U32 \in Nat /\ TsMod \in Nat /\ SlapMax \in Nat
    /\ Mss > 0 /\ SndWnd > 0 /\ U32 > 0 /\ TsMod > 0 /\ SlapMax > 0
    /\ ProbeInit \in Nat /\ ProbeInit > 0 /\ ProbeLimit \in Nat /\ ProbeInit <= ProbeLimit
    /\ RtoNdl > 0 /\ RtoMin > 0 /\ MinNap \in Nat /\ MinNap > 0
    /\ TsStart \in Clock /\ MaxTicks \in Nat /\ MaxJumps \in Nat /\ MaxMissed \in Nat
BY RtoAssumption, NapAssumption, ArithmeticAssumption, LimitAssumption, ClockAssumption DEF Clock

\* Windows and what a fast retransmission makes of them fit in uint32.
LEMMA Windows ==
    /\ 1 < U32 /\ Mss < U32
    /\ \A w \in Wnds : w \in Nat /\ w < U32 /\ (w + 3) * Mss < U32
    /\ SndWnd < U32 /\ (SndWnd + 3) * Mss < U32
    /\ \A e \in Ends : (SndWnd + 3 + e.resend) * Mss < U32 /\ e.resend < U32
<1>1. \A x \in Nat : x <= x * Mss
  BY Numbers, SMT
<1>2. ASSUME NEW w \in Nat, (w + 3) * Mss < U32
      PROVE  w < U32 /\ 1 < U32
  <2>1. w + 3 <= (w + 3) * Mss
    BY <1>1
  <2>2. PICK p : p = (w + 3) * Mss
    OBVIOUS
  <2>3. p \in Nat
    BY <2>2, Numbers, SMT
  <2> QED BY <1>2, <2>1, <2>2, <2>3, Numbers
<1>3. \A w \in Wnds : w \in Nat /\ (w + 3) * Mss < U32
  BY WindowAssumption, InputAssumption
<1>4. (SndWnd + 3) * Mss < U32
  BY WindowAssumption
<1>5. Mss < U32
  <2>1. (SndWnd + 3) * Mss = SndWnd * Mss + Mss + Mss + Mss /\ SndWnd * Mss \in Nat
    BY Numbers, SMT
  <2>2. PICK p \in Nat : p = SndWnd * Mss
    BY <2>1
  <2> QED BY <1>4, <2>1, <2>2, Numbers
<1> QED BY <1>2, <1>3, <1>4, <1>5, Numbers, WindowAssumption

LEMMA EndIs ==
    ASSUME NEW e \in Ends
    PROVE  /\ e.nap \in Nat /\ e.interval \in Nat /\ e.resend \in Nat /\ e.nap > 0 /\ e.interval > 0
           /\ MinNap <= e.nap /\ e.interval <= SlapMax
BY EndAssumption, PaceAssumption

LEMMA HalfTurn ==
    ASSUME NEW e \in Ends
    PROVE  2 * (SlapMax + e.nap) < TsMod
<1>1. PICK x \in Nat : x = SlapMax + e.nap
  BY EndIs, Numbers
<1>2. 2 * ((MaxMissed + 1) * x) < TsMod
  BY <1>1, ClockAssumption, Zenon
<1>3. (MaxMissed + 1) * x = MaxMissed * x + x /\ MaxMissed * x \in Nat
  BY <1>1, Numbers, SMT
<1>4. PICK m \in Nat : m = MaxMissed * x
  BY <1>3
<1>5. (MaxMissed + 1) * x = m + x
  BY <1>3, <1>4, Zenon
<1>6. 2 * (m + x) < TsMod
  BY <1>2, <1>5, Zenon
<1> QED BY <1>1, <1>4, <1>6, Numbers

\* snd_una is the first unacknowledged number, or the next one.
LEMMA UnaIs ==
    ASSUME TypeOK
    PROVE  /\ snd_una \in Nat /\ snd_una <= snd_nxt
           /\ \A i \in DOMAIN snd_buf : i \in Nat /\ snd_una <= i /\ i < snd_nxt
           /\ snd_una = snd_nxt \/ snd_una \in DOMAIN snd_buf
<1>1. snd_nxt \in Nat /\ DOMAIN snd_buf \subseteq 0..(snd_nxt - 1)
  BY DEF TypeOK
<1>2. CASE DOMAIN snd_buf = {}
  BY <1>1, <1>2 DEF snd_una
<1>3. CASE DOMAIN snd_buf # {}
  <2>1. PICK D : D = DOMAIN snd_buf
    OBVIOUS
  <2>2. D \in SUBSET Int /\ D # {} /\ \A a \in D : 0 <= a
    BY <1>1, <1>3, <2>1
  <2>3. Least(D) \in D /\ \A b \in D : Least(D) <= b
    BY <2>2, LeastIs
  <2> QED BY <1>1, <1>3, <2>1, <2>3 DEF snd_una
<1> QED BY <1>2, <1>3

\* parse_fastack touches nothing but the counts of segments below some
\* acknowledged one.
CountsTrue(s, s1, i, acks) ==
    /\ s1.rto = s.rto /\ s1.resendts = s.resendts
    /\ s1.fastack = s.fastack \/ \E j \in acks : i < j

LEMMA OvertakenIs ==
    ASSUME NEW D \in SUBSET Int, NEW buf \in [D -> Timer], NEW una \in Int,
           NEW acks, acks # {} => Greatest(acks) \in acks,
           NEW b, b = Overtaken(buf, una, acks)
    PROVE  b \in [D -> Timer] /\ \A i \in D : CountsTrue(buf[i], b[i], i, acks)
<1>1. PICK maxack : maxack = Greatest(acks)
  OBVIOUS
<1>2. acks # {} => maxack \in acks
  BY <1>1
<1>3. ASSUME NEW s \in Timer
      PROVE  LET r == [s EXCEPT !.fastack = @ + 1]
             IN  r \in Timer /\ r.rto = s.rto /\ r.resendts = s.resendts
  <2>1. s.fastack + 1 \in Nat
    BY DEF Timer
  <2> QED BY <2>1 DEF Timer
<1>4. CASE acks = {} \/ maxack < una
  BY <1>1, <1>4 DEF Overtaken, CountsTrue
<1>5. CASE ~(acks = {} \/ maxack < una)
  <2>1. b =
          [i \in D |-> IF i < maxack THEN [buf[i] EXCEPT !.fastack = @ + 1] ELSE buf[i]]
    BY <1>1, <1>5 DEF Overtaken
  <2> QED BY <1>2, <1>3, <1>5, <2>1 DEF CountsTrue
<1> QED BY <1>4, <1>5

\* An acknowledgement takes segments out of the buffer, and counts on others
\* only what is true.
LEMMA InputIs ==
    ASSUME TypeOK, Input
    PROVE  /\ DOMAIN snd_buf' \subseteq DOMAIN snd_buf
           /\ snd_buf' \in [DOMAIN snd_buf' -> Timer]
           /\ \A i \in DOMAIN snd_buf' :
                 /\ snd_buf'[i].rto = snd_buf[i].rto
                 /\ snd_buf'[i].resendts = snd_buf[i].resendts
                 /\ \/ snd_buf'[i].fastack = snd_buf[i].fastack
                    \/ \E j \in (i + 1)..(snd_nxt - 1) : j \notin DOMAIN snd_buf'
           /\ rmt_wnd' \in Wnds
           /\ \/ UNCHANGED congVars
              \/ cwnd < rmt_wnd' /\ CwndAfterAck /\ UNCHANGED ssthresh
<1>1. PICK una \in snd_una..snd_nxt, wnd \in Wnds : \E acks \in SUBSET (una..(snd_nxt - 1)) :
          LET left == {i \in DOMAIN snd_buf : i >= una /\ i \notin acks}
              kept == [i \in left |-> snd_buf[i]]
              una1 == IF left = {} THEN snd_nxt ELSE Least(left)
          IN  /\ rmt_wnd' = wnd
              /\ snd_buf' = Overtaken(kept, una1, acks)
              /\ IF una1 > snd_una /\ cwnd < wnd THEN CwndAfterAck /\ UNCHANGED ssthresh
                                                 ELSE UNCHANGED congVars
  BY DEF Input
<1>2. PICK acks \in SUBSET (una..(snd_nxt - 1)) :
          LET left == {i \in DOMAIN snd_buf : i >= una /\ i \notin acks}
              kept == [i \in left |-> snd_buf[i]]
              una1 == IF left = {} THEN snd_nxt ELSE Least(left)
          IN  /\ rmt_wnd' = wnd
              /\ snd_buf' = Overtaken(kept, una1, acks)
              /\ IF una1 > snd_una /\ cwnd < wnd THEN CwndAfterAck /\ UNCHANGED ssthresh
                                                 ELSE UNCHANGED congVars
  BY <1>1
<1> DEFINE left == {i \in DOMAIN snd_buf : i >= una /\ i \notin acks}
           kept == [i \in left |-> snd_buf[i]]
           una1 == IF left = {} THEN snd_nxt ELSE Least(left)
<1>3. /\ snd_una \in Nat /\ snd_nxt \in Nat /\ snd_buf \in [DOMAIN snd_buf -> Timer]
      /\ DOMAIN snd_buf \subseteq 0..(snd_nxt - 1)
  BY UnaIs DEF TypeOK
<1>4. left \subseteq DOMAIN snd_buf /\ left \in SUBSET Int /\ kept \in [left -> Timer]
  BY <1>3
<1>5. una1 \in Int
  <2>1. CASE left = {}
    BY <1>3, <2>1
  <2>2. CASE left # {}
    <3>1. \A a \in left : 0 <= a
      BY <1>3
    <3> HIDE DEF left
    <3>2. Least(left) \in left
      BY <1>4, <2>2, <3>1, LeastIs
    <3> QED BY <1>4, <2>2, <3>2
  <2> QED BY <2>1, <2>2
<1>6. una \in Int /\ snd_nxt - 1 \in Int
  BY <1>3
<1>7. /\ rmt_wnd' = wnd /\ snd_buf' = Overtaken(kept, una1, acks)
      /\ UNCHANGED congVars \/ (cwnd < wnd /\ CwndAfterAck /\ UNCHANGED ssthresh)
  <2>1. /\ rmt_wnd' = wnd /\ snd_buf' = Overtaken(kept, una1, acks)
        /\ IF una1 > snd_una /\ cwnd < wnd THEN CwndAfterAck /\ UNCHANGED ssthresh
                                           ELSE UNCHANGED congVars
    BY <1>2, Zenon
  <2> HIDE DEF left, kept, una1
  <2> QED BY <2>1, Zenon
<1>8. \A i \in left : kept[i] = snd_buf[i] /\ i \in Int /\ i >= una /\ i \notin acks
  BY <1>3
<1>9. \A j \in acks : j \notin left /\ j \in Int /\ j <= snd_nxt - 1
  BY <1>3
<1> HIDE DEF left, kept, una1
<1>10. snd_buf' \in [left -> Timer] /\ \A i \in left : CountsTrue(kept[i], snd_buf'[i], i, acks)
  <2>1. PICK b : b = snd_buf'
    OBVIOUS
  <2>2. acks # {} => Greatest(acks) \in acks
    <3>1. acks \in SUBSET Int /\ \A a \in acks : a <= snd_nxt - 1
      BY <1>3
    <3> QED BY <1>6, <3>1, GreatestIs
  <2>3. PICK buf \in [left -> Timer], u \in Int : buf = kept /\ u = una1
    BY <1>4, <1>5
  <2>4. b = Overtaken(buf, u, acks)
    BY <1>7, <2>1, <2>3
  <2>5. b \in [left -> Timer] /\ \A i \in left : CountsTrue(buf[i], b[i], i, acks)
    BY <1>4, <2>2, <2>4, OvertakenIs
  <2> QED BY <2>1, <2>3, <2>5
<1>11. DOMAIN snd_buf' = left
  BY <1>10
<1>12. \A i \in left : \A j \in acks : i < j => j \in (i + 1)..(snd_nxt - 1) /\ j \notin left
  BY <1>8, <1>9
<1> QED BY <1>4, <1>7, <1>8, <1>10, <1>11, <1>12 DEF CountsTrue

-----------------------------------------------------------------------------
(* flush, Check and who calls them. *)

\* flush with m new segments, these late and those fast, by the window w.
Sent(m, late, fast) ==
    [i \in DOMAIN snd_buf \cup (snd_nxt..(snd_nxt + m - 1)) |->
       IF i \in (snd_nxt..(snd_nxt + m - 1)) \cup fast THEN Fresh
       ELSE IF i \in late THEN BackedOff(snd_buf[i]) ELSE snd_buf[i]]

Late == {i \in DOMAIN snd_buf : timediff(now, snd_buf[i].resendts) >= 0}

FlushesBy(m, fast, w) ==
    /\ ProbeTimer
    /\ queued' = queued - m /\ snd_nxt' = snd_nxt + m
    /\ snd_buf' = Sent(m, Late, fast)
    /\ CwndAfterFlush(fast # {}, Late # {}, w, snd_nxt + m - snd_una)
    /\ flushed' = now /\ missed' = 0 /\ quiet' = 0

\* No more goes out than is queued and the peer's window takes.
LEMMA FlushIs ==
    ASSUME TypeOK, flush
    PROVE  \E m \in Nat, w \in Nat, fast \in SUBSET (DOMAIN snd_buf) :
              /\ m <= queued /\ (m > 0 => snd_nxt + m <= snd_una + w)
              /\ w <= SndWnd /\ FlushesBy(m, fast, w)
<1> DEFINE w == IF end.nc THEN Min2(SndWnd, rmt_wnd) ELSE Min2(cwnd, Min2(SndWnd, rmt_wnd))
           m == Min2(queued, Max2(0, snd_una + w - snd_nxt))
           late == {i \in DOMAIN snd_buf : timediff(now, snd_buf[i].resendts) >= 0}
           fast == {i \in DOMAIN snd_buf \ late : \/ snd_buf[i].fastack >= Resent
                                                  \/ snd_buf[i].fastack > 0 /\ m = 0}
           new  == snd_nxt..(snd_nxt + m - 1)
<1>1. /\ ProbeTimer /\ queued' = queued - m /\ snd_nxt' = snd_nxt + m
      /\ snd_buf' = [i \in DOMAIN snd_buf \cup new |->
                       IF i \in new \cup fast THEN Fresh
                       ELSE IF i \in late THEN BackedOff(snd_buf[i]) ELSE snd_buf[i]]
      /\ CwndAfterFlush(fast # {}, late # {}, w, snd_nxt + m - snd_una)
      /\ flushed' = now /\ missed' = 0 /\ quiet' = 0
  BY Zenon DEF flush
<1>2. late = Late /\ fast \in SUBSET (DOMAIN snd_buf)
  BY DEF Late
<1> HIDE DEF late, fast
<1>3. w \in Nat /\ w <= SndWnd
  BY Numbers DEF TypeOK, Min2
<1> HIDE DEF w
<1>4. m \in Nat /\ m <= queued /\ (m > 0 => snd_nxt + m <= snd_una + w)
  BY <1>3, UnaIs DEF TypeOK, Min2, Max2
<1> HIDE DEF m
<1>5. snd_buf' = Sent(m, Late, fast)
  BY <1>1, <1>2, Zenon DEF Sent
<1>6. FlushesBy(m, fast, w)
  BY <1>1, <1>2, <1>5, Zenon DEF FlushesBy
<1> QED BY <1>2, <1>3, <1>4, <1>6

\* Check names a time within the interval, and 0 when a flush is due.
LEMMA CheckIs ==
    ASSUME TypeOK
    PROVE  /\ Check \in Nat /\ Check <= end.interval
           /\ Check # 0 => updated /\ timediff(now, FlushTime) < 0
<1>1. end.interval \in Nat /\ now \in Int /\ FlushTime \in Int
  BY EndIs, Numbers DEF TypeOK, FlushTime, Clock
<1>2. CASE ~updated \/ timediff(now, FlushTime) >= 0
  BY <1>1, <1>2 DEF Check
<1>3. CASE ~(~updated \/ timediff(now, FlushTime) >= 0)
  <2> DEFINE resends == {timediff(snd_buf[i].resendts, now) : i \in DOMAIN snd_buf}
             all == resends \cup {timediff(FlushTime, now), end.interval}
  <2>1. \A i \in DOMAIN snd_buf : snd_buf[i].resendts \in Int
    BY DEF TypeOK, Timer, Clock
  <2>2. all \in SUBSET Int /\ \A a \in all : 0 - TsMod <= a
    <3>1. \A i \in DOMAIN snd_buf : LET r == timediff(snd_buf[i].resendts, now)
                                    IN  r \in Int /\ 0 - TsMod <= r
      <4> SUFFICES ASSUME NEW i \in DOMAIN snd_buf
                   PROVE  LET r == timediff(snd_buf[i].resendts, now)
                          IN  r \in Int /\ 0 - TsMod <= r
        OBVIOUS
      <4>1. PICK r : r = timediff(snd_buf[i].resendts, now)
        OBVIOUS
      <4>2. r \in Int /\ 0 - TsMod <= 2 * r
        BY <1>1, <2>1, <4>1, TimediffIs
      <4> QED BY <4>1, <4>2, Numbers
    <3>2. LET r == timediff(FlushTime, now) IN r \in Int /\ 0 - TsMod <= r
      <4>1. PICK r : r = timediff(FlushTime, now)
        OBVIOUS
      <4>2. r \in Int /\ 0 - TsMod <= 2 * r
        BY <1>1, <4>1, TimediffIs
      <4> QED BY <4>1, <4>2, Numbers
    <3>3. end.interval \in Int /\ 0 - TsMod <= end.interval
      BY <1>1, Numbers
    <3> QED BY <3>1, <3>2, <3>3
  <2>3. end.interval \in all
    OBVIOUS
  <2>4. Check = Max2(Least(all), 0)
    BY <1>3 DEF Check
  <2> HIDE DEF all
  <2>5. Least(all) \in Int /\ Least(all) <= end.interval
    <3>1. all # {} /\ 0 - TsMod \in Int
      BY <2>3, Numbers
    <3>2. Least(all) \in all /\ \A b \in all : Least(all) <= b
      BY <2>2, <3>1, LeastIs
    <3> QED BY <2>2, <2>3, <3>2
  <2>6. PICK n \in Int : n = Least(all)
    BY <2>5
  <2>7. timediff(now, FlushTime) \in Int
    BY <1>1, TimediffIs
  <2> QED BY <1>1, <1>3, <2>4, <2>5, <2>6, <2>7 DEF Max2
<1> QED BY <1>2, <1>3

\* The other channels can only shorten the nap that this one asks for.
LEMMA NapIs ==
    ASSUME NEW own \in Nat, NEW others \in {{}} \cup {{n} : n \in Naps}
    PROVE  LET mints == Least({own} \cup others) IN mints \in Nat /\ mints <= own
<1>1. Naps \subseteq Nat
  BY NapAssumption
<1>2. PICK S : S = {own} \cup others
  OBVIOUS
<1>3. S \in SUBSET Int /\ S # {} /\ own \in S /\ \A a \in S : 0 <= a
  BY <1>1, <1>2
<1>4. Least(S) \in S /\ Least(S) <= own
  BY <1>3, LeastIs
<1>5. Least(S) \in Nat
  <2>1. PICK n \in S : n = Least(S)
    BY <1>4
  <2>2. n \in Int /\ 0 <= n
    BY <1>3, <2>1
  <2> QED BY <2>1, <2>2
<1> QED BY <1>2, <1>4, <1>5

\* The time the server asks for, in ticks from its first look at the clock.
Asked == LET rts == After(now, Check) IN IF rts = curts THEN MinNap ELSE (rts - curts) % TsMod

LEMMA AskedIs ==
    ASSUME TypeOK, curts # NoTime
    PROVE  Asked \in Nat /\ After(now, Check) \in Clock
<1>1. curts \in Clock /\ Clock \subseteq Int /\ now \in Int /\ MinNap \in Nat
  BY Numbers, NapAssumption DEF TypeOK, Clock
<1>2. PICK r \in Clock : r = After(now, Check)
  <2>1. PICK c \in Int : c = Check
    BY CheckIs
  <2> QED BY <1>1, <2>1, AfterIs
<1>3. r - curts \in Int
  BY <1>1, <1>2
<1>4. (r - curts) % TsMod \in Nat
  BY <1>3, Quotient, Numbers
<1> QED BY <1>1, <1>2, <1>4 DEF Asked

\* What serving does: an update, or nothing but that a flush may be missed.
LEMMA ServerServes ==
    ASSUME TypeOK, ServerServeKcp
    PROVE  /\ curts # NoTime /\ curts' = NoTime
           /\ UNCHANGED <<end, now, sleep, awake, polled, rmt_wnd, ackVars, pastVars>>
           /\ wait' \in Nat /\ (wait' = MinNap \/ wait' <= Asked)
           /\ \/ Update /\ After(now, Check) = curts
              \/ /\ UNCHANGED <<updated, ts_flush>> /\ NoFlush
                 /\ missed' = IF timediff(now, FlushTime) >= 0 THEN missed + 1 ELSE missed
                 /\ After(now, Check) # curts
<1>1. /\ curts # NoTime /\ curts' = NoTime
      /\ UNCHANGED <<end, now, sleep, awake, polled, rmt_wnd, ackVars, pastVars>>
  BY DEF ServerServeKcp
<1>2. PICK others \in {{}} \cup {{n} : n \in Naps} :
        LET rts   == After(now, Check)
            nxts  == IF rts = curts THEN MinNap ELSE (rts - curts) % TsMod
            mints == Least({nxts} \cup others)
            idle  == mints > MinNap /\ mints # TsMod - 1
        IN  /\ wait' = IF idle THEN mints ELSE MinNap
            /\ IF ~idle /\ rts = curts THEN Update
               ELSE /\ UNCHANGED <<updated, ts_flush>> /\ NoFlush
                    /\ missed' = IF timediff(now, FlushTime) >= 0 THEN missed + 1 ELSE missed
  BY DEF ServerServeKcp
<1>3. PICK nxts, mints : nxts = Asked /\ mints = Least({nxts} \cup others)
  OBVIOUS
<1>4. /\ wait' = IF mints > MinNap /\ mints # TsMod - 1 THEN mints ELSE MinNap
      /\ IF ~(mints > MinNap /\ mints # TsMod - 1) /\ After(now, Check) = curts THEN Update
         ELSE /\ UNCHANGED <<updated, ts_flush>> /\ NoFlush
              /\ missed' = IF timediff(now, FlushTime) >= 0 THEN missed + 1 ELSE missed
  BY <1>2, <1>3, Zenon DEF Asked
<1>5. mints \in Nat /\ mints <= nxts /\ nxts \in Nat
  BY <1>1, <1>3, AskedIs, NapIs
<1>6. wait' \in Nat /\ (wait' = MinNap \/ wait' <= Asked)
  BY <1>3, <1>4, <1>5, NapAssumption
<1>7. ASSUME After(now, Check) = curts PROVE ~(mints > MinNap)
  <2>1. nxts = MinNap
    BY <1>3, <1>7, Zenon DEF Asked
  <2> QED BY <1>5, <2>1, NapAssumption
<1>8. \/ Update /\ After(now, Check) = curts
      \/ /\ UNCHANGED <<updated, ts_flush>> /\ NoFlush
         /\ missed' = IF timediff(now, FlushTime) >= 0 THEN missed + 1 ELSE missed
         /\ After(now, Check) # curts
  BY <1>4, <1>7, Zenon
<1> QED BY <1>1, <1>6, <1>8

\* What each step does to the buffer and the window.
Serves ==
    /\ UNCHANGED <<now, sleep, awake, rmt_wnd, ackVars, pastVars>>
    /\ polled' \in BOOLEAN /\ wait' \in Nat /\ curts' \in {curts, NoTime}
    /\ \/ Update
       \/ /\ UNCHANGED <<updated, ts_flush>> /\ NoFlush
          /\ missed' \in {missed, missed + 1}

LEMMA Served ==
    ASSUME TypeOK, ClientServeKcp \/ ServerServeKcp
    PROVE  Serves /\ end' = end
<1>1. CASE ClientServeKcp
  BY <1>1 DEF ClientServeKcp, Serves, TypeOK
<1>2. CASE ServerServeKcp
  BY <1>2, ServerServes DEF Serves, TypeOK
<1> QED BY <1>1, <1>2
-----------------------------------------------------------------------------
(* Types. *)

\* No more is in flight than the own window.
InFlight == \A i \in DOMAIN snd_buf : snd_nxt - i <= SndWnd

Typed == TypeOK /\ InFlight

LEMMA EndTypes == end \in Ends => minrto \in Nat /\ minrto > 0
BY Numbers, Constants DEF minrto

LEMMA TypedInit == Init => Typed
<1> SUFFICES ASSUME Init PROVE Typed
  OBVIOUS
<1>1. DOMAIN snd_buf = {} /\ snd_buf \in [DOMAIN snd_buf -> Timer] /\ end \in Ends
  BY DEF Init
<1>2. end.interval \in Clock
  <2>1. PICK e \in Ends : e = end
    BY <1>1
  <2>2. 2 * (SlapMax + e.nap) < TsMod /\ e.interval <= SlapMax /\ e.nap \in Nat /\ e.interval \in Nat
    BY EndIs, HalfTurn
  <2> QED BY <2>1, <2>2, Numbers DEF Clock
<1>3. /\ now \in Clock /\ flushed \in Clock /\ ts_flush \in Clock /\ ts_probe \in Clock
  BY <1>2, Numbers DEF Init, Clock
<1>4. cwnd \in 0..(U32 - 1) /\ incr \in 0..(U32 - 1) /\ probe_wait \in 0..ProbeLimit
  BY Numbers DEF Init
<1>5. /\ sleep \in Nat /\ wait \in Nat /\ {awake, polled, torn} \subseteq BOOLEAN /\ updated \in BOOLEAN
      /\ curts \in Clock \cup {NoTime}
  BY <1>1, EndIs DEF Init
<1>6. /\ queued \in Nat /\ snd_nxt \in Nat /\ rmt_wnd \in Nat /\ ssthresh \in Nat \ {0, 1}
      /\ {rx_srtt, rx_rttvar, rx_rto} \subseteq Nat /\ {ticks, jumps, back, missed, quiet} \subseteq Nat
  BY Numbers, Constants DEF Init
<1> QED BY <1>1, <1>3, <1>4, <1>5, <1>6 DEF Typed, TypeOK, InFlight

\* The zero-window probe.
LEMMA ProbeTyped ==
    ASSUME TypeOK, ProbeTimer
    PROVE  ts_probe' \in Clock /\ probe_wait' \in 0..ProbeLimit
<1>1. PICK p \in Nat : p = probe_wait /\ p <= ProbeLimit
  BY DEF TypeOK
<1>2. PICK longer :
         longer = Min2(Max2(p, ProbeInit) + Max2(p, ProbeInit) \div 2, ProbeLimit)
  OBVIOUS
<1>3. longer \in 0..ProbeLimit
  <2>1. PICK q \in Nat : q = Max2(p, ProbeInit)
    BY Numbers DEF Max2
  <2>2. q \div 2 \in Nat
    BY SMT
  <2> QED BY <1>2, <2>1, <2>2, Numbers DEF Min2
<1>4. PICK wait1 \in 0..ProbeLimit : wait1 = IF p = 0 THEN ProbeInit ELSE longer
  BY <1>3, Numbers
<1>5. IF rmt_wnd # 0 THEN ts_probe' = 0 /\ probe_wait' = 0
      ELSE IF probe_wait = 0 \/ timediff(now, ts_probe) >= 0
      THEN ts_probe' = After(now, wait1) /\ probe_wait' = wait1
      ELSE UNCHANGED probeVars
  BY <1>1, <1>2, <1>4, Zenon DEF ProbeTimer
<1>6. After(now, wait1) \in Clock
  BY <1>4, AfterIs, Numbers DEF TypeOK, Clock
<1>7. 0 \in Clock /\ 0 \in 0..ProbeLimit
  BY Numbers DEF Clock
<1> QED BY <1>5, <1>6, <1>7 DEF probeVars, TypeOK

\* The segments of the buffer.
LEMMA SegmentTyped ==
    ASSUME TypeOK
    PROVE  /\ Fresh \in Timer /\ Fresh.rto = rx_rto /\ Fresh.resendts = After(now, rx_rto)
           /\ Fresh.fastack = 0
           /\ \A s \in Timer : \E more \in {rx_rto, rx_rto \div 2} :
                 /\ BackedOff(s) \in Timer /\ BackedOff(s).rto = s.rto + more
                 /\ BackedOff(s).resendts = After(now, s.rto + more)
                 /\ BackedOff(s).fastack = s.fastack
<1>1. rx_rto \in Nat /\ rx_rto \div 2 \in Nat /\ now \in Int
  <2>1. rx_rto \in Nat /\ now \in Int
    BY Numbers DEF TypeOK, Clock
  <2>2. rx_rto \div 2 \in Nat
    BY <2>1, SMT
  <2> QED BY <2>1, <2>2
<1>2. \A d \in Nat : After(now, d) \in Clock
  BY <1>1, AfterIs
<1>3. Fresh \in Timer
  BY <1>1, <1>2 DEF Fresh, Timer
<1>4. ASSUME NEW s \in Timer
      PROVE  \E more \in {rx_rto, rx_rto \div 2} :
                 /\ BackedOff(s) \in Timer /\ BackedOff(s).rto = s.rto + more
                 /\ BackedOff(s).resendts = After(now, s.rto + more)
                 /\ BackedOff(s).fastack = s.fastack
  <2>1. PICK more \in {rx_rto, rx_rto \div 2} :
           more = IF end.nodelay THEN rx_rto \div 2 ELSE rx_rto
    OBVIOUS
  <2>2. s.rto \in Nat /\ more \in Nat /\ s.rto + more \in Nat
    BY <1>1, <2>1 DEF Timer
  <2>3. BackedOff(s) = [s EXCEPT !.rto = s.rto + more, !.resendts = After(now, s.rto + more)]
    BY <2>1 DEF BackedOff
  <2>4. After(now, s.rto + more) \in Clock
    BY <1>2, <2>2
  <2>5. PICK t \in Clock : t = After(now, s.rto + more)
    BY <2>4
  <2> QED BY <2>1, <2>2, <2>3, <2>5 DEF Timer
<1> QED BY <1>3, <1>4 DEF Fresh

\* What a flush makes of the buffer.
LEMMA SentIs ==
    ASSUME TypeOK, NEW m \in Nat, NEW fast \in SUBSET (DOMAIN snd_buf),
           snd_buf' = Sent(m, Late, fast), snd_nxt' = snd_nxt + m
    PROVE  /\ DOMAIN snd_buf' = DOMAIN snd_buf \cup (snd_nxt..(snd_nxt + m - 1))
           /\ DOMAIN snd_buf' \subseteq 0..(snd_nxt' - 1)
           /\ snd_buf' \in [DOMAIN snd_buf' -> Timer]
           /\ \A i \in DOMAIN snd_buf' :
                 \/ snd_buf'[i] = Fresh
                 \/ i \in DOMAIN snd_buf /\ snd_buf'[i] = BackedOff(snd_buf[i]) /\ i \in Late
                 \/ i \in DOMAIN snd_buf /\ snd_buf'[i] = snd_buf[i] /\ i \notin Late
<1>1. /\ snd_nxt \in Nat /\ DOMAIN snd_buf \subseteq 0..(snd_nxt - 1)
      /\ snd_buf \in [DOMAIN snd_buf -> Timer]
  BY DEF TypeOK
<1>2. PICK new : new = snd_nxt..(snd_nxt + m - 1)
  OBVIOUS
<1>3. snd_buf' = [i \in DOMAIN snd_buf \cup new |->
                    IF i \in new \cup fast THEN Fresh
                    ELSE IF i \in Late THEN BackedOff(snd_buf[i]) ELSE snd_buf[i]]
  BY <1>2 DEF Sent
<1>4. new \subseteq 0..(snd_nxt' - 1) /\ 0..(snd_nxt - 1) \subseteq 0..(snd_nxt' - 1)
  BY <1>1, <1>2
<1>5. /\ DOMAIN snd_buf' = DOMAIN snd_buf \cup new
      /\ \A i \in DOMAIN snd_buf' :
            \/ snd_buf'[i] = Fresh
            \/ i \in DOMAIN snd_buf /\ snd_buf'[i] = BackedOff(snd_buf[i]) /\ i \in Late
            \/ i \in DOMAIN snd_buf /\ snd_buf'[i] = snd_buf[i] /\ i \notin Late
  BY <1>3
<1>6. \A i \in DOMAIN snd_buf' : snd_buf'[i] \in Timer
  BY <1>1, <1>5, SegmentTyped
<1>7. snd_buf' \in [DOMAIN snd_buf' -> Timer]
  BY <1>3, <1>6
<1> QED BY <1>1, <1>2, <1>4, <1>5, <1>7

\* The congestion window stays within uint32, after a flush and after an
\* acknowledgement.
LEMMA CwndFlushTyped ==
    ASSUME TypeOK, NEW change \in BOOLEAN, NEW lost \in BOOLEAN, NEW w \in Nat, NEW f \in Nat,
           CwndAfterFlush(change, lost, w, f)
    PROVE  {cwnd', incr'} \subseteq 0..(U32 - 1) /\ ssthresh' \in Nat \ {0, 1}
<1>1. /\ cwnd \in Nat /\ incr \in Nat /\ cwnd <= U32 - 1 /\ incr <= U32 - 1
      /\ ssthresh \in Nat \ {0, 1}
  BY DEF TypeOK
<1>2. U32 \in Nat \ {0} /\ \A x \in Int : x % U32 \in 0..(U32 - 1)
  BY Numbers, Quotient
<1>3. 1 \in 0..(U32 - 1) /\ Mss \in 0..(U32 - 1)
  BY Windows, Numbers
<1>4. w \div 2 \in Nat /\ f \div 2 \in Nat
  BY SMT
<1>5. PICK ss1 : ss1 = IF change THEN Max2(f \div 2, 2) ELSE ssthresh
  OBVIOUS
<1>6. ss1 \in Nat \ {0, 1}
  BY <1>1, <1>4, <1>5 DEF Max2
<1>7. Resent \in Int
  BY Numbers, EndIs DEF Resent, TypeOK
<1>8. PICK c1 : c1 = IF change THEN CwndAfterFast(ss1) ELSE cwnd
  OBVIOUS
<1>9. c1 \in 0..(U32 - 1)
  <2>1. CwndAfterFast(ss1) \in 0..(U32 - 1)
    BY <1>2, <1>6, <1>7 DEF CwndAfterFast
  <2> QED BY <1>1, <1>8, <2>1, Numbers
<1>10. (c1 * Mss) % U32 \in 0..(U32 - 1)
  <2>1. c1 * Mss \in Int
    BY <1>9, Numbers, SMT
  <2> QED BY <1>2, <2>1
<1>11. /\ ssthresh' = IF lost THEN Max2(w \div 2, 2) ELSE ss1
       /\ cwnd' = IF lost \/ c1 < 1 THEN 1 ELSE c1
       /\ incr' = IF lost \/ c1 < 1 THEN Mss ELSE IF change THEN (c1 * Mss) % U32 ELSE incr
  BY <1>5, <1>8, Zenon DEF CwndAfterFlush
<1>12. PICK i1 \in 0..(U32 - 1) : i1 = (c1 * Mss) % U32
  BY <1>10
<1>13. incr' \in 0..(U32 - 1) /\ cwnd' \in 0..(U32 - 1)
  BY <1>1, <1>3, <1>9, <1>11, <1>12, Numbers
<1>14. Max2(w \div 2, 2) \in Nat \ {0, 1}
  BY <1>4 DEF Max2
<1> QED BY <1>6, <1>11, <1>13, <1>14

LEMMA CwndAckTyped ==
    ASSUME TypeOK, CwndAfterAck, rmt_wnd' \in Wnds, cwnd < rmt_wnd'
    PROVE  {cwnd', incr'} \subseteq 0..(U32 - 1)
<1>1. /\ cwnd \in Nat /\ incr \in Nat /\ cwnd <= U32 - 1 /\ incr <= U32 - 1
      /\ ssthresh \in Nat \ {0, 1}
  BY DEF TypeOK
<1>2. U32 \in Nat \ {0} /\ \A x \in Int : x % U32 \in 0..(U32 - 1)
  BY Numbers, Quotient
<1>3. 1 \in 0..(U32 - 1) /\ Mss \in 0..(U32 - 1)
  BY Windows, Numbers
<1>4. PICK grown, open :
         /\ grown \in 0..(U32 - 1)
         /\ cwnd' = Min2(IF open THEN cwnd + 1 ELSE cwnd, rmt_wnd')
         /\ incr' = IF (IF open THEN cwnd + 1 ELSE cwnd) > rmt_wnd' THEN (rmt_wnd' * Mss) % U32
                    ELSE IF cwnd < ssthresh THEN (incr + Mss) % U32 ELSE grown
  <2> DEFINE base == Max2(incr, Mss)
             grown == (base + (Mss * Mss) \div base + Mss \div 16) % U32
             open == cwnd < ssthresh \/ ((cwnd + 1) * Mss) % U32 <= grown
  <2>1. /\ cwnd' = Min2(IF open THEN cwnd + 1 ELSE cwnd, rmt_wnd')
        /\ incr' = IF (IF open THEN cwnd + 1 ELSE cwnd) > rmt_wnd' THEN (rmt_wnd' * Mss) % U32
                   ELSE IF cwnd < ssthresh THEN (incr + Mss) % U32 ELSE grown
    BY Zenon DEF CwndAfterAck
  <2> HIDE DEF open
  <2>2. grown \in 0..(U32 - 1)
    <3>1. base \in Nat /\ base > 0
      BY <1>1, Numbers DEF Max2
    <3> HIDE DEF base
    <3>2. Mss * Mss \in Int
      BY Numbers, SMT
    <3>3. (Mss * Mss) \div base \in Int
      BY <3>1, <3>2, SMT
    <3>4. Mss \div 16 \in Int
      BY Numbers, SMT
    <3>5. base + (Mss * Mss) \div base + Mss \div 16 \in Int
      BY <3>1, <3>3, <3>4
    <3> QED BY <1>2, <3>5
  <2> HIDE DEF grown
  <2> QED BY <2>1, <2>2
<1>5. rmt_wnd' \in Nat /\ rmt_wnd' <= U32 - 1
  BY Windows, Numbers
<1>6. PICK i1 \in 0..(U32 - 1) : i1 = (rmt_wnd' * Mss) % U32
  <2>1. rmt_wnd' * Mss \in Int
    BY <1>5, Numbers, SMT
  <2> QED BY <1>2, <2>1
<1>7. PICK i2 \in 0..(U32 - 1) : i2 = (incr + Mss) % U32
  BY <1>1, <1>2, Numbers
<1>8. incr' \in 0..(U32 - 1)
  BY <1>4, <1>6, <1>7
<1>9. cwnd' \in 0..(U32 - 1)
  <2>1. PICK r \in Nat : r = rmt_wnd' /\ r <= U32 - 1
    BY <1>5
  <2>2. PICK c \in Nat : c = IF open THEN cwnd + 1 ELSE cwnd
    BY <1>1
  <2>3. cwnd' = Min2(c, r)
    BY <1>4, <2>1, <2>2
  <2> QED BY <2>1, <2>2, <2>3, Numbers DEF Min2
<1> QED BY <1>8, <1>9

\* A flush.
LEMMA FlushTyped ==
    ASSUME Typed, flush
    PROVE  /\ queued' \in Nat /\ snd_nxt' \in Nat
           /\ DOMAIN snd_buf' \subseteq 0..(snd_nxt' - 1) /\ snd_buf' \in [DOMAIN snd_buf' -> Timer]
           /\ ts_probe' \in Clock /\ probe_wait' \in 0..ProbeLimit
           /\ {cwnd', incr'} \subseteq 0..(U32 - 1) /\ ssthresh' \in Nat \ {0, 1}
           /\ missed' \in Nat /\ quiet' \in Nat /\ flushed' \in Clock
           /\ InFlight'
<1> USE DEF Typed
<1>1. PICK m \in Nat, w \in Nat, fast \in SUBSET (DOMAIN snd_buf) :
         /\ m <= queued /\ (m > 0 => snd_nxt + m <= snd_una + w)
         /\ w <= SndWnd /\ FlushesBy(m, fast, w)
  BY FlushIs
<1>2. /\ ProbeTimer /\ queued' = queued - m /\ snd_nxt' = snd_nxt + m
      /\ snd_buf' = Sent(m, Late, fast)
      /\ CwndAfterFlush(fast # {}, Late # {}, w, snd_nxt + m - snd_una)
      /\ flushed' = now /\ missed' = 0 /\ quiet' = 0
  BY <1>1 DEF FlushesBy
<1>3. snd_nxt \in Nat /\ queued \in Nat /\ now \in Clock
  BY DEF TypeOK
<1>4. /\ DOMAIN snd_buf' = DOMAIN snd_buf \cup (snd_nxt..(snd_nxt + m - 1))
      /\ DOMAIN snd_buf' \subseteq 0..(snd_nxt' - 1) /\ snd_buf' \in [DOMAIN snd_buf' -> Timer]
  BY <1>2, SentIs
<1>5. ts_probe' \in Clock /\ probe_wait' \in 0..ProbeLimit
  BY <1>2, ProbeTyped
<1>6. {cwnd', incr'} \subseteq 0..(U32 - 1) /\ ssthresh' \in Nat \ {0, 1}
  <2>1. snd_nxt + m - snd_una \in Nat
    BY <1>3, UnaIs
  <2>2. (fast # {}) \in BOOLEAN /\ (Late # {}) \in BOOLEAN
    OBVIOUS
  <2> QED BY <1>2, <2>1, <2>2, CwndFlushTyped
<1>7. InFlight'
  <2> SUFFICES ASSUME NEW i \in DOMAIN snd_buf' PROVE snd_nxt' - i <= SndWnd
    BY DEF InFlight
  <2>1. /\ snd_una \in Nat /\ snd_una <= snd_nxt
        /\ \A j \in DOMAIN snd_buf : j \in Nat /\ snd_una <= j
    BY UnaIs
  <2>2. i \in Nat /\ snd_una <= i
    BY <1>3, <1>4, <2>1
  <2>3. CASE m > 0
    BY <1>1, <1>2, <1>3, <2>1, <2>2, <2>3, Numbers
  <2>4. CASE m = 0
    <3>1. i \in DOMAIN snd_buf /\ snd_nxt' = snd_nxt
      BY <1>2, <1>3, <1>4, <2>4
    <3> QED BY <3>1 DEF InFlight
  <2> QED BY <2>3, <2>4
<1> QED BY <1>1, <1>2, <1>3, <1>4, <1>5, <1>6, <1>7

\* The time of the next flush.
LEMMA UpdateIs ==
    ASSUME TypeOK, Update
    PROVE  /\ updated' /\ updated' \in BOOLEAN /\ ts_flush' \in Clock
           /\ \/ /\ timediff(now, FlushTime) >= 0 /\ flush
                 /\ ts_flush' = IF timediff(now, After(FlushTime, end.interval)) >= 0
                                THEN After(now, end.interval) ELSE After(FlushTime, end.interval)
              \/ timediff(now, FlushTime) < 0 /\ ts_flush' = FlushTime /\ NoFlush /\ missed' = missed
<1>1. FlushTime \in Clock /\ now \in Clock /\ Clock \subseteq Int /\ end.interval \in Int
  BY Numbers, EndIs DEF TypeOK, FlushTime, Clock
<1>2. After(now, end.interval) \in Clock /\ After(FlushTime, end.interval) \in Clock
  BY <1>1, AfterIs
<1>3. /\ updated' = TRUE
      /\ IF timediff(now, FlushTime) >= 0
         THEN /\ ts_flush' = IF timediff(now, After(FlushTime, end.interval)) >= 0
                             THEN After(now, end.interval) ELSE After(FlushTime, end.interval)
              /\ flush
         ELSE ts_flush' = FlushTime /\ NoFlush /\ missed' = missed
  BY Zenon DEF Update
<1>4. timediff(now, FlushTime) \in Int
  BY <1>1, TimediffIs
<1> QED BY <1>1, <1>2, <1>3, <1>4

LEMMA ServedTyped ==
    ASSUME Typed, Serves, end' = end
    PROVE  Typed'
<1> USE DEF Typed
<1>1. /\ wait' \in Nat /\ polled' \in BOOLEAN /\ now' \in Clock /\ sleep' \in Nat /\ rmt_wnd' \in Nat
      /\ {awake', torn'} \subseteq BOOLEAN /\ curts' \in Clock \cup {NoTime}
      /\ {rx_srtt', rx_rttvar', rx_rto'} \subseteq Nat /\ {ticks', jumps', back'} \subseteq Nat
      /\ end' \in Ends
  BY DEF Serves, TypeOK, ackVars, pastVars
<1>2. updated' \in BOOLEAN /\ ts_flush' \in Clock
  BY UpdateIs DEF Serves, TypeOK
<1>3. CASE flush
  BY <1>1, <1>2, <1>3, FlushTyped DEF TypeOK
<1>4. CASE NoFlush /\ missed' \in {missed, missed + 1}
  <2>1. missed' \in Nat
    BY <1>4 DEF TypeOK
  <2> QED BY <1>1, <1>2, <1>4, <2>1 DEF TypeOK, InFlight, NoFlush, sendVars, probeVars, congVars
<1> QED BY <1>3, <1>4, UpdateIs DEF Serves

LEMMA InputTyped ==
    ASSUME Typed, Input, RttInv'
    PROVE  Typed'
<1> USE DEF Typed
<1>1. /\ DOMAIN snd_buf' \subseteq DOMAIN snd_buf /\ snd_buf' \in [DOMAIN snd_buf' -> Timer]
      /\ rmt_wnd' \in Wnds
      /\ \/ UNCHANGED congVars
         \/ cwnd < rmt_wnd' /\ CwndAfterAck /\ UNCHANGED ssthresh
  BY InputIs
<1>2. UNCHANGED <<end, now, pollVars, flushVars, queued, snd_nxt, probeVars, pastVars>>
  BY DEF Input
<1>3. {rx_srtt', rx_rttvar', rx_rto'} \subseteq Nat /\ rmt_wnd' \in Nat
  BY <1>1, Windows DEF RttInv
<1>4. {cwnd', incr'} \subseteq 0..(U32 - 1) /\ ssthresh' \in Nat \ {0, 1}
  <2>1. CASE UNCHANGED congVars
    BY <2>1 DEF congVars, TypeOK
  <2>2. CASE cwnd < rmt_wnd' /\ CwndAfterAck /\ UNCHANGED ssthresh
    BY <1>1, <2>2, CwndAckTyped DEF TypeOK
  <2> QED BY <1>1, <2>1, <2>2
<1>5. TypeOK'
  BY <1>1, <1>2, <1>3, <1>4 DEF TypeOK, pollVars, flushVars, probeVars, pastVars
<1>6. InFlight'
  BY <1>1, <1>2 DEF InFlight
<1> QED BY <1>5, <1>6

LEMMA TypedStep ==
    ASSUME Typed, [Next]_vars, RttInv'
    PROVE  Typed'
<1>1. Clock \subseteq Int /\ now \in Int
  BY Numbers DEF Typed, TypeOK, Clock
<1>2. CASE Tick
  <2>1. now' \in Clock
    BY <1>1, <1>2, AfterIs DEF Tick
  <2>2. sleep' \in Nat /\ ticks' \in Nat /\ quiet' \in Nat
    BY <1>2 DEF Tick, Typed, TypeOK
  <2> QED BY <1>2, <2>1, <2>2 DEF Tick, Typed, TypeOK, InFlight, sendVars, probeVars, ackVars,
                                  congVars
<1>3. CASE ClockSet
  <2>1. PICK d \in Jumps : now' = After(now, d) /\ back' = back + Max2(-d, 0)
    BY <1>3 DEF ClockSet
  <2>2. d \in Int
    BY <2>1, InputAssumption
  <2>3. now' \in Clock
    BY <1>1, <2>1, <2>2, AfterIs
  <2>4. back' \in Nat /\ jumps' \in Nat /\ torn' \in BOOLEAN
    BY <1>3, <2>1, <2>2 DEF ClockSet, Typed, TypeOK, Max2
  <2> QED BY <1>3, <2>3, <2>4 DEF ClockSet, Typed, TypeOK, InFlight, pollVars, flushVars, sendVars,
                                  probeVars, ackVars, congVars
<1>4. CASE Poll \/ Doze \/ ServerIclock
  <2>1. /\ sleep' \in Nat /\ {awake', polled'} \subseteq BOOLEAN /\ curts' \in Clock \cup {NoTime}
    BY <1>4, EndIs DEF Poll, Doze, ServerIclock, Typed, TypeOK
  <2> QED BY <1>4, <2>1 DEF Poll, Doze, ServerIclock, Typed, TypeOK, InFlight, flushVars, sendVars, probeVars, ackVars,
                            congVars, pastVars
<1>5. CASE ClientServeKcp
  BY <1>5, Served, ServedTyped DEF Typed
<1>6. CASE ServerServeKcp
  BY <1>6, Served, ServedTyped DEF Typed
<1>7. CASE Send
  <2>1. queued' \in Nat
    BY <1>7 DEF Send, Typed, TypeOK
  <2> QED BY <1>7, <2>1 DEF Send, Typed, TypeOK, InFlight, pollVars, flushVars, probeVars, ackVars,
                            congVars, pastVars
<1>8. CASE Input
  BY <1>8, InputTyped
<1>9. CASE UNCHANGED vars
  BY <1>9 DEF vars, Typed, TypeOK, InFlight, pollVars, flushVars, sendVars, probeVars, ackVars,
              congVars, pastVars
<1> QED BY <1>2, <1>3, <1>4, <1>5, <1>6, <1>7, <1>8, <1>9 DEF Next

\* The types of the timing fields of KCP and of the poller, for any windows,
\* samples and changes of the clock: no uint32 or time leaves its range, also
\* where ssthresh + 0xffffffff wraps (kcp.go:127-150, 833).
THEOREM TimersTyped == Spec => []TypeOK
<1>1. Init => Typed /\ RttInv
  BY TypedInit, RttInit
<1>2. Typed /\ RttInv /\ [Next]_vars => (Typed /\ RttInv)'
  BY TypedStep, RttStep
<1>3. Typed => TypeOK
  BY DEF Typed
<1> QED BY <1>1, <1>2, <1>3, PTL DEF Spec

-----------------------------------------------------------------------------
(* Overtakings. *)

LEMMA OvertakenStep ==
    ASSUME Typed, OvertakenTruthful, [Next]_vars
    PROVE  OvertakenTruthful'
<1>1. TypeOK /\ snd_nxt \in Nat /\ DOMAIN snd_buf \subseteq 0..(snd_nxt - 1)
  BY DEF Typed, TypeOK
<1>2. CASE UNCHANGED <<snd_buf, snd_nxt>>
  BY <1>2 DEF OvertakenTruthful
<1>3. CASE Input
  <2>1. snd_nxt' = snd_nxt
    BY <1>3 DEF Input
  <2>2. /\ DOMAIN snd_buf' \subseteq DOMAIN snd_buf
        /\ \A i \in DOMAIN snd_buf' :
              \/ snd_buf'[i].fastack = snd_buf[i].fastack
              \/ \E j \in (i + 1)..(snd_nxt - 1) : j \notin DOMAIN snd_buf'
    BY <1>1, <1>3, InputIs
  <2> QED BY <2>1, <2>2 DEF OvertakenTruthful
<1>4. CASE flush
  <2>1. PICK m \in Nat, w \in Nat, fast \in SUBSET (DOMAIN snd_buf) : FlushesBy(m, fast, w)
    BY <1>1, <1>4, FlushIs
  <2>2. snd_nxt' = snd_nxt + m /\ snd_buf' = Sent(m, Late, fast)
    BY <2>1 DEF FlushesBy
  <2>3. /\ DOMAIN snd_buf' = DOMAIN snd_buf \cup (snd_nxt..(snd_nxt + m - 1))
        /\ \A i \in DOMAIN snd_buf' :
              \/ snd_buf'[i] = Fresh
              \/ i \in DOMAIN snd_buf /\ snd_buf'[i] = BackedOff(snd_buf[i]) /\ i \in Late
              \/ i \in DOMAIN snd_buf /\ snd_buf'[i] = snd_buf[i] /\ i \notin Late
    BY <1>1, <2>2, SentIs
  <2>4. \A i \in DOMAIN snd_buf' :
           snd_buf'[i].fastack = 0
           \/ (i \in DOMAIN snd_buf /\ snd_buf'[i].fastack = snd_buf[i].fastack)
    <3>1. \A i \in DOMAIN snd_buf : snd_buf[i] \in Timer
      BY <1>1 DEF TypeOK
    <3> QED BY <1>1, <2>3, <3>1, SegmentTyped
  <2>5. \A i \in DOMAIN snd_buf : \A j \in (i + 1)..(snd_nxt - 1) :
           /\ j \in (i + 1)..(snd_nxt + m - 1)
           /\ (j \notin DOMAIN snd_buf => j \notin DOMAIN snd_buf')
    BY <1>1, <2>3
  <2> SUFFICES ASSUME NEW i \in DOMAIN snd_buf', snd_buf'[i].fastack > 0
               PROVE  \E j \in (i + 1)..(snd_nxt' - 1) : j \notin DOMAIN snd_buf'
    BY DEF OvertakenTruthful
  <2>6. i \in DOMAIN snd_buf /\ snd_buf'[i].fastack = snd_buf[i].fastack
    BY <2>4
  <2>7. PICK j \in (i + 1)..(snd_nxt - 1) : j \notin DOMAIN snd_buf
    BY <2>6 DEF OvertakenTruthful
  <2>8. j \in (i + 1)..(snd_nxt + m - 1) /\ j \notin DOMAIN snd_buf'
    BY <2>5, <2>6, <2>7
  <2> QED BY <1>1, <2>2, <2>8
<1>5. CASE ClientServeKcp \/ ServerServeKcp
  <2>1. flush \/ NoFlush
    BY <1>1, <1>5, Served, UpdateIs DEF Serves
  <2> QED BY <1>2, <1>4, <2>1 DEF NoFlush, sendVars
<1> QED BY <1>2, <1>3, <1>5 DEF Next, vars, Tick, ClockSet, Poll, Doze, ServerIclock, Send, sendVars

\* For any acknowledgements, flushes and timeouts: a segment counts as
\* overtaken only when a later one has been acknowledged (parse_fastack,
\* kcp.go:401).
THEOREM OvertakenTrue == Spec => []OvertakenTruthful
<1>1. Init => OvertakenTruthful
  BY DEF Init, OvertakenTruthful
<1>2. Typed /\ OvertakenTruthful /\ [Next]_vars => OvertakenTruthful'
  BY OvertakenStep
<1>3. Init => Typed /\ RttInv
  BY TypedInit, RttInit
<1>4. Typed /\ RttInv /\ [Next]_vars => (Typed /\ RttInv)'
  BY TypedStep, RttStep
<1> QED BY <1>1, <1>2, <1>3, <1>4, PTL DEF Spec
-----------------------------------------------------------------------------
(* The congestion window. *)

\* incr is the window in bytes and a fraction of a segment.
Fraction(c, inc) == c * Mss <= inc /\ inc < (c + 1) * Mss

AfterFast == Max2(SndWnd \div 2, 2) + end.resend

\* Products with Mss.
LEMMA Products ==
    ASSUME NEW a \in Nat, NEW b \in Nat
    PROVE  /\ a * Mss \in Nat /\ (a + 1) * Mss = a * Mss + Mss /\ (a + 2) * Mss = a * Mss + 2 * Mss
           /\ (a + 3) * Mss = a * Mss + 3 * Mss
           /\ a <= b => a * Mss <= b * Mss
<1>1. a * Mss \in Nat
  BY Numbers, SMT
<1>2. (a + 1) * Mss = a * Mss + Mss /\ (a + 2) * Mss = a * Mss + 2 * Mss
      /\ (a + 3) * Mss = a * Mss + 3 * Mss
  BY Numbers, SMT
<1>3. ASSUME a <= b PROVE a * Mss <= b * Mss
  <2>1. PICK d \in Nat : b = a + d
    <3>1. b - a \in Nat /\ b = a + (b - a)
      BY <1>3
    <3> QED BY <3>1
  <2>2. b * Mss = a * Mss + d * Mss /\ d * Mss \in Nat
    BY <2>1, Numbers, SMT
  <2> QED BY <1>1, <2>2
<1> QED BY <1>1, <1>2, <1>3

LEMMA NoWrap32 == \A x \in 0..(U32 - 1) : x % U32 = x
<1> SUFFICES ASSUME NEW x \in 0..(U32 - 1) PROVE x % U32 = x
  OBVIOUS
<1>1. U32 \in Nat \ {0} /\ x \in Int /\ 0 \in Int /\ x - x = 0 * U32
  BY Numbers
<1> QED BY <1>1, Remainder

\* The addition of congestion avoidance is less than a segment.
LEMMA Addition ==
    ASSUME NEW b \in Nat, 2 * Mss <= b
    PROVE  /\ (Mss * Mss) \div b \in Nat /\ Mss \div 16 \in Nat
           /\ (Mss * Mss) \div b + Mss \div 16 <= Mss
<1>1. Mss \in Nat /\ Mss > 0 /\ b > 0
  BY Numbers
<1>2. Mss \div 16 \in Nat /\ 2 * (Mss \div 16) <= Mss
  BY <1>1, SMT
<1>3. Mss * Mss \in Nat
  BY <1>1, SMT
<1>4. PICK n \in Nat : n = Mss * Mss
  BY <1>3
<1>5. n \div b \in Nat /\ (n \div b) * b <= n
  <2>1. n \div b \in Int /\ n % b \in 0..(b - 1)
    BY <1>1, SMT
  <2>2. n = (n \div b) * b + (n % b)
    BY <1>1, SMT
  <2>3. PICK k \in Int, r \in Nat : k = n \div b /\ r = n % b /\ r < b
    BY <2>1
  <2>4. n = k * b + r
    BY <2>2, <2>3, Zenon
  <2>5. k >= 0
    <3>1. SUFFICES ASSUME k < 0 PROVE FALSE
      BY <2>3
    <3>2. PICK e \in Nat : k = -1 - e
      <4>1. -1 - k \in Nat /\ k = -1 - (-1 - k)
        BY <2>3, <3>1
      <4> QED BY <4>1
    <3>3. k * b = -b - e * b /\ e * b \in Nat
      BY <1>1, <3>2, SMT
    <3>4. PICK eb \in Nat : eb = e * b
      BY <3>3
    <3> QED BY <1>1, <1>4, <2>3, <2>4, <3>3, <3>4
  <2>6. k * b \in Nat
    BY <1>1, <2>3, <2>5, SMT
  <2>7. PICK kb \in Nat : kb = k * b
    BY <2>6
  <2> QED BY <2>3, <2>4, <2>5, <2>7
<1>6. PICK k \in Nat : k = n \div b /\ k * b <= n
  BY <1>5
<1>7. 2 * k <= Mss
  <2>1. SUFFICES ASSUME 2 * k >= Mss + 1 PROVE FALSE
    BY <1>1
  <2>2. k * b >= k * (2 * Mss)
    <3>1. PICK d \in Nat : b = 2 * Mss + d
      <4>1. b - 2 * Mss \in Nat /\ b = 2 * Mss + (b - 2 * Mss)
        BY <1>1
      <4> QED BY <4>1
    <3>2. k * b = k * (2 * Mss) + k * d /\ k * d \in Nat /\ k * (2 * Mss) \in Nat
      BY <1>1, <3>1, SMT
    <3> QED BY <3>2
  <2>3. k * (2 * Mss) >= (Mss + 1) * Mss
    <3>1. PICK d \in Nat : 2 * k = Mss + 1 + d
      <4>1. 2 * k - (Mss + 1) \in Nat /\ 2 * k = Mss + 1 + (2 * k - (Mss + 1))
        BY <1>1, <2>1
      <4> QED BY <4>1
    <3>2. k * (2 * Mss) = (2 * k) * Mss
      BY <1>1, SMT
    <3>3. (Mss + 1 + d) * Mss = (Mss + 1) * Mss + d * Mss /\ d * Mss \in Nat
          /\ (Mss + 1) * Mss \in Nat
      BY <1>1, SMT
    <3> QED BY <3>1, <3>2, <3>3
  <2>4. (Mss + 1) * Mss = n + Mss
    BY <1>1, <1>4, SMT
  <2>5. k * b \in Nat /\ k * (2 * Mss) \in Nat
    BY <1>1, SMT
  <2> QED BY <1>1, <1>4, <1>6, <2>2, <2>3, <2>4, <2>5
<1> QED BY <1>1, <1>2, <1>4, <1>6, <1>7

\* An acknowledgement opens the window by one segment at most, and as far as
\* incr has grown.
LEMMA AckWindow ==
    ASSUME TypeOK, Fraction(cwnd, incr), CwndAfterAck, rmt_wnd' \in Wnds, cwnd < rmt_wnd'
    PROVE  Fraction(cwnd', incr') /\ cwnd' \in Nat /\ cwnd <= cwnd' /\ cwnd' <= rmt_wnd'
<1>1. /\ cwnd \in Nat /\ incr \in Nat /\ ssthresh \in Nat /\ ssthresh >= 2
      /\ Mss \in Nat /\ Mss > 0 /\ U32 \in Nat /\ U32 > 0
  BY Numbers DEF TypeOK
<1>2. PICK r \in Nat : r = rmt_wnd' /\ cwnd < r
  BY Windows
<1>3. PICK p \in Nat : p = cwnd * Mss
  BY <1>1, Products
<1>4. (cwnd + 1) * Mss = p + Mss /\ (cwnd + 2) * Mss = p + 2 * Mss
  BY <1>1, <1>3, Products
<1>5. p <= incr /\ incr < p + Mss
  BY <1>3, <1>4 DEF Fraction
<1>6. p + 3 * Mss < U32
  <2>1. (cwnd + 3) * Mss = p + 3 * Mss
    BY <1>1, <1>3, Products
  <2>2. cwnd + 3 <= r + 3 /\ cwnd + 3 \in Nat /\ r + 3 \in Nat
    <3>1. PICK c \in Nat : c = cwnd
      BY <1>1
    <3>2. c < r
      BY <1>2, <3>1
    <3>3. c + 3 <= r + 3 /\ c + 3 \in Nat /\ r + 3 \in Nat
      BY <3>2
    <3> QED BY <3>1, <3>3
  <2>3. (cwnd + 3) * Mss <= (r + 3) * Mss /\ (cwnd + 3) * Mss \in Nat /\ (r + 3) * Mss \in Nat
    BY <2>2, Products
  <2>4. PICK b \in Nat : b = (r + 3) * Mss
    BY <2>3
  <2>5. b < U32
    BY <1>2, <2>4, Windows
  <2> QED BY <1>1, <1>3, <2>1, <2>3, <2>4, <2>5
<1> DEFINE base == Max2(incr, Mss)
           sum == base + (Mss * Mss) \div base + Mss \div 16
           grown == sum % U32
           open == cwnd < ssthresh \/ ((cwnd + 1) * Mss) % U32 <= grown
           c == IF open THEN cwnd + 1 ELSE cwnd
<1>7. /\ cwnd' = Min2(c, rmt_wnd')
      /\ incr' = IF c > rmt_wnd' THEN (rmt_wnd' * Mss) % U32
                 ELSE IF cwnd < ssthresh THEN (incr + Mss) % U32 ELSE grown
  BY Zenon DEF CwndAfterAck
<1> HIDE DEF open
<1>8. c \in Nat /\ c <= r /\ cwnd <= c
  BY <1>1, <1>2
<1> HIDE DEF c
<1>9. cwnd' = c /\ incr' = IF cwnd < ssthresh THEN (incr + Mss) % U32 ELSE grown
  BY <1>2, <1>7, <1>8 DEF Min2
<1>10. CASE cwnd < ssthresh
  <2>1. c = cwnd + 1
    BY <1>10 DEF c, open
  <2>2. (incr + Mss) % U32 = incr + Mss
    <3>1. incr + Mss \in 0..(U32 - 1)
      BY <1>1, <1>5, <1>6
    <3> QED BY <3>1, NoWrap32
  <2>3. incr' = incr + Mss /\ cwnd' = cwnd + 1
    BY <1>9, <1>10, <2>1, <2>2
  <2>4. (cwnd + 1) * Mss <= incr + Mss /\ incr + Mss < (cwnd + 2) * Mss
    BY <1>1, <1>4, <1>5
  <2>5. (cwnd + 1) + 1 = cwnd + 2
    BY <1>1
  <2>6. Fraction(cwnd + 1, incr + Mss)
    BY <2>4, <2>5 DEF Fraction
  <2> QED BY <1>2, <1>8, <1>9, <2>1, <2>3, <2>6
<1>11. CASE ~(cwnd < ssthresh)
  <2>1. 2 * Mss <= incr
    <3>1. 2 * Mss <= cwnd * Mss
      <4>1. 2 <= cwnd
        BY <1>1, <1>11
      <4> QED BY <1>1, <4>1, Products
    <3> QED BY <1>1, <1>3, <1>5, <3>1
  <2>2. base = incr
    BY <1>1, <2>1 DEF Max2
  <2>3. PICK more \in Nat : more <= Mss /\ sum = incr + more
    <3>1. /\ (Mss * Mss) \div incr \in Nat /\ Mss \div 16 \in Nat
          /\ (Mss * Mss) \div incr + Mss \div 16 <= Mss
      BY <1>1, <2>1, Addition
    <3>2. PICK x \in Nat, y \in Nat :
             x = (Mss * Mss) \div incr /\ y = Mss \div 16 /\ x + y <= Mss
      BY <3>1
    <3>3. sum = incr + x + y
      BY <2>2, <3>2
    <3> HIDE DEF sum
    <3>4. x + y \in Nat /\ sum = incr + (x + y)
      BY <1>1, <3>2, <3>3
    <3> QED BY <3>2, <3>4
  <2> HIDE DEF sum
  <2>4. grown = incr + more
    <3>1. incr + more \in 0..(U32 - 1)
      BY <1>1, <1>5, <1>6, <2>3
    <3> QED BY <2>3, <3>1, NoWrap32
  <2>5. ((cwnd + 1) * Mss) % U32 = p + Mss
    <3>1. p + Mss \in 0..(U32 - 1)
      BY <1>1, <1>6
    <3> QED BY <1>4, <3>1, NoWrap32
  <2>6. c = IF p + Mss <= incr + more THEN cwnd + 1 ELSE cwnd
    BY <1>11, <2>4, <2>5 DEF c, open
  <2> HIDE DEF grown
  <2>7. incr' = incr + more
    BY <1>9, <1>11, <2>4
  <2>8. CASE p + Mss <= incr + more
    <3>1. (cwnd + 1) * Mss <= incr + more /\ incr + more < (cwnd + 2) * Mss
      BY <1>1, <1>4, <1>5, <2>3, <2>8
    <3>2. (cwnd + 1) + 1 = cwnd + 2
      BY <1>1
    <3>3. Fraction(cwnd + 1, incr + more)
      BY <3>1, <3>2 DEF Fraction
    <3> QED BY <1>2, <1>8, <1>9, <2>6, <2>7, <2>8, <3>3
  <2>9. CASE ~(p + Mss <= incr + more)
    <3>1. cwnd * Mss <= incr + more /\ incr + more < (cwnd + 1) * Mss
      BY <1>1, <1>3, <1>4, <1>5, <2>3, <2>9
    <3>2. Fraction(cwnd, incr + more)
      BY <3>1 DEF Fraction
    <3> QED BY <1>2, <1>8, <1>9, <2>6, <2>7, <2>9, <3>2
  <2> QED BY <2>8, <2>9
<1> QED BY <1>10, <1>11

\* A fast retransmission leaves half the flight and the segments that overtook;
\* without one, ssthresh + 0xffffffff is ssthresh - 1.
LEMMA FastWindow ==
    ASSUME end \in Ends, NEW f \in Nat, f <= SndWnd, NEW c1, c1 = CwndAfterFast(Max2(f \div 2, 2))
    PROVE  c1 \in Nat /\ 1 <= c1 /\ c1 <= AfterFast /\ (c1 * Mss) % U32 = c1 * Mss
<1>1. /\ f \div 2 \in Nat /\ SndWnd \div 2 \in Nat /\ f \div 2 <= SndWnd \div 2
      /\ 2 * (SndWnd \div 2) <= SndWnd
  BY Numbers, SMT
<1>2. PICK ss \in Nat : ss = Max2(f \div 2, 2)
  BY <1>1 DEF Max2
<1>3. PICK top \in Nat : top = Max2(SndWnd \div 2, 2) /\ ss <= top /\ 2 <= ss /\ top <= SndWnd + 1
  <2>1. Max2(SndWnd \div 2, 2) \in Nat /\ ss <= Max2(SndWnd \div 2, 2) /\ 2 <= ss
    BY <1>1, <1>2 DEF Max2
  <2>2. Max2(SndWnd \div 2, 2) <= SndWnd + 1
    BY <1>1, Numbers DEF Max2
  <2> QED BY <2>1, <2>2
<1>4. PICK e \in Nat : e = end.resend /\ e < U32 /\ (SndWnd + 3 + e) * Mss < U32
  BY EndIs, Windows
<1>5. AfterFast = top + e
  BY <1>3, <1>4 DEF AfterFast
<1>6. c1 = (ss + (IF e = 0 THEN U32 - 1 ELSE e)) % U32
  BY <1>2, <1>4 DEF CwndAfterFast, Resent
<1>7. PICK b \in Nat : b = SndWnd + 3 + e
  BY Numbers
<1>8. b * Mss < U32 /\ b < U32
  <2>1. b * Mss < U32
    BY <1>4, <1>7
  <2>2. b <= b * Mss /\ b * Mss \in Nat
    BY <1>7, Numbers, SMT
  <2>3. PICK p \in Nat : p = b * Mss
    BY <2>2
  <2> QED BY <2>1, <2>2, <2>3, Numbers
<1>9. ss + e < b /\ ss - 1 < b /\ ss - 1 \in Nat /\ ss + e \in Nat
  BY <1>3, <1>7, Numbers
<1>10. c1 = IF e = 0 THEN ss - 1 ELSE ss + e
  <2>1. CASE e = 0
    <3>1. /\ U32 \in Nat \ {0} /\ ss + (U32 - 1) \in Int /\ ss - 1 \in 0..(U32 - 1)
          /\ (ss + (U32 - 1)) - (ss - 1) = 1 * U32
      BY <1>8, <1>9, Numbers
    <3>2. (ss + (U32 - 1)) % U32 = ss - 1
      BY <3>1, Remainder
    <3> QED BY <1>6, <2>1, <3>2
  <2>2. CASE e # 0
    <3>1. ss + e \in 0..(U32 - 1)
      BY <1>8, <1>9, Numbers
    <3> QED BY <1>6, <2>2, <3>1, NoWrap32
  <2> QED BY <2>1, <2>2
<1>11. c1 \in Nat /\ 1 <= c1 /\ c1 <= top + e /\ c1 <= b
  BY <1>3, <1>9, <1>10
<1>12. (c1 * Mss) % U32 = c1 * Mss
  <2>1. c1 * Mss \in Nat /\ b * Mss \in Nat /\ c1 * Mss <= b * Mss
    BY <1>7, <1>11, Products
  <2>2. PICK p \in Nat, q \in Nat : p = c1 * Mss /\ q = b * Mss
    BY <2>1
  <2>3. p \in 0..(U32 - 1)
    BY <1>8, <2>1, <2>2, Numbers
  <2> QED BY <2>2, <2>3, NoWrap32
<1> QED BY <1>5, <1>11, <1>12

\* The window is one a peer has advertised or a fast retransmission has left.
MaxWnd == Greatest({SndWnd} \cup Wnds)

WindowInv ==
    /\ Fraction(cwnd, incr)
    /\ updated => cwnd >= 1
    /\ cwnd <= MaxWnd \/ cwnd <= AfterFast

LEMMA MaxWndIs == MaxWnd \in Nat /\ \A w \in Wnds : w <= MaxWnd
<1>1. PICK S : S = {SndWnd} \cup Wnds
  OBVIOUS
<1>2. S \in SUBSET Int /\ S # {} /\ U32 \in Int /\ \A a \in S : a \in Nat /\ a <= U32
  BY <1>1, Windows, Numbers
<1>3. Greatest(S) \in S /\ \A b \in S : b <= Greatest(S)
  BY <1>2, GreatestIs
<1> QED BY <1>1, <1>2, <1>3 DEF MaxWnd

LEMMA FlushWindow ==
    ASSUME Typed, WindowInv, flush, end' = end
    PROVE  Fraction(cwnd', incr') /\ cwnd' >= 1 /\ (cwnd' <= MaxWnd \/ cwnd' <= AfterFast)
<1>1. PICK m \in Nat, w \in Nat, fast \in SUBSET (DOMAIN snd_buf) :
         /\ m <= queued /\ (m > 0 => snd_nxt + m <= snd_una + w)
         /\ w <= SndWnd /\ FlushesBy(m, fast, w)
  BY FlushIs DEF Typed
<1>2. PICK f \in Nat : f = snd_nxt + m - snd_una /\ f <= SndWnd
  <2>1. snd_nxt \in Nat /\ snd_una \in Nat /\ snd_una <= snd_nxt
    BY UnaIs DEF Typed, TypeOK
  <2>2. CASE m > 0
    BY <1>1, <2>1, <2>2, Numbers
  <2>3. CASE m = 0
    <3>1. snd_nxt - snd_una <= SndWnd
      BY <2>1, UnaIs, Numbers DEF Typed, InFlight
    <3> QED BY <2>1, <2>3, <3>1
  <2> QED BY <2>2, <2>3
<1>3. PICK change \in BOOLEAN, lost \in BOOLEAN : CwndAfterFlush(change, lost, w, f)
  <2>1. CwndAfterFlush(fast # {}, Late # {}, w, f)
    BY <1>1, <1>2, Zenon DEF FlushesBy
  <2>2. (fast # {}) \in BOOLEAN /\ (Late # {}) \in BOOLEAN
    OBVIOUS
  <2> QED BY <2>1, <2>2
<1>4. PICK c1 : c1 = IF change THEN CwndAfterFast(Max2(f \div 2, 2)) ELSE cwnd
  OBVIOUS
<1>5. /\ cwnd' = IF lost \/ c1 < 1 THEN 1 ELSE c1
      /\ incr' = IF lost \/ c1 < 1 THEN Mss ELSE IF change THEN (c1 * Mss) % U32 ELSE incr
  <2>1. LET ss1 == IF change THEN Max2(f \div 2, 2) ELSE ssthresh
            c2  == IF change THEN CwndAfterFast(ss1) ELSE cwnd
        IN  /\ cwnd' = IF lost \/ c2 < 1 THEN 1 ELSE c2
            /\ incr' = IF lost \/ c2 < 1 THEN Mss ELSE IF change THEN (c2 * Mss) % U32 ELSE incr
    BY <1>3, Zenon DEF CwndAfterFlush
  <2>2. CASE change
    BY <1>4, <2>1, <2>2, Zenon
  <2>3. CASE ~change
    BY <1>4, <2>1, <2>3, Zenon
  <2> QED BY <2>2, <2>3
<1>6. end \in Ends /\ cwnd \in Nat /\ incr \in Nat
  BY DEF Typed, TypeOK
<1>7. Fraction(1, Mss)
  <2>1. 1 * Mss = Mss /\ (1 + 1) * Mss = Mss + Mss
    BY Numbers
  <2> QED BY <2>1, Numbers DEF Fraction
<1>8. 1 <= AfterFast
  <2>1. SndWnd \div 2 \in Nat
    BY Numbers, SMT
  <2> QED BY <1>6, <2>1, EndIs DEF AfterFast, Max2
<1>9. CASE change
  <2>1. c1 \in Nat /\ 1 <= c1 /\ c1 <= AfterFast /\ (c1 * Mss) % U32 = c1 * Mss
    BY <1>2, <1>4, <1>6, <1>9, FastWindow
  <2>2. Fraction(c1, c1 * Mss)
    <3>1. c1 * Mss \in Nat /\ (c1 + 1) * Mss = c1 * Mss + Mss
      BY <2>1, Products
    <3>2. PICK p \in Nat : p = c1 * Mss
      BY <3>1
    <3>3. p <= p /\ p < p + Mss
      BY Numbers
    <3> QED BY <3>1, <3>2, <3>3 DEF Fraction
  <2>3. CASE lost
    <3>1. cwnd' = 1 /\ incr' = Mss
      BY <1>5, <2>3
    <3> QED BY <1>7, <1>8, <3>1
  <2>4. CASE ~lost
    <3>1. cwnd' = c1 /\ incr' = c1 * Mss
      BY <1>5, <1>9, <2>1, <2>4
    <3> QED BY <2>1, <2>2, <3>1
  <2> QED BY <2>3, <2>4
<1>10. CASE ~change
  <2>1. c1 = cwnd
    BY <1>4, <1>10
  <2>2. CASE lost \/ c1 < 1
    <3>1. cwnd' = 1 /\ incr' = Mss
      BY <1>5, <2>2
    <3> QED BY <1>7, <1>8, <3>1
  <2>3. CASE ~(lost \/ c1 < 1)
    <3>1. cwnd' = cwnd /\ incr' = incr /\ cwnd >= 1
      BY <1>5, <1>6, <1>10, <2>1, <2>3
    <3> QED BY <3>1 DEF WindowInv
  <2> QED BY <2>2, <2>3
<1> QED BY <1>9, <1>10

LEMMA WindowStep ==
    ASSUME Typed, WindowInv, [Next]_vars
    PROVE  WindowInv'
<1>1. TypeOK /\ cwnd \in Nat
  BY DEF Typed, TypeOK
<1>2. CASE UNCHANGED <<end, updated, congVars>>
  BY <1>2 DEF WindowInv, AfterFast, congVars
<1>3. CASE Input
  <2>1. UNCHANGED <<end, updated>>
    BY <1>3 DEF Input, flushVars
  <2>2. CASE UNCHANGED congVars
    BY <1>2, <2>1, <2>2
  <2>3. CASE cwnd < rmt_wnd' /\ CwndAfterAck /\ rmt_wnd' \in Wnds
    <3>1. Fraction(cwnd', incr') /\ cwnd' \in Nat /\ cwnd <= cwnd' /\ cwnd' <= rmt_wnd'
      BY <1>1, <2>3, AckWindow DEF WindowInv
    <3>2. rmt_wnd' <= MaxWnd /\ rmt_wnd' \in Nat /\ MaxWnd \in Nat
      BY <2>3, MaxWndIs, Windows
    <3>3. cwnd' <= MaxWnd
      BY <3>1, <3>2
    <3>4. updated' => cwnd' >= 1
      BY <1>1, <2>1, <3>1 DEF WindowInv
    <3> QED BY <3>1, <3>3, <3>4 DEF WindowInv
  <2> QED BY <1>1, <1>3, <2>2, <2>3, InputIs
<1>4. CASE ClientServeKcp \/ ServerServeKcp
  <2>1. Serves /\ end' = end
    BY <1>1, <1>4, Served
  <2>2. CASE flush
    <3>1. Fraction(cwnd', incr') /\ cwnd' >= 1 /\ (cwnd' <= MaxWnd \/ cwnd' <= AfterFast)
      BY <2>1, <2>2, FlushWindow
    <3> QED BY <2>1, <3>1 DEF WindowInv, AfterFast
  <2>3. CASE NoFlush /\ (updated \/ updated' = updated)
    <3>1. UNCHANGED congVars
      BY <2>3 DEF NoFlush
    <3> QED BY <2>1, <2>3, <3>1 DEF WindowInv, AfterFast, congVars
  <2>4. ASSUME Update, NoFlush PROVE flush \/ updated
    <3>1. CASE ~updated
      <4>1. FlushTime = now /\ now \in Int
        BY <1>1, <3>1, Numbers DEF FlushTime, TypeOK, Clock
      <4>2. timediff(now, FlushTime) = 0
        BY <4>1, SameTime
      <4> QED BY <1>1, <2>4, <4>2, UpdateIs
    <3> QED BY <3>1
  <2> QED BY <1>1, <2>1, <2>2, <2>3, <2>4, UpdateIs DEF Serves
<1> QED BY <1>2, <1>3, <1>4 DEF Next, vars, Tick, ClockSet, Poll, Doze, ServerIclock, Send, flushVars

\* For all windows, whatever is acknowledged, overtaken or lost: cwnd and incr
\* agree, the window stays within the windows of both ends or what a fast
\* retransmission leaves, and it is open from the first flush on (kcp.go:476,
\* 818-843).
THEOREM WindowBounded == Spec => []CwndBounded
<1>1. Init => WindowInv
  <2>1. 0 * Mss = 0 /\ (0 + 1) * Mss = Mss
    BY Numbers
  <2> QED BY <2>1, Numbers, MaxWndIs DEF Init, WindowInv, Fraction
<1>2. Typed /\ WindowInv /\ [Next]_vars => WindowInv'
  BY WindowStep
<1>3. Init => Typed /\ RttInv
  BY TypedInit, RttInit
<1>4. Typed /\ RttInv /\ [Next]_vars => (Typed /\ RttInv)'
  BY TypedStep, RttStep
<1>5. WindowInv => CwndBounded
  BY DEF WindowInv, Fraction, MaxWnd, AfterFast, CwndBounded
<1> QED BY <1>1, <1>2, <1>3, <1>4, <1>5, PTL DEF Spec
=============================================================================
