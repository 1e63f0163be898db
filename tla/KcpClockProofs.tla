--------------------------- MODULE KcpClockProofs ---------------------------
(***************************************************************************)
(* Proofs about the times that KcpTimers keeps: that flushes come          *)
(* regularly although the clock wraps and is set, and that every           *)
(* unacknowledged segment has its next time ahead of it.                   *)
(*                                                                         *)
(* Both speak of how far ahead of the clock a time lies, which Moved and   *)
(* its companions compute modulo TsMod as long as it stays within half a   *)
(* turn.                                                                   *)
(***************************************************************************)
EXTENDS KcpTimersProofs

\* The longest nap of the poller: Check allows for an interval, and the clock
\* may go on by a tick before it.
Pause == Max2(end.nap, end.interval + 1)

\* How long it still is to the tick in which the loop serves: in kcp_poll that
\* tick may be past.
Nap == IF curts # NoTime THEN IF curts = now THEN 0 ELSE -1
       ELSE IF polled THEN 0
       ELSE IF awake THEN Pause ELSE sleep

\* How far off the next flush is.
Due == timediff(ts_flush, now)

\* What the flushes missed cost ...
Cost == missed * Pause

\* ... what the changes of the clock so far can have cost, when one of any size
\* costs no more than SlapMax and a nap ...
Lag == jumps * (SlapMax + Pause)

\* ... and by how much they can have set it, when one sets it by J at most.
SetBy(J) == jumps * J

LEMMA PauseIs ==
    ASSUME TypeOK
    PROVE  /\ Pause \in Nat /\ end.nap <= Pause /\ end.interval < Pause
           /\ Pause <= SlapMax + end.nap /\ 2 * (SlapMax + end.nap) < TsMod
           /\ end.interval \in Nat /\ end.interval > 0 /\ end.interval <= SlapMax
           /\ MinNap <= Pause /\ end.nap \in Nat
<1>1. end \in Ends
  BY DEF TypeOK
<1>2. 2 * (SlapMax + end.nap) < TsMod
  BY <1>1, HalfTurn
<1> QED BY <1>1, <1>2, EndIs, Numbers DEF Pause, Max2

\* The longest that all missed flushes together can cost.
Misses == MaxMissed * Pause

LEMMA CostIs ==
    ASSUME TypeOK
    PROVE  /\ Cost \in Nat /\ Misses \in Nat
           /\ missed <= MaxMissed => Cost <= Misses
           /\ Misses + Pause <= (MaxMissed + 1) * (SlapMax + end.nap)
           /\ (MaxMissed + 1) * (SlapMax + end.nap) \in Nat
           /\ 2 * ((MaxMissed + 1) * (SlapMax + end.nap)) < TsMod
           /\ end' = end /\ missed' = missed => Cost' = Cost
           /\ end' = end /\ missed' = missed + 1 => Cost' = Cost + Pause
           /\ end' = end /\ missed' = 0 => Cost' = 0
<1>1. PICK p \in Nat, k \in Nat, x \in Nat, m \in Nat :
         p = Pause /\ k = missed /\ m = MaxMissed /\ x = SlapMax + end.nap /\ p <= x
  BY PauseIs, Numbers DEF TypeOK
<1>2. k * p \in Nat /\ (k + 1) * p = k * p + p /\ m * p \in Nat /\ (m + 1) * x \in Nat
  BY <1>1, SMT
<1>3. Cost = k * p /\ Misses = m * p
  BY <1>1, Zenon DEF Cost, Misses
<1>4. ASSUME k <= m PROVE k * p <= m * p
  <2>1. PICK d \in Nat : m = k + d
    <3>1. m - k \in Nat /\ m = k + (m - k)
      BY <1>1, <1>4
    <3> QED BY <3>1
  <2>2. m * p = k * p + d * p /\ d * p \in Nat
    BY <1>1, <2>1, SMT
  <2> QED BY <1>2, <2>2
<1>5. m * p + p <= (m + 1) * x
  <2>1. PICK d \in Nat : x = p + d
    <3>1. x - p \in Nat /\ x = p + (x - p)
      BY <1>1
    <3> QED BY <3>1
  <2>2. (m + 1) * x = m * p + p + (m + 1) * d /\ (m + 1) * d \in Nat
    BY <1>1, <2>1, SMT
  <2> QED BY <1>1, <1>2, <2>2
<1>6. 2 * ((m + 1) * x) < TsMod
  BY <1>1, ClockAssumption, Zenon DEF TypeOK
<1>7. ASSUME end' = end PROVE Pause' = Pause
  BY <1>7, Zenon DEF Pause
<1>8. end' = end /\ missed' = missed => Cost' = Cost
  BY <1>7, Zenon DEF Cost
<1>9. ASSUME end' = end, missed' = missed + 1 PROVE Cost' = Cost + Pause
  <2>1. Cost' = (k + 1) * p
    BY <1>1, <1>7, <1>9, Zenon DEF Cost
  <2> QED BY <1>1, <1>2, <1>3, <2>1, Zenon
<1>10. ASSUME end' = end, missed' = 0 PROVE Cost' = 0
  <2>1. Cost' = 0 * p
    BY <1>1, <1>7, <1>10, Zenon DEF Cost
  <2>2. 0 * p = 0
    BY <1>1, SMT
  <2> QED BY <2>1, <2>2, Zenon
<1> QED BY <1>1, <1>2, <1>3, <1>4, <1>5, <1>6, <1>8, <1>9, <1>10

LEMMA LagIs ==
    ASSUME TypeOK
    PROVE  /\ Lag \in Nat
           /\ UNCHANGED <<end, jumps>> => Lag' = Lag
           /\ end' = end /\ jumps' = jumps + 1 => Lag' = Lag + SlapMax + Pause
<1>1. PICK p \in Nat : p = SlapMax + Pause
  BY PauseIs, Numbers
<1>2. PICK j \in Nat : j = jumps
  BY DEF TypeOK
<1>3. j * p \in Nat /\ (j + 1) * p = j * p + p
  BY <1>1, <1>2, SMT
<1>4. Lag = j * p
  BY <1>1, <1>2, Zenon DEF Lag
<1>5. ASSUME end' = end PROVE Lag' = jumps' * p
  <2>1. Pause' = Pause
    BY <1>5, Zenon DEF Pause
  <2> QED BY <1>1, <2>1, Zenon DEF Lag
<1>6. ASSUME end' = end, jumps' = jumps PROVE Lag' = Lag
  BY <1>2, <1>4, <1>5, <1>6, Zenon
<1>7. ASSUME end' = end, jumps' = jumps + 1 PROVE Lag' = j * p + p
  BY <1>2, <1>3, <1>5, <1>7, Zenon
<1>8. PICK jp \in Nat : jp = j * p
  BY <1>3
<1>9. jp + p = jp + SlapMax + Pause
  BY <1>1, <1>8, PauseIs, Numbers
<1> QED BY <1>3, <1>4, <1>6, <1>7, <1>8, <1>9, Zenon

LEMMA SetByIs ==
    ASSUME TypeOK, NEW J \in Nat
    PROVE  /\ SetBy(J) \in Nat
           /\ jumps' = jumps => SetBy(J)' = SetBy(J)
           /\ jumps' = jumps + 1 => SetBy(J)' = SetBy(J) + J
           /\ jumps <= MaxJumps => SetBy(J) <= MaxJumps * J
<1>1. PICK j \in Nat : j = jumps
  BY DEF TypeOK
<1>2. j * J \in Nat /\ (j + 1) * J = j * J + J
  BY <1>1, SMT
<1>3. SetBy(J) = j * J
  BY <1>1, Zenon DEF SetBy
<1>4. ASSUME jumps' = jumps PROVE SetBy(J)' = SetBy(J)
  BY <1>4, Zenon DEF SetBy
<1>5. ASSUME jumps' = jumps + 1 PROVE SetBy(J)' = SetBy(J) + J
  BY <1>1, <1>2, <1>3, <1>5, Zenon DEF SetBy
<1>6. ASSUME jumps <= MaxJumps PROVE SetBy(J) <= MaxJumps * J
  <2>1. PICK d \in Nat : MaxJumps = j + d
    <3>1. MaxJumps - j \in Nat /\ MaxJumps = j + (MaxJumps - j)
      BY <1>1, <1>6, Numbers
    <3> QED BY <3>1
  <2>2. MaxJumps * J = j * J + d * J /\ d * J \in Nat
    BY <1>1, <2>1, SMT
  <2> QED BY <1>2, <1>3, <2>2
<1> QED BY <1>2, <1>3, <1>4, <1>5, <1>6
-----------------------------------------------------------------------------
(* How far off a time is. *)

LEMMA Ahead ==
    ASSUME NEW a \in Int, NEW b \in Int
    PROVE  0 - TsMod < 2 * timediff(a, b) => timediff(b, a) = -timediff(a, b)
<1>1. PICK r : r = timediff(a, b)
  OBVIOUS
<1>2. /\ r \in Int /\ 0 - TsMod <= 2 * r /\ 2 * r < TsMod
      /\ \E q \in Int : (a - b) - r = q * TsMod
  BY <1>1, TimediffIs
<1>3. PICK q \in Int : (a - b) - r = q * TsMod
  BY <1>2
<1>4. (b - a) - (-r) = (-q) * TsMod
  BY <1>2, <1>3, Numbers, SMT
<1>5. ASSUME 0 - TsMod < 2 * r PROVE timediff(b, a) = -r
  <2>1. -r \in Int /\ -q \in Int /\ 0 - TsMod <= 2 * (-r) /\ 2 * (-r) < TsMod
    BY <1>2, <1>5, Numbers
  <2> QED BY <1>4, <2>1, OnlyTimediff
<1> QED BY <1>1, <1>5

\* A time d from now.
LEMMA Later ==
    ASSUME NEW n \in Int, NEW d \in Nat, 2 * d < TsMod
    PROVE  timediff(After(n, d), n) = d
<1>1. timediff(n, n) = 0
  BY SameTime
<1>2. d \in Int /\ 0 + d = d /\ 0 - TsMod <= 2 * d
  BY Numbers
<1> QED BY <1>1, <1>2, Moved

LEMMA Counted ==
    ASSUME NEW t \in Int, NEW n \in Int, NEW d \in Int, NEW x \in Int,
           x = timediff(t, n) + d, 0 - TsMod <= 2 * x, 2 * x < TsMod
    PROVE  timediff(After(t, d), n) = x
BY Moved

\* The clock is moved.
LEMMA Elapsed ==
    ASSUME NEW t \in Int, NEW n \in Int, NEW d \in Int, NEW x \in Int,
           x = timediff(t, n) - d, 0 - TsMod <= 2 * x, 2 * x < TsMod
    PROVE  timediff(t, After(n, d)) = x
BY Moved

LEMMA Times ==
    ASSUME TypeOK
    PROVE  /\ now \in Int /\ ts_flush \in Int /\ ts_probe \in Int /\ flushed \in Int
           /\ \A i \in DOMAIN snd_buf : snd_buf[i].resendts \in Int /\ snd_buf[i].rto \in Nat
           /\ Due \in Int /\ 0 - TsMod <= 2 * Due /\ 2 * Due < TsMod
           /\ Nap \in Int /\ Nap >= -1 /\ quiet \in Nat /\ back \in Nat /\ ticks \in Nat /\ jumps \in Nat
           /\ updated \in BOOLEAN /\ sleep \in Nat /\ wait \in Nat /\ missed \in Nat
           /\ torn \in BOOLEAN
<1>1. /\ now \in Int /\ ts_flush \in Int /\ ts_probe \in Int /\ flushed \in Int
  BY Numbers DEF TypeOK, Clock
<1>2. \A i \in DOMAIN snd_buf : snd_buf[i].resendts \in Int /\ snd_buf[i].rto \in Nat
  BY Numbers DEF TypeOK, Timer, Clock
<1>3. Due \in Int /\ 0 - TsMod <= 2 * Due /\ 2 * Due < TsMod
  BY <1>1, TimediffIs DEF Due
<1>4. Nap \in Int /\ Nap >= -1
  BY PauseIs DEF TypeOK, Nap
<1> QED BY <1>1, <1>2, <1>3, <1>4 DEF TypeOK

-----------------------------------------------------------------------------
(* Flushes. *)

\* A flush sets the time of the next.
LEMMA NextFlush ==
    ASSUME TypeOK, timediff(now, FlushTime) >= 0,
           ts_flush' = IF timediff(now, After(FlushTime, end.interval)) >= 0
                       THEN After(now, end.interval) ELSE After(FlushTime, end.interval),
           now' = now
    PROVE  Due' \in 1..end.interval
<1>1. PICK n \in Int, t \in Int : n = now /\ t = FlushTime
  BY Times DEF FlushTime
<1>2. PICK i \in Nat : i = end.interval /\ i > 0 /\ i <= SlapMax /\ 2 * SlapMax < TsMod
  BY PauseIs, Numbers
<1>3. PICK a \in Int : a = timediff(n, t)
  BY <1>1, TimediffIs
<1>4. a >= 0 /\ a < SlapMax
  <2>1. a >= 0
    BY <1>1, <1>3
  <2>2. CASE t = n
    BY <1>3, <2>2, SameTime, Numbers
  <2>3. CASE t # n
    <3>1. t = ts_flush /\ ~ClockChanged(ts_flush)
      BY <1>1, <2>3 DEF FlushTime
    <3>2. ~(timediff(n, t) >= SlapMax)
      BY <1>1, <3>1 DEF ClockChanged
    <3> QED BY <1>3, <2>1, <3>2, Numbers
  <2> QED BY <2>2, <2>3
<1>5. timediff(t, n) = 0 - a
  <2>1. 0 - TsMod < 2 * a
    BY <1>4, Numbers
  <2> QED BY <1>1, <1>3, <2>1, Ahead
<1>6. timediff(After(t, i), n) = i - a
  <2>1. PICK x \in Int : x = i - a
    BY <1>2, <1>3
  <2>2. x = timediff(t, n) + i
    BY <1>2, <1>3, <1>5, <2>1
  <2>3. 0 - TsMod <= 2 * x /\ 2 * x < TsMod /\ i \in Int
    BY <1>2, <1>3, <1>4, <2>1, Numbers
  <2> QED BY <1>1, <2>1, <2>2, <2>3, Counted
<1>7. timediff(n, After(t, i)) = a - i
  <2>1. 0 - TsMod < 2 * (i - a) /\ After(t, i) \in Int
    <3>1. After(t, i) \in Clock /\ i \in Int
      BY AfterIs
    <3> QED BY <1>2, <1>4, <3>1, Numbers DEF Clock
  <2>2. -(i - a) = a - i
    BY <1>2, <1>4
  <2> QED BY <1>1, <1>6, <2>1, <2>2, Ahead
<1>8. timediff(After(n, i), n) = i
  BY <1>1, <1>2, Later, Numbers
<1>9. Due' = timediff(ts_flush', n)
  BY <1>1 DEF Due
<1>10. ts_flush' = IF a - i >= 0 THEN After(n, i) ELSE After(t, i)
  BY <1>1, <1>2, <1>7
<1>11. CASE a - i >= 0
  BY <1>2, <1>8, <1>9, <1>10, <1>11
<1>12. CASE ~(a - i >= 0)
  <2>1. Due' = i - a
    BY <1>6, <1>9, <1>10, <1>12
  <2> QED BY <1>2, <1>3, <1>4, <1>12, <2>1
<1> QED BY <1>11, <1>12

\* In kcp_poll, the clock has not gone on, or by a tick; then the poller slept
\* through that tick.
Reading ==
    curts # NoTime =>
        /\ end.check
        /\ \/ now = curts
           \/ /\ now = After(curts, 1) /\ missed < MaxMissed
              /\ polled \/ (~awake /\ sleep < Pause)

\* The poller never sleeps longer than Pause.
Polling == Reading /\ sleep <= Pause /\ wait <= Pause /\ missed <= MaxMissed

\* A time d ticks after t, and another c ticks after that.
LEMMA Ticks ==
    ASSUME NEW t \in Clock, NEW d \in Nat, NEW c \in Nat, c + d < TsMod
    PROVE  /\ (After(After(t, d), c) - t) % TsMod = c + d
           /\ After(After(t, d), c) = t <=> c + d = 0
<1>1. t \in Int /\ t \in 0..(TsMod - 1) /\ TsMod \in Nat \ {0} /\ c + d \in 0..(TsMod - 1)
  BY Numbers DEF Clock
<1>2. PICK u : u = After(t, d)
  OBVIOUS
<1>3. u \in Clock /\ \E q \in Int : (t + d) - u = q * TsMod
  <2>1. d \in Int
    OBVIOUS
  <2> QED BY <1>1, <1>2, <2>1, AfterIs, Zenon
<1>4. u \in Int
  BY <1>1, <1>3 DEF Clock
<1>5. PICK x : x = After(u, c)
  OBVIOUS
<1>6. x \in Clock /\ \E q \in Int : (u + c) - x = q * TsMod
  <2>1. c \in Int
    OBVIOUS
  <2> QED BY <1>4, <1>5, <2>1, AfterIs, Zenon
<1>7. PICK q \in Int, p \in Int : (t + d) - u = q * TsMod /\ (u + c) - x = p * TsMod
  BY <1>3, <1>6
<1>8. /\ q * TsMod \in Int /\ p * TsMod \in Int
      /\ (0 - (p + q)) * TsMod = 0 - (p * TsMod) - (q * TsMod)
  BY <1>1, SMT
<1>9. PICK a \in Int, b \in Int : a = q * TsMod /\ b = p * TsMod
  BY <1>8
<1>10. (x - t) - (c + d) = 0 - b - a /\ x - t \in Int
  <2>1. (t + d) - u = a /\ (u + c) - x = b
    BY <1>7, <1>9, Zenon
  <2>2. x \in Int
    BY <1>1, <1>6 DEF Clock
  <2> QED BY <1>1, <1>4, <2>1, <2>2
<1>11. (x - t) - (c + d) = (0 - (p + q)) * TsMod
  BY <1>8, <1>9, <1>10, Zenon
<1>12. (x - t) % TsMod = c + d
  <2>1. 0 - (p + q) \in Int
    OBVIOUS
  <2> QED BY <1>1, <1>10, <1>11, <2>1, Remainder
<1>13. ASSUME x = t PROVE c + d = 0
  <2>1. x - t = 0
    BY <1>1, <1>13
  <2>2. 0 % TsMod = 0
    <3>1. 0 - 0 = 0 * TsMod /\ 0 \in 0..(TsMod - 1)
      BY <1>1
    <3> QED BY <1>1, <3>1, Remainder
  <2> QED BY <1>12, <2>1, <2>2, Zenon
<1>14. ASSUME c + d = 0 PROVE x = t
  <2>1. t % TsMod = t
    <3>1. t - t = 0 * TsMod
      BY <1>1
    <3> QED BY <1>1, <3>1, Remainder
  <2>2. c = 0 /\ d = 0 /\ t + 0 = t
    BY <1>1, <1>14
  <2> QED BY <1>2, <1>5, <2>1, <2>2, Zenon DEF After
<1> QED BY <1>2, <1>5, <1>12, <1>13, <1>14

\* In kcp_poll the clock is d ticks on, none or one.
LEMMA Read ==
    ASSUME TypeOK, Reading, curts # NoTime
    PROVE  \E d \in 0..1 : /\ now = After(curts, d) /\ curts \in Clock
                           /\ Nap = 0 - d /\ (d = 0 <=> now = curts)
                           /\ d = 1 => missed < MaxMissed /\ (polled \/ (~awake /\ sleep < Pause))
<1>1. curts \in Clock /\ end.check
  BY DEF TypeOK, Reading
<1>2. 2 < TsMod /\ TsMod \in Nat
  BY PauseIs, Numbers
<1>3. After(curts, 0) = curts /\ After(curts, 1) # curts
  <2>1. \A d \in 0..1 : After(After(curts, d), 0) = curts <=> d = 0
    <3> SUFFICES ASSUME NEW d \in 0..1 PROVE After(After(curts, d), 0) = curts <=> d = 0
      OBVIOUS
    <3>1. d \in Nat /\ 0 \in Nat /\ 0 + d < TsMod /\ (0 + d = 0 <=> d = 0)
      BY <1>2
    <3> QED BY <1>1, <3>1, Ticks
  <2>2. \A t \in Clock : After(t, 0) = t
    <3> SUFFICES ASSUME NEW t \in Clock PROVE After(t, 0) = t
      OBVIOUS
    <3>1. t \in 0..(TsMod - 1) /\ t \in Int /\ t - t = 0 * TsMod /\ t + 0 = t /\ TsMod \in Nat \ {0}
      BY <1>2 DEF Clock
    <3>2. t % TsMod = t
      BY <3>1, Remainder
    <3> QED BY <3>1, <3>2, Zenon DEF After
  <2>3. After(curts, 1) \in Clock
    <3>1. curts \in Int /\ 1 \in Int
      BY <1>1, <1>2 DEF Clock
    <3> QED BY <3>1, AfterIs
  <2>4. 0 \in 0..1 /\ 1 \in 0..1 /\ 1 # 0
    OBVIOUS
  <2> QED BY <1>1, <2>1, <2>2, <2>3, <2>4, Zenon
<1>4. CASE now = curts
  <2>1. Nap = 0
    BY <1>4 DEF Nap
  <2> WITNESS 0 \in 0..1
  <2> QED BY <1>1, <1>3, <1>4, <2>1
<1>5. CASE now = After(curts, 1) /\ missed < MaxMissed /\ (polled \/ (~awake /\ sleep < Pause))
  <2>1. Nap = -1
    BY <1>3, <1>5 DEF Nap
  <2> WITNESS 1 \in 0..1
  <2> QED BY <1>1, <1>3, <1>5, <2>1
<1> QED BY <1>4, <1>5 DEF Reading

\* Update: it flushes, or the flush is still to come and no more than SlapMax
\* away.
NoneDue == updated /\ Due' = Due /\ Due \in 1..SlapMax /\ quiet' = quiet /\ missed' = missed

Flushed == quiet' = 0 /\ missed' = 0 /\ Due' \in 1..end.interval

LEMMA NotDue ==
    ASSUME TypeOK, timediff(now, FlushTime) < 0
    PROVE  updated /\ FlushTime = ts_flush /\ Due \in 1..SlapMax
<1>1. FlushTime # now
  <2>1. timediff(now, now) = 0
    BY Times, SameTime
  <2> QED BY <2>1
<1>2. updated /\ ~ClockChanged(ts_flush) /\ FlushTime = ts_flush
  BY <1>1 DEF FlushTime
<1>3. PICK d \in Int : d = timediff(now, ts_flush)
  BY Times, TimediffIs
<1>4. d < 0 /\ d >= -SlapMax
  BY <1>2, <1>3, Numbers DEF ClockChanged
<1>5. Due = -d
  <2>1. 0 - TsMod < 2 * d
    BY <1>4, PauseIs, Numbers
  <2> QED BY <1>3, <2>1, Ahead, Times DEF Due
<1> QED BY <1>2, <1>4, <1>5, Numbers

LEMMA UpdateDue ==
    ASSUME TypeOK, Update, now' = now
    PROVE  updated' = TRUE /\ (Flushed \/ NoneDue)
<1>1. /\ updated' = TRUE
      /\ \/ /\ timediff(now, FlushTime) >= 0 /\ flush
            /\ ts_flush' = IF timediff(now, After(FlushTime, end.interval)) >= 0
                           THEN After(now, end.interval) ELSE After(FlushTime, end.interval)
         \/ timediff(now, FlushTime) < 0 /\ ts_flush' = FlushTime /\ NoFlush /\ missed' = missed
  BY UpdateIs DEF Update
<1>2. CASE timediff(now, FlushTime) >= 0 /\ flush
  <2>1. ts_flush' = IF timediff(now, After(FlushTime, end.interval)) >= 0
                    THEN After(now, end.interval) ELSE After(FlushTime, end.interval)
    BY <1>2, Zenon DEF Update
  <2>2. Due' \in 1..end.interval
    BY <1>2, <2>1, NextFlush
  <2>3. quiet' = 0 /\ missed' = 0
    BY <1>2 DEF flush
  <2> QED BY <1>1, <2>2, <2>3 DEF Flushed
<1>3. CASE timediff(now, FlushTime) < 0 /\ ts_flush' = FlushTime /\ NoFlush /\ missed' = missed
  <2>1. updated /\ FlushTime = ts_flush /\ Due \in 1..SlapMax
    BY <1>3, NotDue
  <2>2. Due' = Due /\ quiet' = quiet
    BY <1>3, <2>1 DEF Due, NoFlush
  <2> QED BY <1>1, <1>3, <2>1, <2>2 DEF NoneDue
<1> QED BY <1>1, <1>2, <1>3

\* A due flush is missed: the clock has gone on, and the poller slept meanwhile.
Missed ==
    /\ updated' = updated /\ Due' = Due /\ quiet' = quiet /\ missed' = missed + 1
    /\ missed < MaxMissed /\ Nap = -1 /\ Nap' < Pause

LEMMA ServedDue ==
    ASSUME TypeOK, Polling, ClientServeKcp \/ ServerServeKcp
    PROVE  /\ UNCHANGED <<end, now, jumps, back, sleep, awake, torn>> /\ curts' = NoTime
           /\ wait' \in Nat /\ wait' <= Pause
           /\ Nap \in {-1, 0} /\ Nap' \in Nat /\ Nap' <= Pause
           /\ (updated' = TRUE /\ (Flushed \/ NoneDue)) \/ Missed
<1>1. /\ Pause \in Nat /\ 0 < Pause /\ MinNap <= Pause /\ end.interval \in Nat
      /\ end.interval < Pause /\ end.interval <= SlapMax /\ 2 * SlapMax + 2 <= TsMod
      /\ sleep \in Nat /\ sleep <= Pause /\ wait \in Nat /\ wait <= Pause
  <2>1. end.nap > 0 /\ end.nap \in Nat
    BY EndIs DEF TypeOK
  <2> QED BY <2>1, PauseIs, Times, Numbers DEF Polling
<1>2. ASSUME end' = end, curts' = NoTime, UNCHANGED <<sleep, awake>>, polled' \in BOOLEAN
      PROVE  Nap' \in Nat /\ Nap' <= Pause /\ (polled' \/ (~awake /\ sleep < Pause) => Nap' < Pause)
  <2>1. Pause' = Pause
    BY <1>2 DEF Pause
  <2> QED BY <1>1, <1>2, <2>1 DEF Nap, TypeOK
<1>3. CASE ClientServeKcp
  <2>1. /\ polled /\ ~end.check /\ polled' = FALSE /\ Update
        /\ UNCHANGED <<end, now, sleep, awake, curts, wait, jumps, back, torn>>
    BY <1>3 DEF ClientServeKcp, pastVars
  <2>2. curts = NoTime
    BY <2>1 DEF Polling, Reading
  <2>3. Nap = 0
    BY <2>1, <2>2 DEF Nap
  <2> QED BY <1>1, <1>2, <2>1, <2>2, <2>3, UpdateDue
<1>4. CASE ServerServeKcp
  <2>1. /\ curts # NoTime /\ curts' = NoTime
        /\ UNCHANGED <<end, now, sleep, awake, polled, jumps, back, torn>>
        /\ wait' \in Nat /\ (wait' = MinNap \/ wait' <= Asked)
        /\ \/ Update /\ After(now, Check) = curts
           \/ /\ UNCHANGED <<updated, ts_flush>> /\ NoFlush
              /\ missed' = IF timediff(now, FlushTime) >= 0 THEN missed + 1 ELSE missed
              /\ After(now, Check) # curts
    BY <1>4, ServerServes DEF pastVars
  <2>2. PICK d \in 0..1 : /\ now = After(curts, d) /\ curts \in Clock
                          /\ Nap = 0 - d /\ (d = 0 <=> now = curts)
                          /\ d = 1 => missed < MaxMissed /\ (polled \/ (~awake /\ sleep < Pause))
    BY <2>1, Read DEF Polling
  <2>3. PICK c \in Nat : c = Check /\ c <= end.interval
    BY CheckIs
  <2>4. d \in Nat /\ c + d < TsMod /\ c + d <= Pause
    BY <1>1, <2>3, Numbers
  <2>5. /\ (After(now, Check) - curts) % TsMod = c + d
        /\ After(now, Check) = curts <=> c + d = 0
    BY <2>2, <2>3, <2>4, Ticks
  <2>6. wait' <= Pause
    <3>1. Asked = MinNap \/ Asked = c + d
      BY <2>5 DEF Asked
    <3> QED BY <1>1, <2>1, <2>4, <3>1, Numbers
  <2>7. Nap \in {-1, 0}
    BY <2>2
  <2>8. Nap' \in Nat /\ Nap' <= Pause /\ (polled \/ (~awake /\ sleep < Pause) => Nap' < Pause)
    <3>1. polled' = polled /\ polled' \in BOOLEAN
      BY <2>1 DEF TypeOK
    <3> QED BY <1>2, <2>1, <3>1
  <2>9. CASE Update
    BY <2>1, <2>6, <2>7, <2>8, <2>9, UpdateDue
  <2>10. CASE /\ UNCHANGED <<updated, ts_flush>> /\ NoFlush
              /\ missed' = IF timediff(now, FlushTime) >= 0 THEN missed + 1 ELSE missed
              /\ After(now, Check) # curts
    <3>1. Due' = Due /\ quiet' = quiet
      BY <2>1, <2>10 DEF Due, NoFlush
    <3>2. PICK t \in Int : t = timediff(now, FlushTime)
      BY Times, TimediffIs DEF FlushTime
    <3>3. CASE t < 0
      <4>1. missed' = missed
        BY <2>10, <3>2, <3>3
      <4>2. updated /\ Due \in 1..SlapMax
        BY <3>2, <3>3, NotDue
      <4>3. updated' = TRUE
        BY <2>10, <4>2, Times
      <4> QED BY <2>1, <2>6, <2>7, <2>8, <3>1, <4>1, <4>2, <4>3 DEF NoneDue
    <3>4. CASE t >= 0
      <4>1. missed' = missed + 1
        BY <2>10, <3>2, <3>4
      <4>2. c = 0
        BY <2>3, <3>2, <3>4, CheckIs
      <4>3. d = 1
        BY <2>5, <2>10, <4>2
      <4> QED BY <2>1, <2>2, <2>6, <2>7, <2>8, <2>10, <3>1, <4>1, <4>3 DEF Missed
    <3>5. t < 0 \/ t >= 0
      BY <3>2
    <3> QED BY <3>3, <3>4, <3>5, Zenon
  <2> QED BY <2>1, <2>9, <2>10
<1> QED BY <1>3, <1>4

\* The other steps.
LEMMA TornStays == ASSUME TypeOK, [Next]_vars, ~torn' PROVE ~torn
<1>1. CASE Tick
  BY <1>1 DEF Tick
<1>2. CASE ClockSet
  BY <1>2 DEF ClockSet
<1>3. CASE Poll \/ Doze \/ ServerIclock
  BY <1>3 DEF Poll, Doze, ServerIclock, pastVars
<1>4. CASE ClientServeKcp \/ ServerServeKcp
  BY <1>4, Served DEF Serves, pastVars
<1>5. CASE Send \/ Input \/ UNCHANGED vars
  BY <1>5 DEF Send, Input, vars, pastVars
<1> QED BY <1>1, <1>2, <1>3, <1>4, <1>5 DEF Next

LEMMA TickDue ==
    ASSUME TypeOK, Polling, Tick
    PROVE  /\ Nap \in Nat /\ Nap' = Nap - 1 /\ quiet' = quiet + 1 /\ missed' = missed
           /\ sleep' = sleep - 1 /\ sleep > 0
           /\ UNCHANGED <<end, updated, wait, jumps, back>>
           /\ 0 - TsMod <= 2 * (Due - 1) => Due' = Due - 1
           /\ Reading'
<1>1. /\ ~polled /\ ~awake /\ sleep > 0 /\ sleep' = sleep - 1 /\ quiet' = quiet + 1
      /\ now' = After(now, 1)
      /\ UNCHANGED <<end, polled, awake, curts, ts_flush, updated, wait, missed, jumps, back>>
      /\ curts = NoTime \/ (curts = now /\ missed < MaxMissed)
  BY DEF Tick
<1>2. Nap \in Nat /\ Nap' = Nap - 1 /\ Reading'
  <2>1. CASE curts = NoTime
    <3>1. Nap = sleep /\ Nap' = sleep'
      BY <1>1, <2>1 DEF Nap
    <3> QED BY <1>1, <2>1, <3>1, Times DEF Reading
  <2>2. CASE curts # NoTime
    <3>1. curts = now /\ missed < MaxMissed /\ end.check /\ now \in Clock
      BY <1>1, <2>2 DEF Polling, Reading, TypeOK
    <3>2. now' # curts
      <4>1. 0 \in Nat /\ 1 \in Nat /\ 0 + 1 < TsMod /\ 0 + 1 # 0
        BY PauseIs, Numbers
      <4>2. After(After(now, 1), 0) # now
        BY <3>1, <4>1, Ticks
      <4>3. After(now, 1) = now => After(After(now, 1), 0) = now
        <5>1. now \in 0..(TsMod - 1) /\ now \in Int /\ now - now = 0 * TsMod /\ now + 0 = now
              /\ TsMod \in Nat \ {0}
          BY <3>1, Numbers DEF Clock
        <5>2. now % TsMod = now
          BY <5>1, Remainder
        <5>3. After(now, 0) = now
          BY <5>1, <5>2, Zenon DEF After
        <5> QED BY <5>3
      <4> QED BY <1>1, <3>1, <4>2, <4>3
    <3>3. Nap = 0 /\ Nap' = -1
      BY <1>1, <2>2, <3>1, <3>2 DEF Nap
    <3>4. sleep' < Pause /\ Pause' = Pause
      <4>1. Pause \in Nat /\ sleep \in Nat /\ sleep <= Pause
        BY PauseIs, Times DEF Polling
      <4> QED BY <1>1, <4>1 DEF Pause
    <3>5. Reading'
      BY <1>1, <3>1, <3>4 DEF Reading
    <3> QED BY <3>3, <3>5
  <2> QED BY <2>1, <2>2
<1>3. ASSUME 0 - TsMod <= 2 * (Due - 1) PROVE Due' = Due - 1
  <2>1. PICK x \in Int : x = Due - 1
    BY Times
  <2>2. x = timediff(ts_flush, now) - 1 /\ ts_flush \in Int /\ now \in Int /\ 1 \in Int
    BY <2>1, Times DEF Due
  <2>3. 0 - TsMod <= 2 * x /\ 2 * x < TsMod
    BY <1>3, <2>1, Times, Numbers
  <2>4. timediff(ts_flush, After(now, 1)) = x
    BY <2>2, <2>3, Elapsed
  <2> QED BY <1>1, <2>1, <2>4 DEF Due
<1> QED BY <1>1, <1>2, <1>3

LEMMA ClockSetDue ==
    ASSUME TypeOK, ClockSet, ~torn'
    PROVE  /\ jumps < MaxJumps /\ jumps' = jumps + 1 /\ Nap' = Nap /\ curts' = NoTime
           /\ UNCHANGED <<end, sleep, wait, updated, quiet, missed, ts_flush>>
           /\ \E d \in Jumps : /\ d \in Int /\ now' = After(now, d) /\ back' = back + Max2(-d, 0)
                               /\ 0 - TsMod <= 2 * (Due - d) /\ 2 * (Due - d) < TsMod
                                  => Due' = Due - d
<1>1. /\ jumps < MaxJumps /\ jumps' = jumps + 1 /\ curts = NoTime
      /\ UNCHANGED <<end, polled, awake, curts, sleep, wait, updated, quiet, missed, ts_flush>>
  BY DEF ClockSet, pollVars, flushVars
<1>2. Nap' = Nap
  BY <1>1 DEF Nap, Pause
<1>3. PICK d \in Jumps : now' = After(now, d) /\ back' = back + Max2(-d, 0)
  BY DEF ClockSet
<1>4. d \in Int
  BY <1>3, InputAssumption
<1>5. ASSUME 0 - TsMod <= 2 * (Due - d), 2 * (Due - d) < TsMod PROVE Due' = Due - d
  <2>1. PICK x \in Int : x = Due - d
    BY <1>4, Times
  <2>2. x = timediff(ts_flush, now) - d /\ ts_flush \in Int /\ now \in Int
    BY <2>1, Times DEF Due
  <2>3. 0 - TsMod <= 2 * x /\ 2 * x < TsMod
    BY <1>5, <2>1
  <2>4. timediff(ts_flush, After(now, d)) = x
    BY <1>4, <2>2, <2>3, Elapsed
  <2> QED BY <1>1, <1>3, <2>1, <2>4 DEF Due
<1> QED BY <1>1, <1>2, <1>3, <1>4, <1>5

\* The poller and the loop's first look at the clock.
LEMMA PollDue ==
    ASSUME TypeOK, Polling, Poll \/ Doze \/ ServerIclock
    PROVE  /\ Nap' \in Int /\ Nap' <= Nap /\ Due' = Due
           /\ UNCHANGED <<end, wait, updated, quiet, missed, jumps, back>>
           /\ sleep' <= Pause /\ Reading'
<1>1. UNCHANGED <<end, now, wait, ts_flush, updated, quiet, missed, jumps, back>>
  BY DEF Poll, Doze, ServerIclock, flushVars, pastVars
<1>2. /\ Pause \in Nat /\ end.nap <= Pause /\ end.nap \in Nat /\ sleep \in Nat /\ sleep <= Pause
      /\ wait \in Nat /\ wait <= Pause /\ Nap \in Int
  BY PauseIs, Times DEF Polling
<1>3. Due' = Due /\ Pause' = Pause
  BY <1>1 DEF Due, Pause
<1>4. CASE Poll
  <2>1. sleep = 0 /\ ~awake /\ ~polled /\ polled' = TRUE /\ UNCHANGED <<sleep, curts>>
    BY <1>4 DEF Poll
  <2>2. Nap' = Nap
    BY <1>1, <2>1 DEF Nap
  <2> QED BY <1>1, <1>2, <1>3, <2>1, <2>2 DEF Polling, Reading
<1>5. CASE Doze
  <2>1. awake /\ sleep' \in {wait, end.nap} /\ UNCHANGED <<curts, polled>> /\ awake' = FALSE
    BY <1>5 DEF Doze
  <2>2. sleep' \in Nat /\ sleep' <= Pause
    BY <1>2, <2>1
  <2>3. Nap' \in Int /\ Nap' <= Nap
    BY <1>1, <1>2, <2>1, <2>2 DEF Nap
  <2>4. Reading'
    BY <1>1, <1>3, <2>1 DEF Polling, Reading
  <2> QED BY <1>1, <1>3, <2>2, <2>3, <2>4
<1>6. CASE ServerIclock
  <2>1. polled /\ end.check /\ curts = NoTime /\ curts' = now /\ sleep' = sleep
    BY <1>6 DEF ServerIclock
  <2>2. Nap = 0 /\ Nap' = 0
    <3>1. now # NoTime
      BY Numbers DEF TypeOK, Clock, NoTime
    <3> QED BY <1>1, <2>1, <3>1 DEF Nap
  <2>3. Reading'
    BY <1>1, <2>1 DEF Reading
  <2> QED BY <1>1, <1>2, <1>3, <2>1, <2>2, <2>3
<1> QED BY <1>4, <1>5, <1>6

LEMMA OtherDue ==
    ASSUME Send \/ Input \/ UNCHANGED vars
    PROVE  /\ Nap' = Nap /\ Due' = Due /\ Pause' = Pause /\ (Polling => Polling')
           /\ UNCHANGED <<end, sleep, wait, updated, quiet, missed, jumps, back>>
<1>1. UNCHANGED <<end, now, sleep, awake, polled, curts, wait, updated, ts_flush, missed, quiet,
                  jumps, back>>
  BY DEF Send, Input, vars, pollVars, flushVars, pastVars
<1> QED BY <1>1 DEF Nap, Due, Pause, Polling, Reading
-----------------------------------------------------------------------------
(* Flushes come regularly. *)

\* The next flush is no further off than an interval after the last one, and
\* not overdue by more than a nap and what those missed cost; or the clock has
\* been set since, and the event that notices is on its way.
Paced ==
    /\ Polling
    /\ ~updated => quiet + Nap <= Pause + Cost
    /\ updated => quiet + Nap < end.interval + Pause + Lag + Cost
    /\ updated => \/ quiet + Due <= end.interval + Lag + Cost /\ Due > Nap - Pause - Cost
                  \/ quiet + Nap + SlapMax < end.interval + Lag + Cost

LEMMA PacedStep ==
    ASSUME TypeOK, Paced, [Next]_vars, ~torn'
    PROVE  Paced'
<1>1. PICK p \in Nat, i \in Nat, l \in Nat, m \in Nat, all \in Nat :
         /\ p = Pause /\ i = end.interval /\ l = Lag /\ m = Cost /\ all = Misses
         /\ i > 0 /\ i < p /\ i <= SlapMax /\ m <= all /\ 2 * (all + p) < TsMod
  <2>1. missed <= MaxMissed
    BY DEF Paced, Polling
  <2>2. PICK x \in Nat : x = (MaxMissed + 1) * (SlapMax + end.nap)
    BY CostIs
  <2>3. 2 * (Misses + Pause) < TsMod
    BY <2>2, CostIs, PauseIs, Numbers
  <2> QED BY <2>1, <2>3, PauseIs, LagIs, CostIs
<1>2. PICK q \in Nat, n \in Int, d \in Int : q = quiet /\ n = Nap /\ d = Due /\ n >= -1
  BY Times
<1>3. /\ sleep \in Nat /\ wait \in Nat /\ sleep <= p /\ wait <= p /\ Polling
      /\ ~updated => q + n <= p + m
      /\ updated => q + n < i + p + l + m
      /\ updated => (q + d <= i + l + m /\ d > n - p - m) \/ q + n + SlapMax < i + l + m
      /\ missed \in Nat /\ missed <= MaxMissed /\ updated \in BOOLEAN
  BY <1>1, <1>2, Times DEF Paced, Polling
<1>4. ASSUME end' = end, jumps' = jumps PROVE Pause' = p /\ end'.interval = i /\ Lag' = l
  BY <1>1, <1>4, LagIs DEF Pause
<1>5. CASE Tick
  <2>1. 2 * (d - 1) < 0 - TsMod \/ Due' = d - 1
    BY <1>2, <1>3, <1>5, TickDue, Numbers
  <2>2. /\ n >= 0 /\ Nap' = n - 1 /\ quiet' = q + 1 /\ sleep' \in Nat /\ sleep' <= p
        /\ UNCHANGED <<end, updated, wait, jumps, missed>> /\ Reading'
    BY <1>2, <1>3, <1>5, TickDue
  <2>3. (q + 1) + (n - 1) = q + n
    BY <1>1
  <2>4. q + d <= i + l + m /\ d > n - p - m => Due' = d - 1
    BY <1>1, <1>2, <2>1, <2>2, Numbers
  <2>5. updated' => \/ quiet' + Due' <= i + l + m /\ Due' > Nap' - p - m
                    \/ quiet' + Nap' + SlapMax < i + l + m
    <3>1. CASE q + d <= i + l + m /\ d > n - p - m
      <4>1. quiet' + Due' = q + d /\ Due' > Nap' - p - m
        BY <1>2, <2>2, <2>4, <3>1
      <4> QED BY <3>1, <4>1
    <3>2. CASE q + n + SlapMax < i + l + m
      BY <2>2, <2>3, <3>2
    <3> QED BY <1>3, <2>2, <3>1, <3>2
  <2>6. Cost' = m
    BY <1>1, <2>2, CostIs
  <2>7. Polling' /\ quiet' + Nap' = q + n
    BY <1>3, <1>4, <2>2, <2>3 DEF Polling
  <2> QED BY <1>3, <1>4, <2>2, <2>5, <2>6, <2>7 DEF Paced
<1>6. CASE ClockSet
  <2>1. /\ jumps' = jumps + 1 /\ Nap' = n /\ quiet' = q /\ curts' = NoTime
        /\ UNCHANGED <<end, updated, sleep, wait, missed>>
    BY <1>2, <1>6, ClockSetDue
  <2>2. Pause' = p /\ end'.interval = i /\ Lag' = l + SlapMax + p /\ Cost' = m
    BY <1>1, <2>1, LagIs, CostIs DEF Pause
  <2>3. updated' => quiet' + Nap' < i + p + (l + SlapMax + p) + m
    BY <1>1, <1>2, <1>3, <2>1, Numbers
  <2>4. updated' => quiet' + Nap' + SlapMax < i + (l + SlapMax + p) + m
    BY <1>1, <1>2, <1>3, <2>1, Numbers
  <2>5. Polling'
    BY <1>3, <2>1, <2>2 DEF Polling, Reading
  <2> QED BY <1>2, <1>3, <2>1, <2>2, <2>3, <2>4, <2>5 DEF Paced
<1>7. CASE Poll \/ Doze \/ ServerIclock
  <2>1. /\ Nap' \in Int /\ Nap' <= n /\ Due' = d /\ quiet' = q /\ sleep' <= p /\ Reading'
        /\ UNCHANGED <<end, wait, updated, jumps, missed>>
    BY <1>1, <1>2, <1>3, <1>7, PollDue
  <2>2. Cost' = m
    BY <1>1, <2>1, CostIs
  <2>3. Polling'
    BY <1>3, <1>4, <2>1 DEF Polling
  <2>4. PICK r \in Int : r = Nap' /\ r <= n
    BY <2>1
  <2>5. /\ ~updated => q + r <= p + m
        /\ updated => q + r < i + p + l + m
        /\ updated => (q + d <= i + l + m /\ d > r - p - m) \/ q + r + SlapMax < i + l + m
    <3>1. r <= n /\ SlapMax \in Nat
      BY <2>4, Numbers
    <3> QED BY <1>3, <3>1
  <2> QED BY <1>4, <2>1, <2>2, <2>3, <2>4, <2>5 DEF Paced
<1>8. CASE ClientServeKcp \/ ServerServeKcp
  <2>1. /\ UNCHANGED <<end, jumps, sleep>> /\ curts' = NoTime /\ wait' <= p
        /\ n \in {-1, 0} /\ Nap' \in Nat /\ Nap' <= p
        /\ (updated' = TRUE /\ (Flushed \/ NoneDue)) \/ Missed
    BY <1>1, <1>2, <1>3, <1>8, ServedDue
  <2>2. /\ Pause' = p /\ end'.interval = i /\ Lag' = l
        /\ \E r \in Nat : r = Nap' /\ r <= p
    BY <1>4, <2>1
  <2>7. PICK r \in Nat : r = Nap' /\ r <= p
    BY <2>2
  <2>3. missed' <= MaxMissed => Polling'
    BY <1>3, <2>1, <2>2 DEF Polling, Reading
  <2>4. CASE updated' = TRUE /\ Flushed
    <3>1. quiet' = 0 /\ missed' = 0 /\ Due' \in 1..i /\ Cost' = 0
      BY <1>1, <2>1, <2>4, CostIs DEF Flushed
    <3>4. PICK e \in 1..i : e = Due'
      BY <3>1
    <3>2. 0 + r < i + p + l + 0 /\ 0 + e <= i + l + 0 /\ e > r - p - 0
      <4>1. r <= p /\ i > 0
        BY <1>1, <2>7
      <4> QED BY <4>1
    <3>3. missed' <= MaxMissed
      BY <3>1, Numbers
    <3> QED BY <2>2, <2>3, <2>4, <2>7, <3>1, <3>2, <3>3, <3>4 DEF Paced
  <2>5. CASE updated' = TRUE /\ NoneDue
    <3>1. updated /\ quiet' = q /\ Due' = d /\ d \in 1..SlapMax /\ missed' = missed /\ Cost' = m
      BY <1>1, <1>2, <2>1, <2>5, CostIs DEF NoneDue
    <3>2. q + d <= i + l + m
      BY <1>1, <1>2, <1>3, <2>1, <3>1, Numbers
    <3>3. q + r < i + p + l + m /\ d > r - p - m
      <4>1. r <= p /\ d > 0
        BY <2>7, <3>1, Numbers
      <4> QED BY <3>2, <4>1
    <3> QED BY <1>2, <1>3, <2>2, <2>3, <2>5, <2>7, <3>1, <3>2, <3>3 DEF Paced
  <2>6. CASE Missed
    <3>1. /\ updated' = updated /\ quiet' = q /\ Due' = d /\ missed' = missed + 1
          /\ missed < MaxMissed /\ n = -1 /\ Nap' < p /\ Cost' = m + p
      BY <1>1, <1>2, <2>1, <2>6, CostIs DEF Missed
    <3>2. missed' <= MaxMissed
      BY <1>3, <3>1, Numbers
    <3>3. /\ ~updated => q + r <= p + (m + p)
          /\ updated => q + r < i + p + l + (m + p)
      <4>1. n = -1 /\ r < p
        BY <2>7, <3>1
      <4> QED BY <1>3, <4>1
    <3>4. updated => (q + d <= i + l + (m + p) /\ d > r - p - (m + p))
                     \/ q + r + SlapMax < i + l + (m + p)
      <4>1. n = -1 /\ r < p /\ SlapMax \in Nat
        BY <2>7, <3>1, Numbers
      <4> QED BY <1>3, <4>1
    <3> QED BY <1>2, <2>2, <2>3, <2>7, <3>1, <3>2, <3>3, <3>4 DEF Paced
  <2> QED BY <2>1, <2>4, <2>5, <2>6
<1>9. CASE Send \/ Input \/ UNCHANGED vars
  <2>1. /\ Nap' = n /\ Due' = d /\ quiet' = q /\ Polling'
        /\ UNCHANGED <<end, updated, missed, jumps>>
    BY <1>2, <1>3, <1>9, OtherDue
  <2>2. Cost' = m
    BY <1>1, <2>1, CostIs
  <2> QED BY <1>2, <1>3, <1>4, <2>1, <2>2 DEF Paced
<1> QED BY <1>5, <1>6, <1>7, <1>8, <1>9 DEF Next

\* Between them, the changes of the clock and the missed flushes amount to less
\* than half a turn, 24 days; each change to J at most.
Settable(J) ==
    /\ \A d \in Jumps : -J <= d /\ d <= J
    /\ \A e \in Ends : 2 * ((MaxMissed + 1) * (SlapMax + e.nap) + MaxJumps * J) < TsMod

\* The same when the clock is set by little: each change costs what it is.
OnTime(J) ==
    /\ back <= SetBy(J) /\ jumps <= MaxJumps
    /\ updated => /\ quiet + Nap < end.interval + Pause + back + Cost
                  /\ quiet + Due <= end.interval + back + Cost
                  /\ Due > Nap - Pause - SetBy(J) - Cost

\* How far the clock can have been set by now, and in all.
LEMMA SetByBounds ==
    ASSUME NEW J \in Nat, TypeOK, jumps <= MaxJumps
    PROVE  /\ MaxJumps * J \in Nat /\ SetBy(J) <= MaxJumps * J
           /\ jumps < MaxJumps => SetBy(J) + J <= MaxJumps * J
<1>1. MaxJumps * J \in Nat /\ SetBy(J) <= MaxJumps * J
  BY SetByIs, Numbers, SMT
<1>2. ASSUME jumps < MaxJumps PROVE SetBy(J) + J <= MaxJumps * J
  <2>1. PICK j \in Nat, r \in Nat : j = jumps /\ MaxJumps = j + 1 + r
    <3>1. jumps \in Nat /\ MaxJumps - jumps - 1 \in Nat /\ MaxJumps = jumps + 1 + (MaxJumps - jumps - 1)
      BY <1>2, Times, Numbers
    <3> QED BY <3>1
  <2>2. MaxJumps * J = j * J + J + r * J /\ j * J \in Nat /\ r * J \in Nat
    BY <2>1, SMT
  <2>3. SetBy(J) = j * J
    BY <2>1, Zenon DEF SetBy
  <2> QED BY <2>2, <2>3
<1> QED BY <1>1, <1>2

LEMMA OnTimeStep ==
    ASSUME NEW J \in Nat, Settable(J), TypeOK, Paced, OnTime(J), [Next]_vars, ~torn'
    PROVE  OnTime(J)'
<1>1. PICK p \in Nat, i \in Nat, s \in Nat, m \in Nat, all \in Nat, mall \in Nat :
         /\ p = Pause /\ i = end.interval /\ s = SetBy(J) /\ m = Cost
         /\ all = MaxJumps * J /\ mall = Misses
         /\ i > 0 /\ i < p /\ i <= SlapMax /\ m <= mall
  <2>1. missed <= MaxMissed
    BY DEF Paced, Polling
  <2>2. MaxJumps * J \in Nat
    BY SetByBounds DEF OnTime
  <2> QED BY <2>1, <2>2, PauseIs, SetByIs, CostIs
<1>2. PICK q \in Nat, n \in Int, d \in Int, b \in Nat :
         q = quiet /\ n = Nap /\ d = Due /\ b = back /\ n >= -1
  BY Times
<1>3. /\ 2 * (mall + p + all) < TsMod /\ s <= all /\ (jumps < MaxJumps => s + J <= all)
      /\ 2 * d < TsMod
  <2>1. PICK x \in Nat : x = (MaxMissed + 1) * (SlapMax + end.nap)
    BY CostIs
  <2>2. 2 * (x + all) < TsMod
    BY <1>1, <2>1, Zenon DEF Settable, TypeOK
  <2>3. mall + p <= x
    BY <1>1, <2>1, CostIs
  <2>4. s <= all /\ (jumps < MaxJumps => s + J <= all)
    BY <1>1, SetByBounds DEF OnTime
  <2> QED BY <1>1, <1>2, <2>2, <2>3, <2>4, Times, Numbers
<1>4. /\ b <= s
      /\ ~updated => q + n <= p + m
      /\ updated => q + n < i + p + b + m /\ q + d <= i + b + m /\ d > n - p - s - m
  BY <1>1, <1>2 DEF Paced, OnTime
<1>5. jumps \in Nat /\ jumps <= MaxJumps /\ updated \in BOOLEAN /\ Polling
  BY Times DEF OnTime, Paced
<1>6. ASSUME end' = end, jumps' = jumps, back' = back
      PROVE  Pause' = p /\ end'.interval = i /\ SetBy(J)' = s /\ back' <= s /\ jumps' <= MaxJumps
  BY <1>1, <1>2, <1>4, <1>5, <1>6, SetByIs DEF Pause
<1>7. CASE Tick
  <2>1. 2 * (d - 1) < 0 - TsMod \/ Due' = d - 1
    BY <1>2, <1>5, <1>7, TickDue, Numbers
  <2>2. /\ n >= 0 /\ Nap' = n - 1 /\ quiet' = q + 1
        /\ UNCHANGED <<end, updated, jumps, back, missed>>
    BY <1>2, <1>5, <1>7, TickDue
  <2>3. updated => Due' = d - 1
    BY <1>1, <1>3, <1>4, <2>1, <2>2, Numbers
  <2>4. Cost' = m
    BY <1>1, <2>2, CostIs
  <2>5. updated => /\ (q + 1) + (n - 1) < i + p + b + m /\ (q + 1) + (d - 1) <= i + b + m
                   /\ d - 1 > (n - 1) - p - s - m
    BY <1>4
  <2> QED BY <1>2, <1>6, <2>2, <2>3, <2>4, <2>5 DEF OnTime
<1>8. CASE ClockSet
  <2>1. /\ jumps < MaxJumps /\ jumps' = jumps + 1 /\ Nap' = n /\ quiet' = q
        /\ UNCHANGED <<end, updated, missed>>
    BY <1>2, <1>8, ClockSetDue
  <2>2. PICK c \in Jumps : /\ c \in Int /\ back' = b + Max2(-c, 0)
                           /\ (0 - TsMod <= 2 * (d - c) /\ 2 * (d - c) < TsMod => Due' = d - c)
    BY <1>2, <1>8, ClockSetDue
  <2>3. c \in Int /\ -J <= c /\ c <= J
    BY <2>2 DEF Settable
  <2>4. Pause' = p /\ end'.interval = i /\ SetBy(J)' = s + J /\ Cost' = m
    BY <1>1, <2>1, SetByIs, CostIs DEF Pause
  <2>5. PICK b1 \in Nat : b1 = back' /\ b1 <= s + J /\ b1 >= b /\ b1 >= b - c
    BY <1>2, <1>4, <2>2, <2>3 DEF Max2
  <2>6. updated => Due' = d - c
    <3>1. updated => d <= i + b + m + 1 /\ d > -1 - p - s - m
      BY <1>2, <1>4
    <3>2. ASSUME updated PROVE 0 - TsMod <= 2 * (d - c) /\ 2 * (d - c) < TsMod
      <4>1. s + J <= all /\ TsMod \in Nat
        BY <1>3, <2>1, Numbers
      <4>2. d <= i + b + m /\ d > -1 - p - s - m
        BY <1>2, <1>4, <3>2
      <4>3. d - c <= i + b + m + J /\ d - c > -1 - p - s - m - J
        BY <2>3, <4>2
      <4>4. i < p /\ m <= mall /\ b <= s /\ 2 * (mall + p + all) < TsMod
        BY <1>1, <1>3, <1>4
      <4>5. i + b + m + J <= p + all + mall /\ p + s + m + J <= mall + p + all
        BY <4>1, <4>4
      <4>6. PICK z \in Int : z = d - c
        BY <2>3
      <4>7. z <= mall + p + all /\ z >= 0 - (mall + p + all)
        BY <4>3, <4>5, <4>6
      <4>8. PICK y \in Nat : y = mall + p + all /\ 2 * y < TsMod
        BY <4>4
      <4>9. 0 - TsMod <= 2 * z /\ 2 * z < TsMod
        BY <4>1, <4>7, <4>8
      <4> QED BY <4>6, <4>9
    <3> QED BY <2>2, <3>2
  <2>7. updated => /\ q + n < i + p + b1 + m /\ q + (d - c) <= i + b1 + m
                   /\ d - c > n - p - (s + J) - m
    <3>1. b1 >= b /\ b1 >= b - c /\ c <= J /\ c \in Int
      BY <2>3, <2>5
    <3>2. PICK z \in Int : z = d - c /\ z + c = d
      BY <3>1
    <3>3. updated => /\ q + n < i + p + b1 + m /\ q + z <= i + b1 + m
                     /\ z > n - p - (s + J) - m
      BY <1>4, <3>1, <3>2
    <3> QED BY <3>2, <3>3
  <2>8. jumps' <= MaxJumps
    BY <1>5, <2>1, Numbers
  <2> QED BY <2>1, <2>4, <2>5, <2>6, <2>7, <2>8 DEF OnTime
<1>9. CASE Poll \/ Doze \/ ServerIclock
  <2>1. /\ Nap' \in Int /\ Nap' <= n /\ Due' = d /\ quiet' = q
        /\ UNCHANGED <<end, updated, jumps, back, missed>>
    BY <1>2, <1>5, <1>9, PollDue
  <2>2. PICK r \in Int : r = Nap' /\ r <= n
    BY <2>1
  <2>3. updated => q + r < i + p + b + m /\ q + d <= i + b + m /\ d > r - p - s - m
    <3>1. r <= n
      BY <2>2
    <3> QED BY <1>4, <3>1
  <2>4. Cost' = m
    BY <1>1, <2>1, CostIs
  <2> QED BY <1>2, <1>6, <2>1, <2>2, <2>3, <2>4 DEF OnTime
<1>10. CASE ClientServeKcp \/ ServerServeKcp
  <2>1. /\ UNCHANGED <<end, jumps, back>> /\ n \in {-1, 0}
        /\ (updated' = TRUE /\ (Flushed \/ NoneDue)) \/ Missed
    BY <1>2, <1>5, <1>10, ServedDue
  <2>2. PICK r \in Nat : r = Nap' /\ r <= p
    BY <1>1, <1>5, <1>10, ServedDue
  <2>3. r <= p
    BY <2>2
  <2>4. CASE updated' = TRUE /\ Flushed
    <3>1. quiet' = 0 /\ Due' \in 1..i /\ Cost' = 0
      BY <1>1, <2>1, <2>4, CostIs DEF Flushed
    <3>2. PICK e \in 1..i : e = Due'
      BY <3>1
    <3>3. i > 0
      BY <1>1
    <3>4. 0 + r < i + p + b + 0 /\ 0 + e <= i + b + 0 /\ e > r - p - s - 0
      BY <2>3, <3>3
    <3> QED BY <1>2, <1>6, <2>1, <2>2, <3>1, <3>2, <3>4 DEF OnTime
  <2>5. CASE updated' = TRUE /\ NoneDue
    <3>1. updated /\ quiet' = q /\ Due' = d /\ d \in 1..SlapMax /\ Cost' = m
      BY <1>1, <1>2, <2>1, <2>5, CostIs DEF NoneDue
    <3>2. d > 0
      BY <3>1, Numbers
    <3>3. q + r < i + p + b + m /\ q + d <= i + b + m /\ d > r - p - s - m
      BY <1>4, <2>3, <3>1, <3>2
    <3> QED BY <1>2, <1>6, <2>1, <2>2, <3>1, <3>3 DEF OnTime
  <2>6. CASE Missed
    <3>1. /\ updated' = updated /\ quiet' = q /\ Due' = d /\ Cost' = m + p
          /\ n = -1 /\ r < p
      BY <1>1, <1>2, <2>1, <2>2, <2>6, CostIs DEF Missed
    <3>2. updated => /\ q + r < i + p + b + (m + p) /\ q + d <= i + b + (m + p)
                     /\ d > r - p - s - (m + p)
      <4>1. n = -1 /\ r < p
        BY <3>1
      <4> QED BY <1>4, <4>1
    <3> QED BY <1>2, <1>6, <2>1, <2>2, <3>1, <3>2 DEF OnTime
  <2> QED BY <2>1, <2>4, <2>5, <2>6
<1>11. CASE Send \/ Input \/ UNCHANGED vars
  <2>1. /\ Nap' = n /\ Due' = d /\ quiet' = q
        /\ UNCHANGED <<end, updated, missed, jumps, back>>
    BY <1>2, <1>11, OtherDue
  <2>2. Cost' = m
    BY <1>1, <2>1, CostIs
  <2> QED BY <1>2, <1>4, <1>6, <2>1, <2>2 DEF OnTime
<1> QED BY <1>7, <1>8, <1>9, <1>10, <1>11 DEF Next

LEMMA PacedInit == Init => Paced
<1> SUFFICES ASSUME Init PROVE Paced
  OBVIOUS
<1>1. TypeOK
  BY TypedInit DEF Typed
<1>2. /\ updated = FALSE /\ quiet = 0 /\ sleep = end.nap /\ wait = 0 /\ Nap = end.nap
      /\ curts = NoTime /\ missed = 0
  BY DEF Init, Nap
<1>3. Polling
  BY <1>1, <1>2, PauseIs, Numbers DEF Polling, Reading
<1> QED BY <1>1, <1>2, <1>3, PauseIs, CostIs DEF Paced

\* A flush comes at least every interval and one nap of the poller, plus a nap
\* for each due flush that the server missed because the clock went on between
\* its two reads, plus what the clock has been set back in all or, where that
\* is less, SlapMax and a nap for each time it was set - unless it was set
\* between those two reads (poller and loop at tunneld.go:74, 130, 148; Update
\* and Check in kcp.go).
THEOREM FlushesRegular ==
    ASSUME NEW J \in Nat, Settable(J)
    PROVE  Spec => []FlushRegular
<1> DEFINE Inv == Typed /\ RttInv /\ (torn \/ (Paced /\ OnTime(J)))
<1>1. Init => Inv
  <2> SUFFICES ASSUME Init PROVE OnTime(J)
    BY TypedInit, RttInit, PacedInit
  <2>1. TypeOK /\ back = 0 /\ jumps = 0 /\ updated = FALSE
    BY TypedInit DEF Typed, Init
  <2> QED BY <2>1, SetByIs, Numbers DEF OnTime
<1>2. Inv /\ [Next]_vars => Inv'
  <2>1. ASSUME Typed, RttInv, [Next]_vars PROVE (Typed /\ RttInv)'
    BY <2>1, TypedStep, RttStep
  <2>2. ASSUME Typed, torn \/ (Paced /\ OnTime(J)), [Next]_vars PROVE (torn \/ (Paced /\ OnTime(J)))'
    <3> SUFFICES ASSUME ~torn' PROVE Paced' /\ OnTime(J)'
      OBVIOUS
    <3>1. TypeOK /\ Paced /\ OnTime(J)
      BY <2>2, TornStays DEF Typed
    <3> QED BY <2>2, <3>1, PacedStep, OnTimeStep
  <2> QED BY <2>1, <2>2
<1>3. ASSUME Inv PROVE FlushRegular
  <2> SUFFICES ASSUME ~torn PROVE FlushRegular
    BY DEF FlushRegular
  <2>1. TypeOK /\ Paced /\ OnTime(J)
    BY <1>3 DEF Typed
  <2>2. PICK l \in Nat, p \in Nat, i \in Nat, m \in Nat :
           l = Lag /\ p = Pause /\ i = end.interval /\ m = Cost /\ i > 0
    BY <2>1, LagIs, PauseIs, CostIs
  <2>3. PICK q \in Nat, n \in Int, b \in Nat : q = quiet /\ n = Nap /\ b = back /\ n >= -1
    BY <2>1, Times
  <2>4. /\ ~updated => q + n <= p + m
        /\ updated => q + n < i + p + l + m /\ q + n < i + p + b + m
    BY <2>1, <2>2, <2>3 DEF Paced, OnTime
  <2>5. updated \in BOOLEAN /\ n >= -1 /\ i > 0
    BY <2>1, <2>2, <2>3, Times
  <2>6. q <= i + p + m + l /\ q <= i + p + m + b
    BY <2>4, <2>5
  <2>7. q <= i + p + m + Min2(b, l)
    BY <2>6 DEF Min2
  <2> QED BY <2>2, <2>3, <2>7, Zenon DEF FlushRegular, Lag, Pause, Cost
<1>4. Inv => FlushRegular
  BY <1>3
<1> HIDE DEF Inv
<1> QED BY <1>1, <1>2, <1>4, PTL DEF Spec

-----------------------------------------------------------------------------
(* Segments have their time ahead of them. *)

\* A timeout x after t ticks: each retransmission waits RtoMax longer at most
\* than the one before, so that the timeout grows as the root of the time only.
Sustained(x, t) == x * x <= (2 * RtoMax) * t

LEMMA SustainedLonger ==
    ASSUME NEW x \in Nat, NEW t \in Int, NEW u \in Int, t <= u, Sustained(x, t)
    PROVE  Sustained(x, u)
<1>1. PICK m \in Nat : m = 2 * RtoMax
  BY Constants
<1>2. PICK d \in Nat : u = t + d
  <2>1. u - t \in Nat /\ u = t + (u - t)
    OBVIOUS
  <2> QED BY <2>1
<1>3. m * u = m * t + m * d /\ m * d \in Nat /\ m * t \in Int
  BY <1>1, <1>2, SMT
<1>4. x * x \in Nat
  BY SMT
<1>5. PICK a \in Int, b \in Int, c \in Nat, e \in Nat : a = m * t /\ b = m * u /\ c = m * d /\ e = x * x
  BY <1>1, <1>3, <1>4
<1>6. e <= a
  BY <1>1, <1>5, Zenon DEF Sustained
<1>7. b = a + c
  BY <1>3, <1>5
<1>8. e <= b
  BY <1>5, <1>6, <1>7
<1> QED BY <1>1, <1>5, <1>8, Zenon DEF Sustained

LEMMA SustainedFresh ==
    ASSUME NEW x \in Nat, x <= RtoMax, NEW t \in Int, x <= t
    PROVE  Sustained(x, t)
<1>1. PICK d \in Nat : RtoMax = x + d
  <2>1. RtoMax - x \in Nat /\ RtoMax = x + (RtoMax - x)
    BY Constants
  <2> QED BY <2>1
<1>2. 2 * RtoMax = 2 * x + 2 * d
  BY <1>1
<1>3. (2 * x + 2 * d) * x = x * x + x * x + 2 * (d * x) /\ x * x \in Nat /\ d * x \in Nat
  BY <1>1, SMT
<1>4. x * x <= (2 * x + 2 * d) * x
  <2>1. PICK a \in Nat, b \in Nat, c \in Nat : a = x * x /\ b = d * x /\ c = (2 * x + 2 * d) * x
    BY <1>1, <1>3, SMT
  <2>2. c = a + a + 2 * b
    BY <1>3, <2>1, Zenon
  <2>3. a <= c
    BY <2>1, <2>2
  <2> QED BY <2>1, <2>3, Zenon
<1>5. Sustained(x, x)
  BY <1>2, <1>4, Zenon DEF Sustained
<1> QED BY <1>5, SustainedLonger

LEMMA SustainedMore ==
    ASSUME NEW x \in Nat, NEW t \in Int, Sustained(x, t), NEW m \in Nat, m <= RtoMax
    PROVE  Sustained(x + m, t + (x + m))
<1>1. PICK d \in Nat : RtoMax = m + d
  <2>1. RtoMax - m \in Nat /\ RtoMax = m + (RtoMax - m)
    BY Constants
  <2> QED BY <2>1
<1>2. PICK k \in Nat : k = 2 * RtoMax /\ k = 2 * m + 2 * d
  BY <1>1
<1>3. (x + m) * (x + m) = x * x + 2 * (m * x) + m * m
  BY SMT
<1>4. k * (t + (x + m)) = k * t + k * x + k * m
  BY <1>2, SMT
<1>5. k * x = 2 * (m * x) + 2 * (d * x) /\ k * m = 2 * (m * m) + 2 * (d * m)
  BY <1>1, <1>2, SMT
<1>6. /\ x * x \in Nat /\ m * x \in Nat /\ m * m \in Nat /\ d * x \in Nat /\ d * m \in Nat
      /\ k * t \in Int /\ k * x \in Nat /\ k * m \in Nat
  BY <1>1, <1>2, SMT
<1>7. PICK xx \in Nat, mx \in Nat, mm \in Nat, dx \in Nat, dm \in Nat, kt \in Int, kx \in Nat, km \in Nat :
         /\ xx = x * x /\ mx = m * x /\ mm = m * m /\ dx = d * x /\ dm = d * m
         /\ kt = k * t /\ kx = k * x /\ km = k * m
  BY <1>6
<1>8. PICK l, r : l = (x + m) * (x + m) /\ r = k * (t + (x + m))
  OBVIOUS
<1>9. l = xx + 2 * mx + mm /\ r = kt + kx + km /\ kx = 2 * mx + 2 * dx /\ km = 2 * mm + 2 * dm
  BY <1>3, <1>4, <1>5, <1>7, <1>8, Zenon
<1>10. xx <= kt
  BY <1>2, <1>7, Zenon DEF Sustained
<1>11. l <= r
  BY <1>7, <1>9, <1>10
<1> QED BY <1>2, <1>8, <1>11, Zenon DEF Sustained

\* L is a timeout that no run of MaxTicks reaches.
LEMMA SustainedBounded ==
    ASSUME NEW L \in Nat, RtoMax <= L, NEW u \in Nat, (2 * RtoMax) * (u + L) <= L * L,
           NEW x \in Nat, NEW t \in Int, t <= u + x, Sustained(x, t)
    PROVE  x <= L
<1> SUFFICES ASSUME ~(x <= L) PROVE FALSE
  OBVIOUS
<1>1. PICK e \in Nat : x = L + e /\ e > 0
  <2>1. x - L \in Nat /\ x = L + (x - L) /\ x - L > 0
    OBVIOUS
  <2> QED BY <2>1
<1>2. PICK d \in Nat : L = RtoMax + d
  <2>1. L - RtoMax \in Nat /\ L = RtoMax + (L - RtoMax)
    BY Constants
  <2> QED BY <2>1
<1>3. Sustained(x, u + x)
  BY SustainedLonger
<1>4. PICK k \in Nat : k = 2 * RtoMax /\ 2 * L = k + 2 * d
  BY <1>2, Constants
<1>5. u + x = (u + L) + e
  BY <1>1
<1>6. k * ((u + L) + e) = k * (u + L) + k * e /\ k * (u + L) \in Nat /\ k * e \in Nat
  BY <1>1, <1>4, SMT
<1>7. (L + e) * (L + e) = L * L + (2 * L) * e + e * e /\ e * e \in Nat /\ L * L \in Nat
  BY <1>1, SMT
<1>8. (2 * L) * e = k * e + 2 * (d * e) /\ d * e \in Nat
  BY <1>1, <1>2, <1>4, SMT
<1>9. e <= e * e
  BY <1>1, SMT
<1>10. PICK kl \in Nat, ke \in Nat, ee \in Nat, ll \in Nat, de \in Nat :
          /\ kl = k * (u + L) /\ ke = k * e /\ ee = e * e /\ ll = L * L /\ de = d * e
  BY <1>6, <1>7, <1>8
<1>11. x * x = ll + (ke + 2 * de) + ee
  BY <1>1, <1>7, <1>8, <1>10, Zenon
<1>12. k * (u + x) = kl + ke
  BY <1>5, <1>6, <1>10, Zenon
<1>13. x * x <= k * (u + x)
  BY <1>3, <1>4, Zenon DEF Sustained
<1>14. ll + (ke + 2 * de) + ee <= kl + ke
  BY <1>11, <1>12, <1>13, Zenon
<1>15. kl <= ll
  BY <1>4, <1>10, Zenon
<1>16. e <= ee
  BY <1>9, <1>10, Zenon
<1> QED BY <1>1, <1>10, <1>14, <1>15, <1>16

\* The longest timeout and all that is added to it stay within half a turn of
\* the clock.  With RtoMax = 60 s, TsMod = 2^32 ms and L = 2^30 ms, a run of
\* 300 years does.
Countable(J, L) ==
    /\ Settable(J)
    /\ RtoMax <= L /\ (2 * RtoMax) * ((MaxTicks + 2 * (MaxJumps * J)) + L) <= L * L
    /\ \A e \in Ends :
          2 * (L + ProbeLimit + SlapMax + (MaxMissed + 1) * (SlapMax + e.nap)
                 + 2 * (MaxJumps * J)) < TsMod

\* A time that is r off, and was less than d off at the last flush, q ago;
\* since then the clock has been set by s at most, and back by b at most.
Pending(d, r, b, q, s) == r <= d + b /\ r + q > 0 - s

Armed(J) ==
    /\ ticks <= MaxTicks
    /\ \A i \in DOMAIN snd_buf : LET rto == snd_buf[i].rto
                                     r   == timediff(snd_buf[i].resendts, now)
                                 IN  /\ rto > 0 /\ Pending(rto, r, back, quiet, SetBy(J))
                                     /\ Sustained(rto, ticks + SetBy(J) + r)
    /\ probe_wait > 0 => Pending(ProbeLimit, timediff(ts_probe, now), back, quiet, SetBy(J))

\* A flush is never longer ago than this.
LEMMA QuietFor ==
    ASSUME TypeOK, Paced, NEW J \in Nat, OnTime(J)
    PROVE  \E x \in Nat : /\ x = (MaxMissed + 1) * (SlapMax + end.nap)
                          /\ quiet <= SlapMax + x + back
<1>1. PICK p \in Nat, i \in Nat, m \in Nat, all \in Nat, x \in Nat :
         /\ p = Pause /\ i = end.interval /\ m = Cost /\ all = Misses
         /\ x = (MaxMissed + 1) * (SlapMax + end.nap) /\ i > 0 /\ i <= SlapMax
  BY PauseIs, CostIs
<1>2. m <= all /\ all + p <= x
  BY <1>1, CostIs DEF Paced, Polling
<1>3. PICK q \in Nat, b \in Nat, n \in Int : q = quiet /\ b = back /\ n = Nap /\ n >= -1
  BY Times
<1>4. (~updated => q + n <= p + m) /\ (updated => q + n < i + p + b + m)
  BY <1>1, <1>3 DEF Paced, OnTime
<1>5. q <= i + p + b + m
  <2>1. updated \in BOOLEAN /\ n >= -1 /\ i > 0
    BY <1>1, <1>3, Times
  <2> QED BY <1>4, <2>1
<1>6. q <= SlapMax + x + b
  <2>1. i <= SlapMax /\ SlapMax \in Nat
    BY <1>1, Numbers
  <2> QED BY <1>2, <1>5, <2>1
<1> WITNESS x \in Nat
<1> QED BY <1>1, <1>3, <1>6

\* What the hypotheses say about times of this length.
LEMMA Reach ==
    ASSUME NEW J \in Nat, NEW L \in Nat, Countable(J, L), TypeOK, Paced, OnTime(J),
           ticks <= MaxTicks, NEW d \in Nat, NEW r \in Int,
           Pending(d, r, back, quiet, SetBy(J))
    PROVE  /\ Sustained(d, ticks + SetBy(J) + r) => d <= L
           /\ d <= L + ProbeLimit
                => 2 * (r + 1) < TsMod /\ 0 - TsMod < 2 * (r - 1)
                   /\ (jumps < MaxJumps => 2 * (r + J) < TsMod /\ 0 - TsMod < 2 * (r - J))
<1>1. PICK x \in Nat, s \in Nat, all \in Nat :
         /\ s = SetBy(J) /\ all = MaxJumps * J
         /\ x = (MaxMissed + 1) * (SlapMax + end.nap) /\ quiet <= SlapMax + x + back
         /\ s <= all /\ (jumps < MaxJumps => s + J <= all)
  <2>1. SetBy(J) \in Nat /\ MaxJumps * J \in Nat /\ SetBy(J) <= MaxJumps * J
        /\ (jumps < MaxJumps => SetBy(J) + J <= MaxJumps * J)
    BY SetByIs, SetByBounds DEF OnTime
  <2> QED BY <2>1, QuietFor
<1>2. PICK q \in Nat, b \in Nat : q = quiet /\ b = back
  BY Times
<1>3. 2 * (L + ProbeLimit + SlapMax + x + 2 * all) < TsMod
  <2>1. 2 * (L + ProbeLimit + SlapMax + (MaxMissed + 1) * (SlapMax + end.nap)
               + 2 * (MaxJumps * J)) < TsMod
    BY Zenon DEF Countable, TypeOK
  <2> QED BY <1>1, <2>1, Zenon
<1>4. b <= s /\ q <= SlapMax + x + b
  BY <1>1, <1>2 DEF OnTime
<1>5. r <= d + b /\ r + q > 0 - s
  BY <1>1, <1>2 DEF Pending
<1>6. ASSUME Sustained(d, ticks + SetBy(J) + r) PROVE d <= L
  <2>1. PICK u \in Nat : u = MaxTicks + 2 * all
    BY <1>1, Numbers
  <2>2. (2 * RtoMax) * (u + L) <= L * L /\ RtoMax <= L
    BY <1>1, <2>1, Zenon DEF Countable
  <2>3. PICK t \in Int : t = ticks + SetBy(J) + r
    BY <1>1, Times
  <2>4. t <= u + d
    BY <1>1, <1>4, <1>5, <2>1, <2>3, Times, Numbers
  <2> QED BY <1>6, <2>2, <2>3, <2>4, SustainedBounded
<1>7. ASSUME d <= L + ProbeLimit
      PROVE  /\ 2 * (r + 1) < TsMod /\ 0 - TsMod < 2 * (r - 1)
             /\ (jumps < MaxJumps => 2 * (r + J) < TsMod /\ 0 - TsMod < 2 * (r - J))
  <2>1. /\ s <= all /\ (jumps < MaxJumps => s + J <= all)
        /\ SlapMax \in Nat /\ SlapMax > 0 /\ ProbeLimit \in Nat /\ TsMod \in Nat
    BY <1>1, Numbers
  <2>2. PICK w \in Nat, y \in Nat : w = SlapMax + x /\ y = L + ProbeLimit /\ w > 0
    BY <2>1
  <2>3. r <= y + b /\ r > 0 - (w + b) - s
    <3>1. q <= w + b /\ d <= y
      BY <1>4, <1>7, <2>2
    <3> QED BY <1>5, <3>1
  <2>4. 2 * (y + w + 2 * all) < TsMod
    <3>1. L + ProbeLimit + SlapMax + x + 2 * all = y + w + 2 * all
      BY <2>1, <2>2
    <3> QED BY <1>3, <3>1, Zenon
  <2>5. 2 * (r + 1) < TsMod /\ 0 - TsMod < 2 * (r - 1)
    <3>1. r <= y + all /\ r - 1 >= 0 - (w + 2 * all)
      BY <1>4, <2>1, <2>3
    <3> QED BY <2>1, <2>2, <2>4, <3>1
  <2>6. ASSUME jumps < MaxJumps PROVE 2 * (r + J) < TsMod /\ 0 - TsMod < 2 * (r - J)
    <3>1. s + J <= all
      BY <2>1, <2>6
    <3>2. r + J <= y + all /\ r - J > 0 - (w + 2 * all)
      BY <1>4, <2>3, <3>1
    <3> QED BY <2>1, <2>4, <3>2
  <2> QED BY <2>5, <2>6
<1> QED BY <1>6, <1>7

\* A tick, or a change of the clock.
LEMMA PendingMoves ==
    ASSUME NEW J \in Nat, NEW L \in Nat, Countable(J, L), TypeOK, Paced, OnTime(J),
           ticks <= MaxTicks, Tick \/ ClockSet, ~torn',
           NEW t \in Int, NEW d \in Nat, d <= L + ProbeLimit, NEW r \in Int, r = timediff(t, now),
           Pending(d, r, back, quiet, SetBy(J))
    PROVE  \E c \in Int : /\ timediff(t, now') = r - c
                          /\ Pending(d, r - c, back', quiet', SetBy(J)')
                          /\ ticks + SetBy(J) <= ticks' + SetBy(J)' - c
<1>1. PICK q \in Nat, b \in Nat, s \in Nat, k \in Nat : q = quiet /\ b = back /\ s = SetBy(J) /\ k = ticks
  BY Times, SetByIs
<1>2. /\ 2 * (r + 1) < TsMod /\ 0 - TsMod < 2 * (r - 1)
      /\ (jumps < MaxJumps => 2 * (r + J) < TsMod /\ 0 - TsMod < 2 * (r - J))
  BY Reach
<1>3. r <= d + b /\ r + q > 0 - s /\ now \in Int
  BY <1>1, Times DEF Pending
<1>4. CASE Tick
  <2>1. /\ now' = After(now, 1) /\ quiet' = q + 1 /\ back' = b /\ SetBy(J)' = s /\ ticks' = k + 1
    BY <1>1, <1>4, SetByIs DEF Tick
  <2>2. timediff(t, now') = r - 1
    <3>1. PICK x \in Int : x = r - 1
      OBVIOUS
    <3>2. x = timediff(t, now) - 1 /\ 1 \in Int /\ 0 - TsMod <= 2 * x /\ 2 * x < TsMod
      BY <1>2, <3>1, Numbers
    <3> QED BY <1>3, <2>1, <3>1, <3>2, Elapsed
  <2>3. Pending(d, r - 1, back', quiet', SetBy(J)')
    BY <1>3, <2>1 DEF Pending
  <2> QED BY <1>1, <2>1, <2>2, <2>3
<1>5. CASE ClockSet
  <2>1. jumps < MaxJumps /\ jumps' = jumps + 1 /\ quiet' = q
    BY <1>1, <1>5, ClockSetDue
  <2>2. PICK c \in Jumps : c \in Int /\ now' = After(now, c) /\ back' = b + Max2(-c, 0)
    BY <1>1, <1>5, ClockSetDue
  <2>3. c \in Int /\ -J <= c /\ c <= J
    BY <2>2 DEF Countable, Settable
  <2>4. SetBy(J)' = s + J /\ ticks' = k
    BY <1>1, <1>5, <2>1, SetByIs DEF ClockSet
  <2>5. timediff(t, now') = r - c
    <3>1. PICK x \in Int : x = r - c
      BY <2>3
    <3>2. x = timediff(t, now) - c /\ 0 - TsMod <= 2 * x /\ 2 * x < TsMod
      BY <1>2, <2>1, <2>3, <3>1, Numbers
    <3> QED BY <1>3, <2>2, <2>3, <3>1, <3>2, Elapsed
  <2>6. Pending(d, r - c, back', quiet', SetBy(J)')
    <3>1. back' \in Nat /\ back' >= b - c
      BY <1>1, <2>2, <2>3 DEF Max2
    <3> QED BY <1>1, <1>3, <2>1, <2>3, <2>4, <3>1 DEF Pending
  <2> QED BY <1>1, <2>3, <2>4, <2>5, <2>6
<1> QED BY <1>4, <1>5

\* A time that a flush leaves alone, because it is not yet past, is to come.
LEMMA NotPast ==
    ASSUME NEW J \in Nat, NEW L \in Nat, Countable(J, L), TypeOK, Paced, OnTime(J),
           ticks <= MaxTicks, NEW t \in Int, NEW d \in Nat, d <= L + ProbeLimit,
           NEW r \in Int, r = timediff(t, now), Pending(d, r, back, quiet, SetBy(J))
    PROVE  timediff(now, t) = 0 - r
<1>1. 0 - TsMod < 2 * (r - 1)
  BY Reach
<1>2. 0 - TsMod < 2 * r
  BY <1>1, Numbers
<1> QED BY <1>2, Ahead, Times

\* A flush sets a time for each segment that has none to come.
LEMMA FlushArms ==
    ASSUME NEW J \in Nat, NEW L \in Nat, Countable(J, L), Typed, RttInv, Paced, OnTime(J),
           Armed(J), flush
    PROVE  \A i \in DOMAIN snd_buf' :
              LET rto == snd_buf'[i].rto
                  r   == timediff(snd_buf'[i].resendts, now)
              IN  /\ rto > 0 /\ r > 0 /\ r <= rto + back
                  /\ Sustained(rto, ticks + SetBy(J) + r)
<1>1. TypeOK /\ ticks <= MaxTicks
  BY DEF Typed, Armed
<1>2. PICK k \in Nat : k = ticks + SetBy(J)
  BY <1>1, SetByIs, Times
<1>3. PICK R \in Nat : R = rx_rto /\ R > 0 /\ R <= RtoMax
  <2>1. minrto \in Nat /\ minrto > 0 /\ rx_rto \in minrto..RtoMax
    BY EndTypes DEF RttInv, RttBounded
  <2> QED BY <2>1, Constants
<1>4. now \in Int /\ back \in Nat /\ 2 * L < TsMod
  <2>1. PICK x \in Nat, all \in Nat : 
           x = (MaxMissed + 1) * (SlapMax + end.nap) /\ all = MaxJumps * J
    BY <1>1, CostIs, SetByBounds DEF OnTime
  <2>2. 2 * (L + ProbeLimit + SlapMax + x + 2 * all) < TsMod
    BY <1>1, <2>1, Zenon DEF Countable, TypeOK
  <2> QED BY <1>1, <2>1, <2>2, Times, Numbers
<1>5. ASSUME NEW x \in Nat, x > 0, Sustained(x, k + x)
      PROVE  LET r == timediff(After(now, x), now)
             IN  r > 0 /\ r <= x + back /\ Sustained(x, k + r)
  <2>1. x <= L
    <3>1. PICK u \in Nat : u = MaxTicks + 2 * (MaxJumps * J)
      BY Numbers, SMT
    <3>2. (2 * RtoMax) * (u + L) <= L * L /\ RtoMax <= L
      BY <3>1, Zenon DEF Countable
    <3>3. k <= u
      <4>1. PICK s \in Nat, all \in Nat : s = SetBy(J) /\ all = MaxJumps * J /\ s <= all
        <5>1. jumps <= MaxJumps /\ MaxJumps * J \in Nat
          BY Numbers, SMT DEF OnTime
        <5> QED BY <1>1, <5>1, SetByIs
      <4> QED BY <1>1, <1>2, <3>1, <4>1, Times, Numbers
    <3>4. PICK t \in Int : t = k + x
      OBVIOUS
    <3>5. t <= u + x
      BY <3>3, <3>4
    <3> QED BY <1>5, <3>2, <3>4, <3>5, SustainedBounded
  <2>2. timediff(After(now, x), now) = x
    BY <1>4, <2>1, Later, Numbers
  <2> QED BY <1>4, <1>5, <2>2
<1>6. PICK m \in Nat, w \in Nat, fast \in SUBSET (DOMAIN snd_buf) : FlushesBy(m, fast, w)
  BY <1>1, FlushIs
<1>7. \A i \in DOMAIN snd_buf' :
         \/ snd_buf'[i] = Fresh
         \/ i \in DOMAIN snd_buf /\ snd_buf'[i] = BackedOff(snd_buf[i]) /\ i \in Late
         \/ i \in DOMAIN snd_buf /\ snd_buf'[i] = snd_buf[i] /\ i \notin Late
  BY <1>1, <1>6, SentIs DEF FlushesBy
<1> SUFFICES ASSUME NEW i \in DOMAIN snd_buf'
             PROVE  LET rto == snd_buf'[i].rto
                        r   == timediff(snd_buf'[i].resendts, now)
                    IN  /\ rto > 0 /\ r > 0 /\ r <= rto + back
                        /\ Sustained(rto, k + r)
  BY <1>2
<1>8. CASE snd_buf'[i] = Fresh
  <2>1. snd_buf'[i].rto = R /\ snd_buf'[i].resendts = After(now, R)
    BY <1>1, <1>3, <1>8, SegmentTyped
  <2>2. Sustained(R, k + R)
    <3>1. k + R \in Int /\ R <= k + R
      OBVIOUS
    <3> QED BY <1>3, <3>1, SustainedFresh
  <2> QED BY <1>3, <1>5, <2>1, <2>2
<1>9. ASSUME i \in DOMAIN snd_buf
      PROVE  \E x \in Nat, r \in Int : 
                /\ x = snd_buf[i].rto /\ r = timediff(snd_buf[i].resendts, now)
                /\ x > 0 /\ r <= x + back /\ Sustained(x, k + r)
                /\ timediff(now, snd_buf[i].resendts) = 0 - r
  <2>1. snd_buf[i].resendts \in Int /\ snd_buf[i].rto \in Nat
    BY <1>1, <1>9, Times
  <2>2. PICK x \in Nat, r \in Int : x = snd_buf[i].rto /\ r = timediff(snd_buf[i].resendts, now)
    BY <1>4, <2>1, TimediffIs
  <2>3. x > 0 /\ Pending(x, r, back, quiet, SetBy(J)) /\ Sustained(x, ticks + SetBy(J) + r)
    BY <1>9, <2>2 DEF Armed
  <2>4. x <= L + ProbeLimit
    BY <1>1, <2>3, Reach, Numbers
  <2>5. timediff(now, snd_buf[i].resendts) = 0 - r
    BY <1>1, <2>1, <2>2, <2>3, <2>4, NotPast
  <2>6. r <= x + back
    BY <2>3 DEF Pending
  <2> QED BY <1>2, <2>2, <2>3, <2>5, <2>6
<1>10. CASE i \in DOMAIN snd_buf /\ snd_buf'[i] = BackedOff(snd_buf[i]) /\ i \in Late
  <2>1. PICK x \in Nat, r \in Int : 
           /\ x = snd_buf[i].rto /\ x > 0 /\ Sustained(x, k + r)
           /\ timediff(now, snd_buf[i].resendts) = 0 - r
    BY <1>9, <1>10
  <2>2. r <= 0
    <3>1. timediff(now, snd_buf[i].resendts) >= 0
      BY <1>10 DEF Late
    <3> QED BY <2>1, <3>1
  <2>3. PICK more \in {rx_rto, rx_rto \div 2} :
           snd_buf'[i].rto = x + more /\ snd_buf'[i].resendts = After(now, x + more)
    <3>1. snd_buf[i] \in Timer
      BY <1>1, <1>10 DEF TypeOK
    <3> QED BY <1>1, <1>10, <2>1, <3>1, SegmentTyped
  <2>4. more \in Nat /\ more <= RtoMax
    <3>1. R \div 2 \in Nat /\ R \div 2 <= R
      BY SMT
    <3>2. more \in {R, R \div 2}
      BY <1>3, <2>3
    <3> QED BY <1>3, <3>1, <3>2, Constants
  <2>5. Sustained(x, k)
    <3>1. PICK t \in Int : t = k + r
      OBVIOUS
    <3>2. t <= k
      BY <2>2, <3>1
    <3> QED BY <2>1, <3>1, <3>2, SustainedLonger
  <2>6. Sustained(x + more, k + (x + more)) /\ x + more \in Nat /\ x + more > 0
    BY <2>1, <2>4, <2>5, SustainedMore
  <2> QED BY <1>5, <2>3, <2>6
<1>11. CASE i \in DOMAIN snd_buf /\ snd_buf'[i] = snd_buf[i] /\ i \notin Late
  <2>1. PICK x \in Nat, r \in Int : 
           /\ x = snd_buf[i].rto /\ r = timediff(snd_buf[i].resendts, now)
           /\ x > 0 /\ r <= x + back /\ Sustained(x, k + r)
           /\ timediff(now, snd_buf[i].resendts) = 0 - r
    BY <1>9, <1>11
  <2>2. r > 0
    <3>1. ~(timediff(now, snd_buf[i].resendts) >= 0)
      BY <1>11 DEF Late
    <3> QED BY <2>1, <3>1
  <2> QED BY <1>11, <2>1, <2>2
<1> QED BY <1>7, <1>8, <1>10, <1>11

\* The same for the probe.
LEMMA FlushArmsProbe ==
    ASSUME NEW J \in Nat, NEW L \in Nat, Countable(J, L), Typed, Paced, OnTime(J), Armed(J), flush
    PROVE  probe_wait' > 0 => timediff(ts_probe', now) \in 1..(ProbeLimit + back)
<1>1. TypeOK /\ ticks <= MaxTicks /\ ProbeTimer
  BY DEF Typed, Armed, flush
<1>2. /\ now \in Int /\ ts_probe \in Int /\ back \in Nat /\ 2 * ProbeLimit < TsMod
  <2>1. PICK x \in Nat, all \in Nat : 
           x = (MaxMissed + 1) * (SlapMax + end.nap) /\ all = MaxJumps * J
    BY <1>1, CostIs, SetByBounds DEF OnTime
  <2>2. 2 * (L + ProbeLimit + SlapMax + x + 2 * all) < TsMod
    BY <1>1, <2>1, Zenon DEF Countable, TypeOK
  <2> QED BY <1>1, <2>1, <2>2, Times, Numbers
<1>3. CASE rmt_wnd # 0
  BY <1>1, <1>3 DEF ProbeTimer
<1>4. CASE rmt_wnd = 0 /\ (probe_wait = 0 \/ timediff(now, ts_probe) >= 0)
  <2>1. ts_probe' = After(now, probe_wait')
    BY <1>1, <1>4, Zenon DEF ProbeTimer
  <2>2. PICK x \in Nat : x = probe_wait' /\ x <= ProbeLimit
    BY <1>1, ProbeTyped, Numbers
  <2>3. timediff(After(now, x), now) = x
    BY <1>2, <2>2, Later, Numbers
  <2> QED BY <1>2, <2>1, <2>2, <2>3, Numbers
<1>5. CASE rmt_wnd = 0 /\ ~(probe_wait = 0 \/ timediff(now, ts_probe) >= 0)
  <2>1. ts_probe' = ts_probe /\ probe_wait' = probe_wait /\ probe_wait > 0
    BY <1>1, <1>5 DEF ProbeTimer, probeVars, TypeOK
  <2>2. PICK r \in Int : r = timediff(ts_probe, now)
    BY <1>2, TimediffIs
  <2>3. Pending(ProbeLimit, r, back, quiet, SetBy(J))
    BY <2>1, <2>2 DEF Armed
  <2>4. timediff(now, ts_probe) = 0 - r
    <3>1. ProbeLimit \in Nat /\ ProbeLimit <= L + ProbeLimit
      BY Numbers
    <3> QED BY <1>1, <1>2, <2>2, <2>3, <3>1, NotPast
  <2>5. r > 0 /\ r <= ProbeLimit + back
    BY <1>5, <2>3, <2>4 DEF Pending
  <2> QED BY <1>2, <2>1, <2>2, <2>5, Numbers
<1> QED BY <1>3, <1>4, <1>5

LEMMA ArmedStep ==
    ASSUME NEW J \in Nat, NEW L \in Nat, Countable(J, L), Typed, RttInv, Paced, OnTime(J),
           Armed(J), ~torn, ~torn', TimersArmed, [Next]_vars
    PROVE  Armed(J)' /\ TimersArmed'
<1>1. TypeOK /\ ticks <= MaxTicks
  BY DEF Typed, Armed
<1>2. /\ now \in Int /\ ts_probe \in Int /\ flushed \in Int /\ back \in Nat /\ ticks \in Nat
      /\ SetBy(J) \in Nat
  BY <1>1, Times, SetByIs
<1>3. CASE Tick \/ ClockSet
  <2>1. UNCHANGED <<snd_buf, ts_probe, probe_wait, flushed>>
    BY <1>3 DEF Tick, ClockSet, flushVars, sendVars, probeVars
  <2>2. back' \in Nat /\ back <= back' /\ ticks' \in Nat /\ ticks' <= MaxTicks /\ SetBy(J)' \in Nat
    <3>1. CASE Tick
      BY <1>1, <1>2, <3>1, SetByIs, Numbers DEF Tick
    <3>2. CASE ClockSet
      <4>1. PICK d \in Int : back' = back + Max2(-d, 0)
        BY <1>1, <3>2, ClockSetDue
      <4>2. SetBy(J)' = SetBy(J) + J /\ ticks' = ticks
        BY <1>1, <3>2, SetByIs DEF ClockSet
      <4> QED BY <1>1, <1>2, <4>1, <4>2 DEF Max2
    <3> QED BY <1>3, <3>1, <3>2
  <2>3. ASSUME NEW i \in DOMAIN snd_buf
        PROVE  LET rto == snd_buf[i].rto
                   r   == timediff(snd_buf[i].resendts, now')
               IN  /\ rto > 0 /\ Pending(rto, r, back', quiet', SetBy(J)')
                   /\ Sustained(rto, ticks' + SetBy(J)' + r)
    <3>1. snd_buf[i].resendts \in Int /\ snd_buf[i].rto \in Nat
      BY <1>1, Times
    <3>2. PICK x \in Nat, t \in Int, r \in Int :
             x = snd_buf[i].rto /\ t = snd_buf[i].resendts /\ r = timediff(t, now)
      BY <1>2, <3>1, TimediffIs
    <3>3. x > 0 /\ Pending(x, r, back, quiet, SetBy(J)) /\ Sustained(x, ticks + SetBy(J) + r)
      BY <3>2 DEF Armed
    <3>4. x <= L + ProbeLimit
      BY <1>1, <3>3, Reach, Numbers
    <3>5. PICK c \in Int : /\ timediff(t, now') = r - c
                           /\ Pending(x, r - c, back', quiet', SetBy(J)')
                           /\ ticks + SetBy(J) <= ticks' + SetBy(J)' - c
      BY <1>1, <1>3, <3>2, <3>3, <3>4, PendingMoves
    <3>6. Sustained(x, ticks' + SetBy(J)' + (r - c))
      <4>1. PICK u \in Int, v \in Int :
               u = ticks + SetBy(J) + r /\ v = ticks' + SetBy(J)' + (r - c)
        BY <1>2, <2>2
      <4>2. u <= v
        BY <1>2, <2>2, <3>5, <4>1
      <4> QED BY <3>3, <4>1, <4>2, SustainedLonger
    <3> QED BY <3>2, <3>3, <3>5, <3>6
  <2>4. ASSUME probe_wait > 0
        PROVE  Pending(ProbeLimit, timediff(ts_probe, now'), back', quiet', SetBy(J)')
    <3>1. PICK t \in Int, d \in Nat : t = ts_probe /\ d = ProbeLimit /\ d <= L + ProbeLimit
      BY <1>2, Numbers
    <3>2. PICK r \in Int : r = timediff(t, now)
      BY <1>2, <3>1, TimediffIs
    <3>3. Pending(d, r, back, quiet, SetBy(J))
      BY <2>4, <3>1, <3>2 DEF Armed
    <3>4. PICK c \in Int : /\ timediff(t, now') = r - c
                           /\ Pending(d, r - c, back', quiet', SetBy(J)')
                           /\ ticks + SetBy(J) <= ticks' + SetBy(J)' - c
      BY <1>1, <1>3, <3>1, <3>2, <3>3, PendingMoves
    <3> QED BY <3>1, <3>4
  <2>5. Armed(J)'
    BY <2>1, <2>2, <2>3, <2>4 DEF Armed
  <2>6. TimersArmed'
    <3>1. ASSUME NEW i \in DOMAIN snd_buf
          PROVE  /\ timediff(snd_buf[i].resendts, flushed) > 0
                 /\ timediff(snd_buf[i].resendts, flushed) <= snd_buf[i].rto + back'
      <4>1. snd_buf[i].resendts \in Int /\ snd_buf[i].rto \in Nat
        BY <1>1, Times
      <4>2. PICK r \in Int : r = timediff(snd_buf[i].resendts, flushed)
        BY <1>2, <4>1, TimediffIs
      <4>3. r > 0 /\ r <= snd_buf[i].rto + back
        BY <4>2 DEF TimersArmed
      <4> QED BY <1>2, <2>2, <4>1, <4>2, <4>3
    <3>2. probe_wait > 0 => timediff(ts_probe, flushed) \in 1..(ProbeLimit + back')
      BY <1>2, <2>2, Numbers DEF TimersArmed
    <3> QED BY <2>1, <3>1, <3>2 DEF TimersArmed
  <2> QED BY <2>5, <2>6
<1>4. CASE UNCHANGED <<now, snd_buf, probeVars, flushed, quiet, pastVars>>
  <2>1. UNCHANGED <<now, snd_buf, ts_probe, probe_wait, flushed, quiet, ticks, jumps, back>>
    BY <1>4 DEF probeVars, pastVars
  <2>2. SetBy(J)' = SetBy(J)
    BY <1>1, <2>1, SetByIs
  <2> QED BY <2>1, <2>2 DEF Armed, TimersArmed
<1>5. CASE Input
  <2>1. /\ DOMAIN snd_buf' \subseteq DOMAIN snd_buf
        /\ \A i \in DOMAIN snd_buf' : /\ snd_buf'[i].rto = snd_buf[i].rto
                                      /\ snd_buf'[i].resendts = snd_buf[i].resendts
    BY <1>1, <1>5, InputIs
  <2>2. UNCHANGED <<now, ts_probe, probe_wait, flushed, quiet, ticks, jumps, back>>
    BY <1>5 DEF Input, flushVars, probeVars, pastVars
  <2>3. SetBy(J)' = SetBy(J)
    BY <1>1, <2>2, SetByIs
  <2>4. Armed(J)'
    BY <2>1, <2>2, <2>3 DEF Armed
  <2>5. TimersArmed'
    BY <2>1, <2>2 DEF TimersArmed
  <2> QED BY <2>4, <2>5
<1>6. CASE ClientServeKcp \/ ServerServeKcp
  <2>1. Serves /\ end' = end
    BY <1>1, <1>6, Served
  <2>2. UNCHANGED <<now, ticks, jumps, back, torn>>
    BY <2>1 DEF Serves, pastVars
  <2>3. SetBy(J)' = SetBy(J)
    BY <1>1, <2>2, SetByIs
  <2>4. CASE NoFlush
    BY <1>4, <2>2, <2>4 DEF NoFlush, sendVars, pastVars
  <2>5. CASE flush
    <3>1. \A i \in DOMAIN snd_buf' :
             LET rto == snd_buf'[i].rto
                 r   == timediff(snd_buf'[i].resendts, now)
             IN  /\ rto > 0 /\ r > 0 /\ r <= rto + back
                 /\ Sustained(rto, ticks + SetBy(J) + r)
      BY <2>5, FlushArms
    <3>2. probe_wait' > 0 => timediff(ts_probe', now) \in 1..(ProbeLimit + back)
      BY <2>5, FlushArmsProbe
    <3>3. flushed' = now /\ quiet' = 0
      BY <2>5 DEF flush
    <3>4. TimersArmed'
      BY <2>2, <3>1, <3>2, <3>3 DEF TimersArmed
    <3>5. ASSUME NEW i \in DOMAIN snd_buf'
          PROVE  Pending(snd_buf'[i].rto, timediff(snd_buf'[i].resendts, now), back, 0, SetBy(J))
      <4>1. timediff(snd_buf'[i].resendts, now) \in Int
        <5>1. snd_buf'[i].resendts \in Int
          BY <2>5, FlushTyped, Numbers DEF Timer, Clock
        <5> QED BY <1>2, <5>1, TimediffIs
      <4>2. PICK r \in Int : r = timediff(snd_buf'[i].resendts, now)
        BY <4>1
      <4>3. r > 0 /\ r <= snd_buf'[i].rto + back
        BY <3>1, <4>2
      <4> QED BY <1>2, <4>2, <4>3 DEF Pending
    <3>6. probe_wait' > 0 => Pending(ProbeLimit, timediff(ts_probe', now), back, 0, SetBy(J))
      BY <1>2, <3>2, Numbers DEF Pending
    <3>7. Armed(J)'
      BY <1>1, <2>2, <2>3, <3>1, <3>3, <3>5, <3>6 DEF Armed
    <3> QED BY <3>4, <3>7
  <2> QED BY <1>1, <2>1, <2>4, <2>5, UpdateIs DEF Serves
<1>7. CASE Poll \/ Doze \/ ServerIclock \/ Send \/ UNCHANGED vars
  BY <1>4, <1>7 DEF Poll, Doze, ServerIclock, Send, vars, flushVars, sendVars
<1> QED BY <1>3, <1>5, <1>6, <1>7 DEF Next

\* After every flush each unacknowledged segment has its next time ahead of
\* it, by no more than its timeout and what the clock was set back, and so has
\* the zero-window probe - although timeouts grow with every loss, for as long
\* as the process runs, and the clock wraps and is set (kcp.go:662-780).
THEOREM TimersAhead ==
    ASSUME NEW J \in Nat, NEW L \in Nat, Countable(J, L)
    PROVE  Spec => []TimersArmed
<1> DEFINE Future(j) == torn \/ (Paced /\ OnTime(j) /\ Armed(j) /\ TimersArmed)
           Inv == Typed /\ RttInv /\ Future(J)
<1>1. Init => Inv
  <2> SUFFICES ASSUME Init PROVE OnTime(J) /\ Armed(J) /\ TimersArmed
    BY TypedInit, RttInit, PacedInit
  <2>1. /\ TypeOK /\ back = 0 /\ jumps = 0 /\ updated = FALSE /\ ticks = 0 /\ probe_wait = 0
        /\ DOMAIN snd_buf = {}
    BY TypedInit DEF Typed, Init
  <2> QED BY <2>1, SetByIs, Numbers DEF OnTime, Armed, TimersArmed
<1>2. Inv /\ [Next]_vars => Inv'
  <2>1. ASSUME Typed, RttInv, [Next]_vars PROVE (Typed /\ RttInv)'
    BY <2>1, TypedStep, RttStep
  <2>2. ASSUME Typed, RttInv, Future(J), [Next]_vars PROVE Future(J)'
    <3> SUFFICES ASSUME ~torn' PROVE Paced' /\ OnTime(J)' /\ Armed(J)' /\ TimersArmed'
      OBVIOUS
    <3>1. TypeOK /\ ~torn /\ Paced /\ OnTime(J) /\ Armed(J) /\ TimersArmed
      BY <2>2, TornStays DEF Typed
    <3>2. Paced' /\ OnTime(J)'
      BY <2>2, <3>1, PacedStep, OnTimeStep DEF Countable
    <3>3. Armed(J)' /\ TimersArmed'
      BY <2>2, <3>1, ArmedStep
    <3> QED BY <3>2, <3>3
  <2> QED BY <2>1, <2>2
<1>3. Inv => TimersArmed
  BY DEF TimersArmed
<1> HIDE DEF Inv
<1> QED BY <1>1, <1>2, <1>3, PTL DEF Spec
=============================================================================
