------------------------------ MODULE KcpTimers ------------------------------
(***************************************************************************)
(* The clockwork of one KCP object: when the program's poller wakes the    *)
(* event loop, when Update flushes, when a flush sends a segment again,    *)
(* and how acknowledgements set the retransmission timeout and the         *)
(* congestion window.                                                      *)
(*                                                                         *)
(* The acknowledgements that arrive are any a peer and the network could   *)
(* produce; module KCP says which.  Times are ticks of the wall clock      *)
(* that currentMs reads: a counter modulo TsMod which may be set.  The     *)
(* poller sleeps by the monotonic clock, which may not.                    *)
(*                                                                         *)
(* The definitions named Bad... are seeded faults for the mutation runs.   *)
(***************************************************************************)
EXTENDS Integers, FiniteSets

CONSTANTS
    Ends,       \* the kinds of end: [check, nap, nodelay, interval, resend, nc]
    MinNap,     \* the 10 ms of the server's poll
    SlapMax,    \* the 10 s beyond which Update takes the clock for changed
    RtoNdl, RtoMin, RtoDef, RtoMax,    \* IKCP_RTO_NDL, _MIN, _DEF and _MAX
    ProbeInit, ProbeLimit,             \* IKCP_PROBE_INIT and IKCP_PROBE_LIMIT
    Mss, SndWnd,
    U32,        \* uint32 arithmetic is modulo U32
    TsMod,      \* and that of times modulo TsMod
    TsStart,    \* what the clock shows when the object is made
    Wnds,       \* windows the peer advertises
    Rtts,       \* how long ago an acknowledged segment was sent
    Naps,       \* nap times the server's other channels ask for
    Jumps,      \* by how much the clock may be set
    MaxSegs, MaxTicks, MaxJumps, MaxFastack,  \* bounds
    MaxMissed   \* how many due flushes in a row the two reads of the clock miss

ASSUME EndAssumption ==
    Ends \subseteq [check : BOOLEAN, nap : Nat \ {0}, nodelay : BOOLEAN,
                    interval : Nat \ {0}, resend : Nat, nc : BOOLEAN]
\* The poll of 75 ms (speed_mode.go:32) is longer than MinNap, and no flush is
\* further off than SlapMax.
ASSUME PaceAssumption == \A e \in Ends : MinNap <= e.nap /\ e.interval <= SlapMax
ASSUME RtoAssumption ==
    /\ {RtoNdl, RtoMin, RtoDef, RtoMax, ProbeInit, ProbeLimit} \subseteq Nat \ {0}
    /\ RtoNdl <= RtoMin /\ RtoMin <= RtoDef /\ RtoDef <= RtoMax
    /\ ProbeInit <= ProbeLimit
ASSUME NapAssumption == MinNap \in Nat \ {0} /\ Naps \subseteq Nat \ {0}
ASSUME ArithmeticAssumption ==
    /\ {Mss, SndWnd, U32, TsMod, SlapMax} \subseteq Nat \ {0}
    /\ TsStart \in 0..(TsMod - 1)
\* A window is 16 bits wide, 65535 segments are 90 MB: windows fit in uint32 in
\* bytes too.
ASSUME WindowAssumption ==
    /\ \A w \in Wnds \cup {SndWnd} : (w + 3) * Mss < U32
    /\ \A e \in Ends : (SndWnd + 3 + e.resend) * Mss < U32 /\ e.resend < U32
\* Flushes are less than half a turn of the clock apart.
ASSUME ClockAssumption ==
    /\ MaxMissed \in Nat
    /\ \A e \in Ends : 2 * ((MaxMissed + 1) * (SlapMax + e.nap)) < TsMod
ASSUME InputAssumption == Wnds \subseteq Nat /\ Rtts \subseteq Nat /\ Jumps \subseteq Int
ASSUME LimitAssumption == {MaxSegs, MaxTicks, MaxJumps, MaxFastack} \subseteq Nat

VARIABLES
    end,        \* which kind of end this is
    now,        \* what currentMs returns
    sleep,      \* how long the poller still sleeps
    awake,      \* it has sent its event and not gone back to sleep
    polled,     \* the event waits for the loop
    curts,      \* what kcp_poll has read from the clock, before it calls Check
    wait,       \* kcpNextUpdateWait
    updated, ts_flush,
    queued,     \* how many segments are in snd_queue
    snd_nxt,
    snd_buf,    \* the unacknowledged segments: sn -> [rto, resendts, fastack]
    rmt_wnd, ts_probe, probe_wait,
    rx_srtt, rx_rttvar, rx_rto,
    cwnd, incr, ssthresh,
    ticks,      \* ticks that have passed                          (bound)
    jumps,      \* how often the clock has been set                (bound)
    back,       \* by how much it has been set back in all         (history)
    torn,       \* the clock has been set between curts and Check  (history)
    missed,     \* due flushes missed since the last flush         (history)
    quiet,      \* ticks since the last flush                      (history)
    flushed     \* what the clock showed at the last flush         (history)

pollVars == <<sleep, awake, polled, curts, wait>>
ackVars  == <<rx_srtt, rx_rttvar, rx_rto>>
congVars == <<cwnd, incr, ssthresh>>
sendVars == <<queued, snd_nxt, snd_buf>>
probeVars == <<ts_probe, probe_wait>>
pastVars  == <<ticks, jumps, back, torn>>
flushVars == <<updated, ts_flush, missed, quiet, flushed>>
vars == <<end, now, pollVars, flushVars, sendVars, rmt_wnd, probeVars, ackVars,
          congVars, pastVars>>
-----------------------------------------------------------------------------
Min2(a, b) == IF a <= b THEN a ELSE b      \* _imin_
Max2(a, b) == IF a >= b THEN a ELSE b      \* _imax_
Bound(lower, middle, upper) == Min2(Max2(lower, middle), upper)   \* _ibound_
NoTime == -1                               \* curts, outside kcp_poll
Abs(a) == IF a < 0 THEN -a ELSE a
Least(S) == CHOOSE a \in S : \A b \in S : a <= b
Greatest(S) == CHOOSE a \in S : \A b \in S : a >= b

\* int32(later - earlier).
timediff(later, earlier) ==
    LET d == (later - earlier) % TsMod IN IF 2 * d >= TsMod THEN d - TsMod ELSE d

BadAfter(t, d) == t + d     \* no wrap at 2^32
After(t, d) == (t + d) % TsMod

minrto == IF end.nodelay THEN RtoNdl ELSE RtoMin

snd_una == IF DOMAIN snd_buf = {} THEN snd_nxt ELSE Least(DOMAIN snd_buf)
-----------------------------------------------------------------------------
(* The round-trip time, update_ack.  >> is division rounding down. *)

Srtt(rtt) == IF rx_srtt = 0 THEN rtt ELSE rx_srtt + (rtt - rx_srtt) \div 8

\* The distance of the sample is taken with its sign.
BadRttvar(rtt) ==
    IF rx_srtt = 0 THEN rtt \div 2
    ELSE rx_rttvar + (rtt - rx_srtt - rx_rttvar) \div 4

Rttvar(rtt) ==
    IF rx_srtt = 0 THEN rtt \div 2
    ELSE LET weight == IF rtt < Srtt(rtt) - rx_rttvar THEN 32 ELSE 4
         IN  rx_rttvar + (Abs(rtt - rx_srtt) - rx_rttvar) \div weight

update_ack(rtt) ==
    /\ rx_srtt'   = Srtt(rtt)
    /\ rx_rttvar' = Rttvar(rtt)
    /\ rx_rto'    = Bound(minrto, rx_srtt' + Max2(end.interval, 4 * rx_rttvar'), RtoMax)

(* The congestion window. *)

\* It opens by one although incr has not grown to it.
BadCwndAfterAck ==
    /\ cwnd' = cwnd + 1
    /\ incr' = IF cwnd < ssthresh THEN incr + Mss ELSE incr + (Mss * Mss) \div Max2(incr, Mss)

\* An acknowledgement of new data: slow start below ssthresh, then about one
\* segment more each round trip.
CwndAfterAck ==
    LET base  == Max2(incr, Mss)
        grown == (base + (Mss * Mss) \div base + Mss \div 16) % U32
        open  == cwnd < ssthresh \/ ((cwnd + 1) * Mss) % U32 <= grown
        c     == IF open THEN cwnd + 1 ELSE cwnd
    IN  /\ cwnd' = Min2(c, rmt_wnd')
        /\ incr' = IF c > rmt_wnd' THEN (rmt_wnd' * Mss) % U32
                   ELSE IF cwnd < ssthresh THEN (incr + Mss) % U32 ELSE grown

\* The fastack every flush compares with: 0xffffffff when fast retransmission
\* is off.
Resent == IF end.resend = 0 THEN U32 - 1 ELSE end.resend

\* Without fast retransmission the uint32 sum is ssthresh - 1.
CwndAfterFast(ss) == (ss + Resent) % U32

\* At the end of a flush: a fast retransmission halves the flight, a timeout
\* halves the window w and starts again from one segment.
CwndAfterFlush(change, lost, w, inflight) ==
    LET ss1 == IF change THEN Max2(inflight \div 2, 2) ELSE ssthresh
        c1  == IF change THEN CwndAfterFast(ss1) ELSE cwnd
        one == lost \/ c1 < 1
    IN  /\ ssthresh' = IF lost THEN Max2(w \div 2, 2) ELSE ss1
        /\ cwnd'     = IF one THEN 1 ELSE c1
        /\ incr'     = IF one THEN Mss ELSE IF change THEN (c1 * Mss) % U32 ELSE incr
-----------------------------------------------------------------------------
(* flush(false) *)

Fresh == [rto |-> rx_rto, resendts |-> After(now, rx_rto), fastack |-> 0]

\* The time stays where it was: the segment goes out at every flush.
BadBackedOff(s) ==
    [s EXCEPT !.rto = @ + (IF end.nodelay THEN rx_rto \div 2 ELSE rx_rto)]

\* A segment whose time has passed: the next time is further off.
BackedOff(s) ==
    LET rto == s.rto + (IF end.nodelay THEN rx_rto \div 2 ELSE rx_rto)
    IN  [s EXCEPT !.rto = rto, !.resendts = After(now, rto)]

\* The zero-window probe: its timer runs while the window is shut, and waits
\* half as long again each time.
ProbeTimer ==
    LET longer == Min2(Max2(probe_wait, ProbeInit) + Max2(probe_wait, ProbeInit) \div 2,
                       ProbeLimit)
        wait1  == IF probe_wait = 0 THEN ProbeInit ELSE longer
    IN  IF rmt_wnd # 0 THEN ts_probe' = 0 /\ probe_wait' = 0
        ELSE IF probe_wait = 0 \/ timediff(now, ts_probe) >= 0
        THEN ts_probe' = After(now, wait1) /\ probe_wait' = wait1
        ELSE UNCHANGED probeVars

flush ==
    LET w    == IF end.nc THEN Min2(SndWnd, rmt_wnd) ELSE Min2(cwnd, Min2(SndWnd, rmt_wnd))
        m    == Min2(queued, Max2(0, snd_una + w - snd_nxt))
        old  == DOMAIN snd_buf
        late == {i \in old : timediff(now, snd_buf[i].resendts) >= 0}
        fast == {i \in old \ late : \/ snd_buf[i].fastack >= Resent
                                    \/ snd_buf[i].fastack > 0 /\ m = 0}
        new  == snd_nxt..(snd_nxt + m - 1)
    IN  /\ ProbeTimer
        /\ queued'  = queued - m
        /\ snd_nxt' = snd_nxt + m
        /\ snd_buf' = [i \in old \cup new |->
                         IF i \in new \cup fast THEN Fresh
                         ELSE IF i \in late THEN BackedOff(snd_buf[i]) ELSE snd_buf[i]]
        /\ CwndAfterFlush(fast # {}, late # {}, w, snd_nxt + m - snd_una)
        /\ flushed' = now
        /\ missed'  = 0
        /\ quiet'   = 0

NoFlush == UNCHANGED <<sendVars, probeVars, congVars, flushed, quiet>>

(* Update and Check *)

ClockChanged(ts) == timediff(now, ts) >= SlapMax \/ timediff(now, ts) < -SlapMax

\* A clock that has been set is not noticed.
BadFlushTime == IF updated THEN ts_flush ELSE now

\* When the next flush is due, in the eyes of Update.
FlushTime == IF updated /\ ~ClockChanged(ts_flush) THEN ts_flush ELSE now

Update ==
    /\ updated' = TRUE
    /\ IF timediff(now, FlushTime) >= 0
       THEN LET next == After(FlushTime, end.interval)
            IN  /\ ts_flush' = IF timediff(now, next) >= 0 THEN After(now, end.interval) ELSE next
                /\ flush
       ELSE ts_flush' = FlushTime /\ NoFlush /\ missed' = missed

\* How long Check says that nothing will be due.
Check ==
    LET resends == {timediff(snd_buf[i].resendts, now) : i \in DOMAIN snd_buf}
        next    == Least(resends \cup {timediff(FlushTime, now), end.interval})
    IN  IF ~updated \/ timediff(now, FlushTime) >= 0 THEN 0 ELSE Max2(next, 0)
-----------------------------------------------------------------------------
Init ==
    /\ end \in Ends
    /\ now = TsStart
    /\ sleep = end.nap /\ awake = FALSE /\ polled = FALSE /\ curts = NoTime /\ wait = 0
    /\ updated = FALSE /\ ts_flush = end.interval
    /\ queued = 0 /\ snd_nxt = 0 /\ snd_buf = [i \in {} |-> Fresh]
    /\ rmt_wnd = SndWnd /\ ts_probe = 0 /\ probe_wait = 0
    /\ rx_srtt = 0 /\ rx_rttvar = 0 /\ rx_rto = RtoDef
    /\ cwnd = 0 /\ incr = 0 /\ ssthresh = 2
    /\ ticks = 0 /\ jumps = 0 /\ back = 0 /\ torn = FALSE
    /\ missed = 0 /\ quiet = 0 /\ flushed = TsStart

\* Time passes; poller and loop keep up with it.  It may pass from one tick to
\* the next between the two reads of the clock.
Tick ==
    /\ ~polled /\ ~awake /\ sleep > 0 /\ ticks < MaxTicks
    /\ curts = NoTime \/ (curts = now /\ missed < MaxMissed)
    /\ now' = After(now, 1)
    /\ sleep' = sleep - 1
    /\ ticks' = ticks + 1
    /\ quiet' = quiet + 1
    /\ UNCHANGED <<end, awake, polled, curts, wait, updated, ts_flush, missed, flushed,
                   sendVars, rmt_wnd, probeVars, ackVars, congVars, jumps, back, torn>>

\* The wall clock is set.
ClockSet ==
    /\ jumps < MaxJumps
    /\ \E d \in Jumps : /\ now'  = After(now, d)
                        /\ back' = back + Max2(-d, 0)
    /\ jumps' = jumps + 1
    /\ torn'  = (torn \/ curts # NoTime)
    /\ UNCHANGED <<end, pollVars, flushVars, sendVars, rmt_wnd, probeVars, ackVars,
                   congVars, ticks>>

\* The poller goroutine wakes and tells the loop ...
Poll ==
    /\ sleep = 0 /\ ~awake /\ ~polled
    /\ awake' = TRUE /\ polled' = TRUE
    /\ UNCHANGED <<end, now, sleep, curts, wait, flushVars, sendVars, rmt_wnd, probeVars,
                   ackVars, congVars, pastVars>>

\* ... and sleeps again, by what kcpNextUpdateWait is at this moment: the loop
\* may have handled the event by then, or not.
Doze ==
    /\ awake
    /\ awake' = FALSE
    /\ sleep' = IF end.check /\ wait > 0 THEN wait ELSE end.nap
    /\ UNCHANGED <<end, now, polled, curts, wait, flushVars, sendVars, rmt_wnd, probeVars,
                   ackVars, congVars, pastVars>>

\* The client's loop updates every channel at each poll.
ClientServeKcp ==
    /\ polled /\ ~end.check
    /\ polled' = FALSE
    /\ Update
    /\ UNCHANGED <<end, now, sleep, awake, curts, wait, rmt_wnd, ackVars, pastVars>>

\* The server's loop takes the event and reads the clock ...
ServerIclock ==
    /\ polled /\ end.check /\ curts = NoTime
    /\ polled' = FALSE
    /\ curts'  = now
    /\ UNCHANGED <<end, now, sleep, awake, wait, flushVars, sendVars, rmt_wnd, probeVars,
                   ackVars, congVars, pastVars>>

\* ... and asks Check, which reads it again: a channel is due when both come to
\* the same time.  Its other channels may ask for naps of their own.
ServerServeKcp ==
    /\ curts # NoTime
    /\ curts' = NoTime
    /\ \E others \in {{}} \cup {{n} : n \in Naps} :
          LET rts   == After(now, Check)
              nxts  == IF rts = curts THEN MinNap ELSE (rts - curts) % TsMod
              mints == Least({nxts} \cup others)
              idle  == mints > MinNap /\ mints # TsMod - 1
          IN  /\ wait' = IF idle THEN mints ELSE MinNap
              /\ IF ~idle /\ rts = curts THEN Update
                 ELSE /\ UNCHANGED <<updated, ts_flush>> /\ NoFlush
                      /\ missed' = IF timediff(now, FlushTime) >= 0 THEN missed + 1 ELSE missed
    /\ UNCHANGED <<end, now, sleep, awake, polled, rmt_wnd, ackVars, pastVars>>

\* The loop is not in serveKcp.
Send ==
    /\ curts = NoTime
    /\ snd_nxt + queued < MaxSegs
    /\ queued' = queued + 1
    /\ UNCHANGED <<end, now, pollVars, flushVars, snd_nxt, snd_buf, rmt_wnd, probeVars,
                   ackVars, congVars, pastVars>>

\* Every segment counts it.
BadOvertaken(buf, una, acks) ==
    IF acks = {} THEN buf
    ELSE [i \in DOMAIN buf |-> [buf[i] EXCEPT !.fastack = @ + 1]]

\* Segments below an acknowledged one count it.
Overtaken(buf, una, acks) ==
    LET maxack == Greatest(acks)
    IN  IF acks = {} \/ maxack < una THEN buf
        ELSE [i \in DOMAIN buf |->
                IF i < maxack THEN [buf[i] EXCEPT !.fastack = @ + 1] ELSE buf[i]]

\* A packet arrives that acknowledges all segments below una and some above.
\* It may acknowledge segments below una by number too, which only brings a
\* round-trip sample.
Input ==
    /\ curts = NoTime
    /\ \E una \in snd_una..snd_nxt, wnd \in Wnds : \E acks \in SUBSET (una..(snd_nxt - 1)) :
          LET left == {i \in DOMAIN snd_buf : i >= una /\ i \notin acks}
              kept == [i \in left |-> snd_buf[i]]
              una1 == IF left = {} THEN snd_nxt ELSE Least(left)
          IN  /\ rmt_wnd' = wnd
              /\ snd_buf' = Overtaken(kept, una1, acks)
              /\ IF una1 > snd_una /\ cwnd < wnd THEN CwndAfterAck /\ UNCHANGED ssthresh
                                                 ELSE UNCHANGED congVars
              /\ \/ snd_nxt > 0 /\ \E rtt \in Rtts : rtt <= ticks /\ update_ack(rtt)
                 \/ (acks = {} \/ back > 0) /\ UNCHANGED ackVars
    /\ \A i \in DOMAIN snd_buf' : snd_buf'[i].fastack <= MaxFastack
    /\ UNCHANGED <<end, now, pollVars, flushVars, queued, snd_nxt, probeVars, pastVars>>

Next == \/ Tick \/ ClockSet \/ Poll \/ Doze
        \/ ClientServeKcp \/ ServerIclock \/ ServerServeKcp \/ Send \/ Input

Spec == Init /\ [][Next]_vars
-----------------------------------------------------------------------------
(* Properties *)

Clock == 0..(TsMod - 1)
Timer == [rto : Nat, resendts : Clock, fastack : Nat]

\* The types of the timing fields of KCP (kcp.go:127-150) and of the poller.
TypeOK ==
    /\ end \in Ends /\ now \in Clock
    /\ sleep \in Nat /\ wait \in Nat /\ {awake, polled, torn} \subseteq BOOLEAN
    /\ curts \in Clock \cup {NoTime}
    /\ updated \in BOOLEAN /\ ts_flush \in Clock
    /\ queued \in Nat /\ snd_nxt \in Nat
    /\ DOMAIN snd_buf \subseteq 0..(snd_nxt - 1) /\ snd_buf \in [DOMAIN snd_buf -> Timer]
    /\ rmt_wnd \in Nat /\ ts_probe \in Clock /\ probe_wait \in 0..ProbeLimit
    /\ {rx_srtt, rx_rttvar, rx_rto} \subseteq Nat
    /\ {cwnd, incr} \subseteq 0..(U32 - 1) /\ ssthresh \in Nat \ {0, 1}
    /\ {ticks, jumps, back, missed, quiet} \subseteq Nat /\ flushed \in Clock

\* Whatever samples arrive in whatever order, the smoothed round trip and its
\* deviation stay within the samples seen (no drift of the rounded shifts, no
\* negative deviation turned into a huge uint32), and the timeout leaves room
\* for a round trip and one flush (update_ack, kcp.go:347).
RttBounded ==
    /\ \A rtt \in Rtts : (\A r \in Rtts : r <= rtt) => rx_srtt <= rtt /\ rx_rttvar <= rtt
    /\ rx_srtt >= 0 /\ rx_rttvar >= 0
    /\ rx_rto \in minrto..RtoMax
    /\ rx_srtt > 0 => rx_rto >= Min2(RtoMax, rx_srtt + end.interval)

\* incr is the congestion window in bytes and a fraction: the two never part,
\* and neither outgrows the windows although ssthresh + 0xffffffff wraps in
\* uint32 (kcp.go:833).  From the first flush on the window is open.
CwndBounded ==
    /\ cwnd * Mss <= incr /\ incr < (cwnd + 1) * Mss
    /\ updated => cwnd >= 1
    /\ cwnd <= Greatest({SndWnd} \cup Wnds) \/ cwnd <= Max2(SndWnd \div 2, 2) + end.resend

\* A segment counts as overtaken only when a later one has been acknowledged:
\* else a flush would send it again early, and halve the window, for nothing
\* (parse_fastack, kcp.go:401).
OvertakenTruthful ==
    \A i \in DOMAIN snd_buf :
        snd_buf[i].fastack > 0 => \E j \in (i + 1)..(snd_nxt - 1) : j \notin DOMAIN snd_buf

\* After every flush each unacknowledged segment has its next time ahead of
\* it, by no more than its own timeout and what the clock was set back; and
\* while the peer's window is shut the probe has one.  A time that is not set
\* again sends the segment at every flush, or never (kcp.go:662-780).  Only a
\* poller that sleeps for half a turn of the clock could make a time that is
\* past look as if it were to come.
TimersArmed ==
    \/ torn
    \/ /\ \A i \in DOMAIN snd_buf :
             /\ timediff(snd_buf[i].resendts, flushed) > 0
             /\ timediff(snd_buf[i].resendts, flushed) <= snd_buf[i].rto + back
       /\ probe_wait > 0 => timediff(ts_probe, flushed) \in 1..(ProbeLimit + back)

\* A flush comes at least every interval and one nap of the poller - of the
\* server's, whose naps depend on Check and on the other channels - even when
\* the clock wraps or is set.  Setting it back by more than SlapMax costs no
\* more than SlapMax and a nap.  A due flush that the server misses, because the
\* clock went on between its two reads (tunneld.go:135), costs one nap; if the
\* clock was set there, the poller may sleep for a turn of the clock
\* (poller and loop at tunneld.go:74, 130, 148; Update, Check).
FlushRegular ==
    LET nap == Max2(end.nap, end.interval + 1)
    IN  torn \/ quiet <= end.interval + nap + missed * nap
                         + Min2(back, jumps * (SlapMax + nap))
=============================================================================
