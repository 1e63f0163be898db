----------------------------- MODULE MCKcpTimers -----------------------------
(* Instances of KcpTimers for TLC. *)
EXTENDS KcpTimers

\* The server never calls NoDelay, so it has the defaults of NewKCP; a client
\* in mode fast2 (speed_mode.go:48).  In mode default it differs from the server
\* by the poll alone.  One tick is about 50 ms; for MCSlow, the server whose
\* segments are left out, it is 30.
MCServer == [check |-> TRUE, nap |-> 2, nodelay |-> FALSE, interval |-> 2, resend |-> 0, nc |-> FALSE]
MCFast2  == [check |-> FALSE, nap |-> 2, nodelay |-> TRUE, interval |-> 1, resend |-> 2, nc |-> TRUE]
MCSlow   == [MCServer EXCEPT !.nap = 3, !.interval = 3]
MCEnds   == {MCServer, MCFast2, MCSlow}

MCJumps == {-8, -2, 5}

\* With segments or a probe, which MCSlow has none of, runs are shorter than
\* without.
MCQuiet  == queued + snd_nxt = 0 /\ rmt_wnd = SndWnd /\ probe_wait = 0
MCBounds ==
    \/ MCQuiet /\ end # MCServer
    \/ end # MCSlow /\ ticks <= 9 /\ jumps <= 1 /\ missed <= 1 /\ (jumps = 0 \/ back > 0)
=============================================================================
