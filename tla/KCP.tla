-------------------------------- MODULE KCP --------------------------------
(***************************************************************************)
(* The ARQ of kcp.go between the two ends of one tunnel channel, over the  *)
(* lossy packets of Tox: they may be lost, duplicated and reordered.       *)
(*                                                                         *)
(* Each end is one KCP object.  Its methods run on the event loop of its   *)
(* program, one at a time; Input is split into one step per segment, and   *)
(* since those steps touch only their own end nothing else runs between.   *)
(*                                                                         *)
(* Time is abstracted: which unacknowledged segments a flush sends again   *)
(* (RTO, fast or early retransmission) and whether the window probe is due *)
(* are choices.  So is the congestion window of an end that has one.       *)
(*                                                                         *)
(* The definitions named Bad... are seeded faults for the mutation runs;   *)
(* nothing else uses them.                                                 *)
(***************************************************************************)
EXTENDS Integers, Sequences, FiniteSets

CONSTANTS Client, Server,  \* the two ends
          Wnd,      \* Wnd[p]: snd_wnd and rcv_wnd of p, set together by WndSize
          RmtWnd0,  \* rmt_wnd before the first segment of the peer arrives
          NoCwnd,   \* the ends with congestion control switched off (nc = 1)
          SnMod,    \* sequence numbers count modulo SnMod: 2^32 in the code
          Frags,    \* how many fragments a message may take
          MaxSegs,  \* bound: how many segments p submits in all
          NetCap    \* bound: NetCap[p], how many packets to p are in flight at once

Peer == {Client, Server}
Other(p) == IF p = Client THEN Server ELSE Client

ASSUME PeerAssumption == Client # Server
ASSUME WndAssumption  == /\ Wnd \in [Peer -> Nat] /\ \A p \in Peer : Wnd[p] > 0
                         /\ RmtWnd0 \in Nat
                         /\ NoCwnd \subseteq Peer
ASSUME FragAssumption == Frags \subseteq 1..255
ASSUME BoundAssumption == /\ MaxSegs \in [Peer -> Nat]
                          /\ NetCap \in [Peer -> Nat]
ASSUME SnAssumption == SnMod \in Nat /\ SnMod > 1

VARIABLES
    snd_queue,  \* items submitted and not yet given a sequence number
    snd_buf,    \* segments sent and not yet acknowledged: [sn, item]
    snd_una,    \* the first unacknowledged sequence number
    snd_nxt,    \* the next sequence number to give out
    rmt_wnd,    \* the window the peer last advertised
    probe,      \* the probe flags: "ASK" (send WASK), "TELL" (send WINS)
    probing,    \* probe_wait # 0: the zero-window probe timer runs
    rcv_nxt,    \* the next sequence number rcv_queue waits for
    rcv_buf,    \* segments received and not yet in order: [sn, item]
    rcv_queue,  \* items in order, to be handed over
    acklist,    \* sequence numbers to acknowledge
    busy,       \* the end that is inside Input, if any
    rx,         \* the segments that Input has still to process
    net,        \* net[p]: the packets on their way to p; a packet is a set
    sent,       \* every item submitted by p           (history)
    got         \* every item handed over to p's tunnel (history)

sndVars == <<snd_queue, snd_buf, snd_una, snd_nxt>>
rcvVars == <<rcv_nxt, rcv_buf, rcv_queue>>
ctlVars == <<rmt_wnd, probe, probing>>
vars == <<sndVars, rcvVars, ctlVars, acklist, busy, rx, net, sent, got>>
-----------------------------------------------------------------------------
(* Sequence numbers *)

BadAdd32(a, b) == a + b   \* no wrap at 2^32
Add32(a, b) == IF a + b >= SnMod THEN a + b - SnMod ELSE a + b

\* int32(later - earlier): the signed distance around the circle.
itimediff(later, earlier) ==
    LET d == later - earlier
    IN  IF 2 * d >= SnMod THEN d - SnMod
        ELSE IF 2 * d < -SnMod THEN d + SnMod ELSE d

Min2(a, b) == IF a <= b THEN a ELSE b

(* Queues *)

\* How often a loop over indices runs that breaks at the first index not in Ok.
Leading(n, Ok) == {k \in 0..n : 1..k \subseteq Ok /\ (k < n => k + 1 \notin Ok)}

BadRemoveFront(q, n) == IF n = 0 THEN q ELSE SubSeq(q, n, Len(q))   \* off by one
remove_front(q, n) == SubSeq(q, n + 1, Len(q))
RemoveAt(q, k) == SubSeq(q, 1, k - 1) \o SubSeq(q, k + 1, Len(q))
InsertAfter(q, k, e) == SubSeq(q, 1, k) \o <<e>> \o SubSeq(q, k + 1, Len(q))

(* Segments on the wire.  Only a PUSH carries an item. *)

NoItem == [frg |-> 0, data |-> 0]
Seg(cmd, sn, item, una, wnd) ==
    [cmd |-> cmd, sn |-> sn, item |-> item, una |-> una, wnd |-> wnd]

(* Arithmetic and queues of kcp.go *)

wnd_unused(p) == IF Len(rcv_queue[p]) < Wnd[p] THEN Wnd[p] - Len(rcv_queue[p]) ELSE 0

shrink_buf(buf, nxt) == IF buf = <<>> THEN nxt ELSE buf[1].sn

\* Off by one: una itself is taken for acknowledged.
BadParseUna(buf, una) ==
    {remove_front(buf, k) :
        k \in Leading(Len(buf), {i \in DOMAIN buf : itimediff(una, buf[i].sn) >= 0})}

\* snd_buf after parse_una: the leading segments below una are removed.
parse_una(buf, una) ==
    {remove_front(buf, k) :
        k \in Leading(Len(buf), {i \in DOMAIN buf : itimediff(una, buf[i].sn) > 0})}

\* The acknowledgement of one segment is taken for one of all before it.
BadParseAck(buf, una, nxt, sn) ==
    LET hit == {k \in DOMAIN buf : itimediff(sn, una) >= 0 /\ buf[k].sn = sn}
    IN  IF hit = {} THEN {buf} ELSE {remove_front(buf, k) : k \in hit}

\* snd_buf after parse_ack: the one segment numbered sn is removed, if the
\* search that stops at the first higher number meets it.
parse_ack(buf, una, nxt, sn) ==
    LET hit == {k \in DOMAIN buf : /\ itimediff(sn, una) >= 0
                                   /\ itimediff(sn, nxt) < 0
                                   /\ buf[k].sn = sn
                                   /\ \A j \in 1..(k-1) : itimediff(sn, buf[j].sn) > 0}
    IN  IF hit = {} THEN {buf} ELSE {RemoveAt(buf, k) : k \in hit}

\* rcv_buf with one more segment: the search from the back stops at the
\* segment itself (a repeat) or at the first lower number (insert after it).
Inserted(buf, sn, item) ==
    LET stop == {k \in 0..Len(buf) :
                    /\ k > 0 => itimediff(sn, buf[k].sn) >= 0
                    /\ \A j \in (k+1)..Len(buf) : itimediff(sn, buf[j].sn) < 0}
    IN  {IF k > 0 /\ buf[k].sn = sn THEN buf
         ELSE InsertAfter(buf, k, [sn |-> sn, item |-> item]) : k \in stop}

\* The move loop does not look for a gap; it does not look at the queue.
BadReadyGap(buf, nxt, queued, wnd) == Leading(Len(buf), {i \in DOMAIN buf : queued < wnd})
BadReadyFull(buf, nxt, queued, wnd) ==
    Leading(Len(buf), {i \in DOMAIN buf : buf[i].sn = Add32(nxt, i - 1)})

\* How many segments of buf the move loop takes: it goes by rcv_nxt, and it
\* tests the length rcv_queue had before the loop.
Ready(buf, nxt, queued, wnd) ==
    Leading(Len(buf), {i \in DOMAIN buf : buf[i].sn = Add32(nxt, i - 1) /\ queued < wnd})

MoveReady(p, buf, queue) ==
    \E k \in Ready(buf, rcv_nxt[p], Len(queue), Wnd[p]) :
        /\ rcv_nxt'   = [rcv_nxt EXCEPT ![p] = Add32(@, k)]
        /\ rcv_buf'   = [rcv_buf EXCEPT ![p] = remove_front(buf, k)]
        /\ rcv_queue' = [rcv_queue EXCEPT ![p] = queue \o [i \in 1..k |-> buf[i].item]]

InWindow(sn, nxt, wnd) == itimediff(sn, Add32(nxt, wnd)) < 0

\* Off by one: one segment too many fits the window.
BadMovable(queue, nxt, una, w) ==
    Leading(Len(queue), {i \in DOMAIN queue : itimediff(Add32(nxt, i - 1), Add32(una, w)) <= 0})

\* How many items flush may give a number: up to snd_una + w.
Movable(queue, nxt, una, w) ==
    Leading(Len(queue), {i \in DOMAIN queue : itimediff(Add32(nxt, i - 1), Add32(una, w)) < 0})

\* The acknowledgements a flush sends: those rcv_nxt does not cover, and the
\* last.  The comparison is a plain one of two uint32.
AckSegs(p) ==
    {Seg("ACK", acklist[p][i], NoItem, rcv_nxt[p], wnd_unused(p)) :
        i \in {j \in DOMAIN acklist[p] : acklist[p][j] >= rcv_nxt[p] \/ j = Len(acklist[p])}}

\* The zero-window probe is never sent.
BadProbeSegs(p, flags) ==
    {Seg("WINS", 0, NoItem, rcv_nxt[p], wnd_unused(p)) : f \in flags \ {"ASK"}}

ProbeSegs(p, flags) ==
    {Seg(IF f = "ASK" THEN "WASK" ELSE "WINS", 0, NoItem, rcv_nxt[p], wnd_unused(p)) : f \in flags}

\* Data segments acknowledge by the counter of the wrong direction.
BadPushSegs(p, segs) ==
    {Seg("PUSH", s.sn, s.item, snd_nxt[p], wnd_unused(p)) : s \in segs}

PushSegs(p, segs) ==
    {Seg("PUSH", s.sn, s.item, rcv_nxt[p], wnd_unused(p)) : s \in segs}

\* The windows min(snd_wnd, rmt_wnd[, cwnd]); the value of cwnd is a choice.
Windows(p) == LET w == Min2(Wnd[p], rmt_wnd[p])
              IN  IF p \in NoCwnd THEN {w} ELSE 0..w

\* fate maps each segment to the packet that carries it, or to 0: it is lost.
Fates(q, segs) == [segs -> 0..(NetCap[q] - Cardinality(net[q]))]
Packets(q, segs, fate) == {{s \in segs : fate[s] = i} : i \in 1..NetCap[q]} \ {{}}
Transmit(q, segs, fate) == net' = [net EXCEPT ![q] = @ \cup Packets(q, segs, fate)]

\* Fragments are counted up instead of down.
BadFragments(n, first) == [i \in 1..n |-> [frg |-> i - 1, data |-> first + i - 1]]

\* The items of a message of n fragments whose first item is number first.
Fragments(n, first) == [i \in 1..n |-> [frg |-> n - i, data |-> first + i - 1]]

\* All of rcv_queue is merged, over the end of the message.
BadMessageLen(queue) == {Len(queue)}

\* How many items Recv merges: up to the first that ends a message.
MessageLen(queue) ==
    {n \in DOMAIN queue : /\ \A i \in 1..(n-1) : queue[i].frg # 0
                          /\ queue[n].frg = 0 \/ n = Len(queue)}
-----------------------------------------------------------------------------
Init ==
    /\ snd_queue = [p \in Peer |-> <<>>]
    /\ snd_buf   = [p \in Peer |-> <<>>]
    /\ snd_una   = [p \in Peer |-> 0]
    /\ snd_nxt   = [p \in Peer |-> 0]
    /\ rmt_wnd   = [p \in Peer |-> RmtWnd0]
    /\ probe     = [p \in Peer |-> {}]
    /\ probing   = [p \in Peer |-> FALSE]
    /\ rcv_nxt   = [p \in Peer |-> 0]
    /\ rcv_buf   = [p \in Peer |-> <<>>]
    /\ rcv_queue = [p \in Peer |-> <<>>]
    /\ acklist   = [p \in Peer |-> <<>>]
    /\ busy = {}
    /\ rx   = {}
    /\ net  = [p \in Peer |-> {}]
    /\ sent = [p \in Peer |-> <<>>]
    /\ got  = [p \in Peer |-> <<>>]

Idle == busy = {}

\* The tunnel submits a message of n fragments.
Send(p, n) ==
    /\ Idle
    /\ Len(sent[p]) + n <= MaxSegs[p]
    /\ LET m == Fragments(n, Len(sent[p]) + 1)
       IN  /\ snd_queue' = [snd_queue EXCEPT ![p] = @ \o m]
           /\ sent'      = [sent EXCEPT ![p] = @ \o m]
    /\ UNCHANGED <<snd_buf, snd_una, snd_nxt, rcvVars, ctlVars, acklist, busy, rx, net, got>>

\* The tunnel is handed the next message, once its fragments are all there.
Recv(p) ==
    /\ Idle
    /\ rcv_queue[p] # <<>>
    /\ Len(rcv_queue[p]) >= rcv_queue[p][1].frg + 1
    /\ \E n \in MessageLen(rcv_queue[p]) :
          /\ got' = [got EXCEPT ![p] = @ \o SubSeq(rcv_queue[p], 1, n)]
          /\ MoveReady(p, rcv_buf[p], remove_front(rcv_queue[p], n))
    /\ probe' = [probe EXCEPT ![p] =
                   IF Len(rcv_queue[p]) >= Wnd[p] /\ Len(rcv_queue'[p]) < Wnd[p]
                   THEN @ \cup {"TELL"} ELSE @]
    /\ UNCHANGED <<sndVars, rmt_wnd, probing, acklist, busy, rx, net, sent>>

\* A packet reaches p, for the last time or not (a duplicate may follow).
Receive(p) ==
    /\ Idle
    /\ \E pkt \in net[p] : \E again \in BOOLEAN :
          /\ busy' = {p}
          /\ rx' = pkt
          /\ net' = IF again THEN net ELSE [net EXCEPT ![p] = @ \ {pkt}]
    /\ UNCHANGED <<sndVars, rcvVars, ctlVars, acklist, sent, got>>

\* What Input does first with every segment, whatever its command.
Take(p, s, cmd) ==
    /\ busy = {p}
    /\ s.cmd = cmd
    /\ rx' = rx \ {s}
    /\ rmt_wnd' = [rmt_wnd EXCEPT ![p] = s.wnd]
    /\ UNCHANGED <<snd_queue, snd_nxt, probing, busy, net, sent, got>>

DropAcked(p, s) ==
    \E buf \in parse_una(snd_buf[p], s.una) :
        /\ snd_buf' = [snd_buf EXCEPT ![p] = buf]
        /\ snd_una' = [snd_una EXCEPT ![p] = shrink_buf(buf, snd_nxt[p])]

InputAck(p) == \E s \in rx :
    /\ Take(p, s, "ACK")
    /\ \E old \in parse_una(snd_buf[p], s.una) :
       \E buf \in parse_ack(old, shrink_buf(old, snd_nxt[p]), snd_nxt[p], s.sn) :
          /\ snd_buf' = [snd_buf EXCEPT ![p] = buf]
          /\ snd_una' = [snd_una EXCEPT ![p] = shrink_buf(buf, snd_nxt[p])]
    /\ UNCHANGED <<rcvVars, probe, acklist>>

\* A segment of the window that has not been delivered in order yet.
InputData(p) == \E s \in rx :
    /\ Take(p, s, "PUSH")
    /\ DropAcked(p, s)
    /\ InWindow(s.sn, rcv_nxt[p], Wnd[p])
    /\ itimediff(s.sn, rcv_nxt[p]) >= 0
    /\ acklist' = [acklist EXCEPT ![p] = Append(@, s.sn)]
    /\ \E buf \in Inserted(rcv_buf[p], s.sn, s.item) : MoveReady(p, buf, rcv_queue[p])
    /\ UNCHANGED probe

\* One from before the window: acknowledged again, not stored.
InputRepeat(p) == \E s \in rx :
    /\ Take(p, s, "PUSH")
    /\ DropAcked(p, s)
    /\ InWindow(s.sn, rcv_nxt[p], Wnd[p])
    /\ itimediff(s.sn, rcv_nxt[p]) < 0
    /\ acklist' = [acklist EXCEPT ![p] = Append(@, s.sn)]
    /\ UNCHANGED <<rcvVars, probe>>

\* One from beyond the window: not acknowledged, not stored.
InputBeyond(p) == \E s \in rx :
    /\ Take(p, s, "PUSH")
    /\ DropAcked(p, s)
    /\ ~InWindow(s.sn, rcv_nxt[p], Wnd[p])
    /\ UNCHANGED <<rcvVars, probe, acklist>>

\* The peer asks for the window.
InputWask(p) == \E s \in rx :
    /\ Take(p, s, "WASK")
    /\ DropAcked(p, s)
    /\ probe' = [probe EXCEPT ![p] = @ \cup {"TELL"}]
    /\ UNCHANGED <<rcvVars, acklist>>

\* The peer tells its window.
InputWins(p) == \E s \in rx :
    /\ Take(p, s, "WINS")
    /\ DropAcked(p, s)
    /\ UNCHANGED <<rcvVars, probe, acklist>>

\* The packet is used up: flush(true) sends the acknowledgements at once.
InputEnd(p) ==
    /\ busy = {p}
    /\ rx = {}
    /\ \E fate \in Fates(Other(p), AckSegs(p)) : Transmit(Other(p), AckSegs(p), fate)
    /\ acklist' = [acklist EXCEPT ![p] = <<>>]
    /\ busy' = {}
    /\ UNCHANGED <<sndVars, rcvVars, ctlVars, rx, sent, got>>

\* The sending half of flush: acknowledgements, probes, m new segments and
\* again those of snd_buf whose time has come.
FlushSends(p, due, m, again) ==
    LET asks  == rmt_wnd[p] = 0 /\ probing[p] /\ due
        new   == [i \in 1..m |-> [sn   |-> Add32(snd_nxt[p], i - 1),
                                  item |-> snd_queue[p][i]]]
        flags == probe[p] \cup (IF asks THEN {"ASK"} ELSE {})
        out   == AckSegs(p) \cup ProbeSegs(p, flags) \cup
                 PushSegs(p, {snd_buf[p][i] : i \in again} \cup {new[i] : i \in 1..m})
    IN  /\ snd_buf'   = [snd_buf EXCEPT ![p] = @ \o new]
        /\ snd_queue' = [snd_queue EXCEPT ![p] = remove_front(@, m)]
        /\ snd_nxt'   = [snd_nxt EXCEPT ![p] = Add32(@, m)]
        /\ \E fate \in Fates(Other(p), out) : Transmit(Other(p), out, fate)

\* flush(false), which Update runs every interval.
Flush(p) ==
    /\ Idle
    /\ \E due \in BOOLEAN : \E w \in Windows(p) :
       \E m \in Movable(snd_queue[p], snd_nxt[p], snd_una[p], w) :
       \E again \in SUBSET DOMAIN snd_buf[p] : FlushSends(p, due, m, again)
    /\ probing' = [probing EXCEPT ![p] = (rmt_wnd[p] = 0)]
    /\ probe'   = [probe EXCEPT ![p] = {}]
    /\ acklist' = [acklist EXCEPT ![p] = <<>>]
    /\ UNCHANGED <<snd_una, rmt_wnd, rcvVars, busy, rx, sent, got>>

Input(p) == \/ InputAck(p)    \/ InputData(p) \/ InputRepeat(p) \/ InputBeyond(p)
            \/ InputWask(p)   \/ InputWins(p) \/ InputEnd(p)

Next == \E p \in Peer : \/ \E n \in Frags : Send(p, n)
                        \/ Recv(p)
                        \/ Receive(p)
                        \/ Input(p)
                        \/ Flush(p)

Spec == Init /\ [][Next]_vars
-----------------------------------------------------------------------------
(* Properties *)

Item == [frg : 0..254, data : Nat]
Sns  == 0..(SnMod - 1)
Wire == [cmd : {"ACK", "PUSH", "WASK", "WINS"}, sn : Sns, item : Item, una : Sns, wnd : Nat]

\* The types of the KCP fields and of the packets (kcp.go:95-152).
TypeOK ==
    /\ snd_queue \in [Peer -> Seq(Item)]
    /\ snd_buf   \in [Peer -> Seq([sn : Sns, item : Item])]
    /\ snd_una   \in [Peer -> Sns]
    /\ snd_nxt   \in [Peer -> Sns]
    /\ rmt_wnd   \in [Peer -> Nat]
    /\ probe     \in [Peer -> SUBSET {"ASK", "TELL"}]
    /\ probing   \in [Peer -> BOOLEAN]
    /\ rcv_nxt   \in [Peer -> Sns]
    /\ rcv_buf   \in [Peer -> Seq([sn : Sns, item : Item])]
    /\ rcv_queue \in [Peer -> Seq(Item)]
    /\ acklist   \in [Peer -> Seq(Sns)]
    /\ busy \in SUBSET Peer
    /\ rx   \in SUBSET Wire
    /\ net  \in [Peer -> SUBSET SUBSET Wire]
    /\ sent \in [Peer -> Seq(Item)]
    /\ got  \in [Peer -> Seq(Item)]

\* p has got the i-th item of the peer: in order, or waiting in rcv_buf.
Received(p, i) == \/ i <= Len(got[p]) + Len(rcv_queue[p])
                  \/ \E k \in DOMAIN rcv_buf[p] : rcv_buf[p][k].item = sent[Other(p)][i]

WaitSnd(p) == Len(snd_buf[p]) + Len(snd_queue[p])

\* Whatever the network does, what an end has been handed over is what the
\* other submitted, item by item from the first on: nothing lost, doubled,
\* reordered or changed (Send kcp.go:281, Recv kcp.go:218).
InOrder == \A p \in Peer :
    /\ Len(got[p]) <= Len(sent[Other(p)])
    /\ \A i \in DOMAIN got[p] : got[p][i] = sent[Other(p)][i]

\* A segment leaves snd_buf only when the peer has it: neither parse_una nor
\* parse_ack forgets one that could still be lost (kcp.go:381-430).  The
\* acknowledgements they act on may be old, doubled or out of order.
Retained == \A p \in Peer : \A i \in 1..(Len(sent[p]) - Len(snd_queue[p])) :
    \/ \E k \in DOMAIN snd_buf[p] : snd_buf[p][k].item = sent[p][i]
    \/ Received(Other(p), i)

\* WaitSnd() = 0 means that the peer has everything: kcpCheckClose tells the
\* client to finish on the strength of it (tunneld.go:188).
DrainedMeansReceived == \A p \in Peer :
    WaitSnd(p) = 0 => \A i \in DOMAIN sent[p] : Received(Other(p), i)

\* Buffers stay bounded although the move loops test the length rcv_queue had
\* before them (kcp.go:258, 477): rcv_buf by the window, rcv_queue by twice
\* the window less one, not by the "maximum window size" of kcp.go:978.
RcvBounded == \A p \in Peer : /\ Len(rcv_buf[p]) <= Wnd[p]
                              /\ Len(rcv_queue[p]) <= 2 * Wnd[p] - 1

\* An end never has more than its window unacknowledged, and is never further
\* ahead of the peer's rcv_nxt than two windows: snd_una can pass rcv_nxt,
\* because a segment in rcv_buf is acknowledged while rcv_queue is full.
WindowLag == \A p \in Peer :
    /\ itimediff(snd_nxt[p], snd_una[p]) \in 0..Wnd[p]
    /\ itimediff(snd_nxt[p], rcv_nxt[Other(p)]) \in 0..(Wnd[p] + Wnd[Other(p)])

\* Each hand-over is exactly one submitted message: fragments are never
\* merged across messages nor a message cut (Recv kcp.go:218-278).
WholeMessages ==
    [][\A p \in Peer : got'[p] # got[p] =>
          LET n == Len(got'[p]) - Len(got[p])
          IN  /\ n > 0
              /\ \A i \in 1..n : got'[p][Len(got[p]) + i].frg = n - i]_vars

Stream == INSTANCE ReliableStream
              WITH Peer <- Peer, Frags <- Frags, sent <- sent, got <- got

\* Two KCP objects over a bad network are a reliable message stream each way.
ImplementsStream == Stream!Spec
-----------------------------------------------------------------------------
(***************************************************************************)
(* Progress.  The event loop of each end polls its KCP objects for ever,   *)
(* so messages are read, packets processed and flushes run.  The network   *)
(* may lose and repeat, but not for ever: what is sent again and again     *)
(* arrives at last, and no packet is repeated without end.                 *)
(***************************************************************************)

\* This step puts a packet on its way from p that carries such a segment.
Arriving(p, Carries(_)) ==
    \E pkt \in net'[Other(p)] \ net[Other(p)] : \E s \in pkt : Carries(s)

IsFirst(p, s) == s.cmd = "PUSH" /\ snd_buf'[p] # <<>> /\ s.sn = snd_buf'[p][1].sn

FlushPush(p) == Flush(p) /\ Arriving(p, LAMBDA s : IsFirst(p, s))
FlushWask(p) == Flush(p) /\ Arriving(p, LAMBDA s : s.cmd = "WASK")
FlushWins(p) == Flush(p) /\ Arriving(p, LAMBDA s : s.cmd = "WINS")
EndAck(p)    == InputEnd(p) /\ Arriving(p, LAMBDA s : s.cmd = "ACK")
ReceiveLast(p) == Receive(p) /\ net'[p] # net[p]

\* An end that submits nothing needs no fairness for what only senders send.
Senders == {p \in Peer : MaxSegs[p] > 0}

Fairness ==
    /\ \A p \in Peer : WF_vars(Input(p)) /\ SF_vars(ReceiveLast(p))
    /\ \A p \in Senders :
          /\ SF_vars(Recv(Other(p)))
          /\ SF_vars(Flush(p))
          /\ SF_vars(FlushPush(p)) /\ SF_vars(FlushWask(p))
          /\ SF_vars(FlushWins(Other(p))) /\ SF_vars(EndAck(Other(p)))

FairSpec == Spec /\ Fairness

\* What is submitted is handed over in the end and acknowledged, however often
\* the window closes: the advertisement that reopens it may be lost, and then
\* only the probe of the sender brings a new one (kcp.go:663-706).  Then the
\* sender keeps nothing, which kcpCheckClose waits for (tunneld.go:188).
EventuallyDone == \A p \in Senders :
    <>[](Len(got[Other(p)]) = Len(sent[p]) /\ WaitSnd(p) = 0)
=============================================================================
