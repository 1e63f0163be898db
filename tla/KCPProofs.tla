----------------------------- MODULE KCPProofs -----------------------------
(***************************************************************************)
(* Proofs about module KCP for all values of its constants, as long as no  *)
(* sequence number wraps: InOrder, Retained, DrainedMeansReceived,         *)
(* WindowLag and RcvBounded are invariants, messages stay whole, and the   *)
(* two KCP objects implement ReliableStream.                               *)
(***************************************************************************)
EXTENDS KCP, SequenceTheorems, TLAPS

\* A connection short enough for its sequence numbers to stay within half of
\* their circle: 2^31 segments in the code.
NoWrap == \A p \in Peer : 2 * (MaxSegs[p] + Wnd[p] + Wnd[Other(p)]) < SnMod

-----------------------------------------------------------------------------
(* The inductive invariant *)

\* q has segment n of its peer.
Has(q, n) == \/ n < rcv_nxt[q]
             \/ \E k \in 1..Len(rcv_buf[q]) : rcv_buf[q][k].sn = n

\* Segment n of p is item n + 1.
IsSeg(p, n, item) == n < snd_nxt[p] /\ item = sent[p][n + 1]

\* What a segment from p says is true, now and later.
SegOK(p, s) == /\ s.una <= rcv_nxt[p]
               /\ s.cmd = "PUSH" => IsSeg(p, s.sn, s.item)
               /\ s.cmd = "ACK"  => Has(p, s.sn)

\* Items get their numbers in the order of submission.
QueueInv(p) == /\ Len(sent[p]) <= MaxSegs[p]
               /\ snd_nxt[p] + Len(snd_queue[p]) = Len(sent[p])
               /\ \A i \in 1..Len(snd_queue[p]) : snd_queue[p][i] = sent[p][snd_nxt[p] + i]

\* A buffer of segments of p.
Segments(p, buf) == \A k \in 1..Len(buf) : IsSeg(p, buf[k].sn, buf[k].item)

BufInv(p) == snd_una[p] <= snd_nxt[p] /\ Segments(p, snd_buf[p])

WireInv(p) == /\ \A pkt \in net[Other(p)] : \A s \in pkt : SegOK(p, s)
              /\ busy = {Other(p)} => \A s \in rx : SegOK(p, s)

\* What p was handed over, and then what waits for it, is what the peer sent.
RcvInv(p) == /\ rcv_nxt[p] = Len(got[p]) + Len(rcv_queue[p])
             /\ rcv_nxt[p] <= snd_nxt[Other(p)]
             /\ \A i \in 1..Len(got[p]) : got[p][i] = sent[Other(p)][i]
             /\ \A i \in 1..Len(rcv_queue[p]) :
                   rcv_queue[p][i] = sent[Other(p)][Len(got[p]) + i]
             /\ Segments(Other(p), rcv_buf[p])

AckInv(p) == \A i \in 1..Len(acklist[p]) : Has(p, acklist[p][i])

\* What is not in the send buffer any more the peer has.
Covers(p, buf) == \A n \in 0..(snd_nxt[p] - 1) :
                     (\E k \in 1..Len(buf) : buf[k].sn = n) \/ Has(Other(p), n)

KeptInv(p) == Covers(p, snd_buf[p])

PeerInv(p) == /\ QueueInv(p) /\ BufInv(p) /\ WireInv(p)
              /\ RcvInv(p) /\ AckInv(p) /\ KeptInv(p)

IInv == TypeOK /\ \A p \in Peer : PeerInv(p)

\* A sequence of whole messages: each item is followed by as many as its frg
\* says, and they count down to 0.
Whole(q) == \A i \in 1..Len(q) :
               /\ i + q[i].frg <= Len(q)
               /\ \A j \in 0..q[i].frg : q[i + j].frg = q[i].frg - j

MsgInv == \A p \in Peer : Whole(sent[p])
-----------------------------------------------------------------------------
(* Lemmas on the operators *)

\* A segment in a buffer, and the buffers.
Segment == [sn : Sns, item : Item]
Buffer == Seq(Segment)

\* The fields of a buffered segment.
LEMMA Buffered ==
    ASSUME NEW buf \in Buffer
    PROVE  /\ Len(buf) \in Nat
           /\ \A i \in 1..Len(buf) : buf[i].sn \in Sns /\ buf[i].sn \in Nat /\ buf[i].item \in Item
<1>1. Len(buf) \in Nat /\ \A i \in 1..Len(buf) : buf[i] \in Segment
  BY DEF Buffer
<1>2. \A e \in Segment : e.sn \in Sns /\ e.sn \in Nat /\ e.item \in Item
  BY SnAssumption DEF Sns, Segment
<1> QED BY <1>1, <1>2

\* What remove_front leaves of a queue.
LEMMA RemoveFront ==
    ASSUME NEW S, NEW q \in Seq(S), NEW n \in 0..Len(q)
    PROVE  /\ remove_front(q, n) \in Seq(S)
           /\ Len(remove_front(q, n)) = Len(q) - n
           /\ \A i \in 1..(Len(q) - n) : remove_front(q, n)[i] = q[n + i]
BY DEF remove_front

\* The concatenation of two sequences.
LEMMA Joined ==
    ASSUME NEW S, NEW q \in Seq(S), NEW r \in Seq(S)
    PROVE  /\ q \o r \in Seq(S)
           /\ Len(q \o r) = Len(q) + Len(r)
           /\ \A i \in 1..Len(q) : (q \o r)[i] = q[i]
           /\ \A i \in 1..Len(r) : (q \o r)[Len(q) + i] = r[i]
OBVIOUS

\* What RemoveAt leaves.
LEMMA RemovedAt ==
    ASSUME NEW S, NEW q \in Seq(S), NEW k \in 1..Len(q)
    PROVE  /\ RemoveAt(q, k) \in Seq(S)
           /\ Len(RemoveAt(q, k)) = Len(q) - 1
           /\ \A i \in 1..(k - 1) : RemoveAt(q, k)[i] = q[i]
           /\ \A i \in k..(Len(q) - 1) : RemoveAt(q, k)[i] = q[i + 1]
<1> DEFINE a == SubSeq(q, 1, k - 1)
           b == SubSeq(q, k + 1, Len(q))
<1>1. a \in Seq(S) /\ Len(a) = k - 1 /\ \A i \in 1..(k - 1) : a[i] = q[i]
  OBVIOUS
<1>2. b \in Seq(S) /\ Len(b) = Len(q) - k /\ \A i \in 1..(Len(q) - k) : b[i] = q[k + i]
  OBVIOUS
<1>3. RemoveAt(q, k) = a \o b
  BY DEF RemoveAt
<1> HIDE DEF a, b
<1>4. a \o b \in Seq(S) /\ Len(a \o b) = Len(a) + Len(b)
  <2>1. a \in Seq(S) /\ b \in Seq(S)
    BY <1>1, <1>2
  <2> QED BY <2>1
<1>8. Len(a) + Len(b) = Len(q) - 1
  BY <1>1, <1>2
<1>7. ASSUME NEW i \in 1..(k - 1)
      PROVE  (a \o b)[i] = a[i]
  BY <1>1, <1>2
<1>5. ASSUME NEW i \in k..(Len(q) - 1)
      PROVE  (a \o b)[i] = b[i - (k - 1)]
  BY <1>1, <1>2
<1>6. ASSUME NEW i \in k..(Len(q) - 1)
      PROVE  b[i - (k - 1)] = q[i + 1]
  BY SMTT(60), <1>2
<1> QED BY <1>1, <1>3, <1>4, <1>5, <1>6, <1>7, <1>8

\* What InsertAfter adds.
LEMMA InsertedAfter ==
    ASSUME NEW q \in Buffer, NEW k \in 0..Len(q), NEW e \in Segment
    PROVE  /\ InsertAfter(q, k, e) \in Buffer
           /\ Len(InsertAfter(q, k, e)) = Len(q) + 1
           /\ \A i \in 1..k : InsertAfter(q, k, e)[i] = q[i]
           /\ InsertAfter(q, k, e)[k + 1] = e
           /\ \A i \in (k + 1)..Len(q) : InsertAfter(q, k, e)[i + 1] = q[i]
<1> DEFINE a == SubSeq(q, 1, k) \o <<e>>
           b == SubSeq(q, k + 1, Len(q))
<1>1. /\ a \in Buffer /\ Len(a) = k + 1
      /\ a[k + 1] = e /\ \A i \in 1..k : a[i] = q[i]
  BY DEF Buffer
<1>2. b \in Buffer /\ Len(b) = Len(q) - k /\ \A i \in 1..(Len(q) - k) : b[i] = q[k + i]
  BY DEF Buffer
<1>3. InsertAfter(q, k, e) = a \o b
  BY DEF InsertAfter
<1> HIDE DEF a, b
<1>4. /\ a \o b \in Buffer /\ Len(a \o b) = Len(a) + Len(b)
      /\ \A i \in 1..Len(a) : (a \o b)[i] = a[i]
  <2>1. a \in Seq(Segment) /\ b \in Seq(Segment)
    BY <1>1, <1>2 DEF Buffer
  <2> QED BY <2>1, Joined DEF Buffer
<1>7. Len(a) + Len(b) = Len(q) + 1
  BY <1>1, <1>2 DEF Buffer
<1>5. ASSUME NEW i \in (k + 1)..Len(q)
      PROVE  (a \o b)[i + 1] = b[i - k]
  BY <1>1, <1>2 DEF Buffer
<1>6. ASSUME NEW i \in (k + 1)..Len(q)
      PROVE  b[i - k] = q[i]
  BY <1>2 DEF Buffer
<1> QED BY <1>1, <1>3, <1>4, <1>5, <1>6, <1>7

\* Peers come in pairs.
LEMMA Peers ==
    \A p \in Peer : /\ Other(p) \in Peer
                    /\ Other(p) # p
                    /\ Other(Other(p)) = p
                    /\ \A q \in Peer : q = p \/ q = Other(p)
BY PeerAssumption DEF Peer, Other

\* Without a wrap a sum of sequence numbers is a sum.
LEMMA NoWrapAdd ==
    ASSUME NEW a \in Nat, NEW b \in Nat, a + b < SnMod
    PROVE  Add32(a, b) = a + b
BY SnAssumption DEF Add32

\* ... and a distance a difference.
LEMMA NoWrapDiff ==
    ASSUME NEW a \in Nat, NEW b \in Nat, 2 * a < SnMod, 2 * b < SnMod
    PROVE  itimediff(a, b) = a - b
BY SnAssumption DEF itimediff

\* Counters only grow, submitted items stay, and what an end has it keeps.
Grows == \A p \in Peer :
    /\ snd_nxt[p] <= snd_nxt'[p] /\ rcv_nxt[p] <= rcv_nxt'[p]
    /\ Len(sent[p]) <= Len(sent'[p])
    /\ \A i \in 1..Len(sent[p]) : sent'[p][i] = sent[p][i]
    /\ \A n \in Nat : Has(p, n) => Has(p, n)'

\* The bounds that keep the counters from wrapping.
LEMMA Bounds ==
    ASSUME NoWrap, IInv, NEW p \in Peer
    PROVE  /\ MaxSegs[p] \in Nat /\ Wnd[p] \in Nat /\ 2 * (MaxSegs[p] + Wnd[p]) < SnMod
           /\ Len(sent[p]) \in Nat /\ Len(snd_queue[p]) \in Nat
           /\ snd_nxt[p] \in Nat /\ snd_nxt[p] + Len(snd_queue[p]) = Len(sent[p])
           /\ Len(sent[p]) <= MaxSegs[p] /\ 2 * snd_nxt[p] < SnMod
           /\ snd_una[p] \in Nat /\ snd_una[p] <= snd_nxt[p]
           /\ rcv_nxt[Other(p)] \in Nat /\ rcv_nxt[Other(p)] <= snd_nxt[p]
<1>1. /\ MaxSegs[p] \in Nat /\ Wnd[p] \in Nat /\ Wnd[Other(p)] \in Nat
      /\ 2 * (MaxSegs[p] + Wnd[p] + Wnd[Other(p)]) < SnMod
  BY BoundAssumption, WndAssumption, Peers DEF NoWrap
<1>2. /\ sent[p] \in Seq(Item) /\ snd_queue[p] \in Seq(Item)
      /\ snd_nxt[p] \in Sns /\ snd_una[p] \in Sns /\ rcv_nxt[Other(p)] \in Sns
  BY Peers DEF IInv, TypeOK
<1>3. /\ Len(sent[p]) <= MaxSegs[p] /\ snd_nxt[p] + Len(snd_queue[p]) = Len(sent[p])
      /\ snd_una[p] <= snd_nxt[p] /\ rcv_nxt[Other(p)] <= snd_nxt[p]
  BY Peers DEF IInv, PeerInv, QueueInv, BufInv, RcvInv
<1>4. /\ Len(sent[p]) \in Nat /\ Len(snd_queue[p]) \in Nat
      /\ snd_nxt[p] \in Nat /\ snd_una[p] \in Nat /\ rcv_nxt[Other(p)] \in Nat /\ SnMod \in Nat
  BY <1>2, SnAssumption DEF Sns
<1>5. 2 * (MaxSegs[p] + Wnd[p]) < SnMod
  BY <1>1, <1>4
<1>6. 2 * snd_nxt[p] < SnMod
  <2>1. snd_nxt[p] <= MaxSegs[p]
    BY <1>1, <1>3, <1>4
  <2> QED BY <1>1, <1>4, <1>5, <2>1
<1> QED BY <1>1, <1>3, <1>4, <1>5, <1>6

\* A true statement stays true.
LEMMA Later ==
    ASSUME NoWrap, IInv, Grows, TypeOK', NEW p \in Peer
    PROVE  /\ \A n \in Nat : \A item : IsSeg(p, n, item) => IsSeg(p, n, item)'
           /\ \A s \in Wire : SegOK(p, s) => SegOK(p, s)'
<1>1. ASSUME NEW n \in Nat, NEW item, IsSeg(p, n, item)
      PROVE  IsSeg(p, n, item)'
  <2>1. n + 1 \in 1..Len(sent[p]) /\ n < snd_nxt'[p]
    <3>1. snd_nxt'[p] \in Nat
      BY SnAssumption DEF TypeOK, Sns
    <3> QED BY SMTT(60), <1>1, <3>1, Bounds DEF IsSeg, Grows
  <2> QED BY <1>1, <2>1 DEF IsSeg, Grows
<1>2. ASSUME NEW s \in Wire, SegOK(p, s)
      PROVE  SegOK(p, s)'
  <2>1. s.sn \in Nat /\ s.una \in Nat
    BY SnAssumption DEF Wire, Sns
  <2>2. s.una <= rcv_nxt'[p]
    <3>1. rcv_nxt[p] \in Nat /\ rcv_nxt'[p] \in Nat /\ rcv_nxt[p] <= rcv_nxt'[p]
      BY SnAssumption DEF IInv, TypeOK, Sns, Grows
    <3> QED BY <1>2, <2>1, <3>1 DEF SegOK
  <2>3. s.cmd = "PUSH" => IsSeg(p, s.sn, s.item)'
    BY <1>1, <1>2, <2>1 DEF SegOK
  <2>4. s.cmd = "ACK" => Has(p, s.sn)'
    BY <1>2, <2>1 DEF SegOK, Grows
  <2> QED BY <2>2, <2>3, <2>4 DEF SegOK
<1> QED BY <1>1, <1>2

\* parse_una: what is removed the peer has, as una is not beyond its rcv_nxt.
LEMMA ParseUna ==
    ASSUME NoWrap, IInv, NEW p \in Peer,
           NEW buf \in Buffer, Segments(p, buf), Covers(p, buf),
           NEW una \in Nat, una <= rcv_nxt[Other(p)],
           NEW left \in parse_una(buf, una)
    PROVE  left \in Buffer /\ Segments(p, left) /\ Covers(p, left)
<1>1. PICK k \in 0..Len(buf) :
         /\ left = remove_front(buf, k)
         /\ 1..k \subseteq {i \in DOMAIN buf : itimediff(una, buf[i].sn) > 0}
  BY DEF parse_una, Leading
<1>2. /\ left \in Buffer /\ Len(left) = Len(buf) - k
      /\ \A i \in 1..(Len(buf) - k) : left[i] = buf[k + i]
  BY <1>1, RemoveFront DEF Buffer
<1>3. \A i \in 1..Len(buf) : buf[i].sn \in Nat /\ buf[i].sn < snd_nxt[p]
  BY Buffered DEF Segments, IsSeg
<1>4. ASSUME NEW i \in 1..k
      PROVE  buf[i].sn < rcv_nxt[Other(p)]
  <2>1. itimediff(una, buf[i].sn) > 0 /\ i \in 1..Len(buf)
    BY <1>1
  <2>2. 2 * una < SnMod /\ 2 * buf[i].sn < SnMod
    <3>1. snd_nxt[p] \in Nat /\ snd_nxt[p] <= MaxSegs[p] /\ rcv_nxt[Other(p)] \in Nat
      BY Bounds
    <3>2. una <= MaxSegs[p] /\ buf[i].sn <= MaxSegs[p] /\ buf[i].sn \in Nat
      BY <1>3, <2>1, <3>1, Bounds
    <3>3. 2 * MaxSegs[p] < SnMod /\ MaxSegs[p] \in Nat
      BY Bounds, SnAssumption
    <3> QED BY <3>2, <3>3, SnAssumption
  <2>3. una - buf[i].sn > 0
    BY <1>3, <2>1, <2>2, NoWrapDiff
  <2> QED BY <1>3, <2>1, <2>3, Bounds
<1>5. Segments(p, left)
  BY <1>2 DEF Segments, Buffer
<1>6. ASSUME NEW n \in 0..(snd_nxt[p] - 1), ~Has(Other(p), n)
      PROVE  \E i \in 1..Len(left) : left[i].sn = n
  <2>1. PICK i \in 1..Len(buf) : buf[i].sn = n
    BY <1>6 DEF Covers
  <2>2. i \notin 1..k
    BY <1>4, <1>6, <2>1 DEF Has
  <2>3. i - k \in 1..Len(left) /\ left[i - k] = buf[i]
    BY <1>2, <2>1, <2>2 DEF Buffer
  <2> QED BY <2>1, <2>3
<1> QED BY <1>2, <1>5, <1>6 DEF Covers

\* parse_ack: the segment removed is the one acknowledged.
LEMMA ParseAck ==
    ASSUME NoWrap, IInv, NEW p \in Peer,
           NEW buf \in Buffer, Segments(p, buf), Covers(p, buf),
           NEW una, NEW nxt, NEW sn, Has(Other(p), sn),
           NEW left \in parse_ack(buf, una, nxt, sn)
    PROVE  left \in Buffer /\ Segments(p, left) /\ Covers(p, left)
<1>1. CASE left = buf
  BY <1>1
<1>2. CASE \E k \in 1..Len(buf) : buf[k].sn = sn /\ left = RemoveAt(buf, k)
  <2>1. PICK k \in 1..Len(buf) : buf[k].sn = sn /\ left = RemoveAt(buf, k)
    BY <1>2
  <2>2. /\ left \in Buffer /\ Len(left) = Len(buf) - 1
        /\ \A i \in 1..(k - 1) : left[i] = buf[i]
        /\ \A i \in k..(Len(buf) - 1) : left[i] = buf[i + 1]
    BY <2>1, RemovedAt DEF Buffer
  <2>3. \A i \in 1..Len(left) : \E j \in 1..Len(buf) : left[i] = buf[j]
    <3>1. ASSUME NEW i \in 1..Len(left)
          PROVE  \E j \in 1..Len(buf) : left[i] = buf[j]
      <4>1. CASE i < k
        BY <2>2, <4>1 DEF Buffer
      <4>2. CASE i >= k
        <5>1. i + 1 \in 1..Len(buf) /\ left[i] = buf[i + 1]
          BY <2>2, <4>2 DEF Buffer
        <5> QED BY <5>1
      <4> QED BY <4>1, <4>2, <2>2
    <3> QED BY <3>1
  <2>4. Segments(p, left)
    BY <2>3 DEF Segments
  <2>5. ASSUME NEW n \in 0..(snd_nxt[p] - 1), ~Has(Other(p), n)
        PROVE  \E i \in 1..Len(left) : left[i].sn = n
    <3>1. PICK i \in 1..Len(buf) : buf[i].sn = n
      BY <2>5 DEF Covers
    <3>2. i # k
      BY <2>1, <2>5, <3>1
    <3>3. CASE i < k
      BY <2>2, <3>1, <3>3 DEF Buffer
    <3>4. CASE i > k
      <4>1. i - 1 \in 1..Len(left) /\ left[i - 1] = buf[i]
        BY <2>2, <3>4 DEF Buffer
      <4> QED BY <3>1, <4>1
    <3> QED BY <3>2, <3>3, <3>4
  <2> QED BY <2>2, <2>4, <2>5 DEF Covers
<1> QED BY <1>1, <1>2 DEF parse_ack

\* shrink_buf gives a number that is not beyond snd_nxt.
LEMMA ShrinkBuf ==
    ASSUME NoWrap, IInv, NEW p \in Peer, NEW buf \in Buffer, Segments(p, buf)
    PROVE  shrink_buf(buf, snd_nxt[p]) \in Sns /\ shrink_buf(buf, snd_nxt[p]) <= snd_nxt[p]
<1>1. snd_nxt[p] \in Sns /\ snd_nxt[p] \in Nat
  BY Bounds DEF IInv, TypeOK
<1>2. CASE buf = <<>>
  BY <1>1, <1>2 DEF shrink_buf
<1>3. CASE buf # <<>>
  <2>1. 1 \in 1..Len(buf)
    BY <1>3 DEF Buffer
  <2>2. buf[1].sn \in Sns /\ buf[1].sn < snd_nxt[p]
    BY <2>1, Buffered DEF Segments, IsSeg
  <2> QED BY <1>1, <1>3, <2>2, SnAssumption DEF shrink_buf, Sns
<1> QED BY <1>2, <1>3

\* rcv_buf with a segment more has that segment and all it had.
LEMMA InsertedSegment ==
    ASSUME NEW buf \in Buffer, NEW sn \in Sns, NEW item \in Item,
           NEW p \in Peer, Segments(p, buf), IsSeg(p, sn, item),
           NEW more \in Inserted(buf, sn, item)
    PROVE  /\ more \in Buffer /\ Segments(p, more)
           /\ \E k \in 1..Len(more) : more[k].sn = sn
           /\ \A i \in 1..Len(buf) : \E k \in 1..Len(more) : more[k] = buf[i]
<1> DEFINE e == [sn |-> sn, item |-> item]
<1>1. PICK k \in 0..Len(buf) : more = IF k > 0 /\ buf[k].sn = sn THEN buf
                                       ELSE InsertAfter(buf, k, e)
  BY DEF Inserted
<1>2. CASE k > 0 /\ buf[k].sn = sn
  BY <1>1, <1>2
<1>3. CASE ~(k > 0 /\ buf[k].sn = sn)
  <2>1. e \in Segment
    BY DEF Segment
  <2>2. more = InsertAfter(buf, k, e)
    BY <1>1, <1>3
  <2> HIDE DEF e
  <2>3. /\ more \in Buffer /\ Len(more) = Len(buf) + 1
        /\ \A i \in 1..k : more[i] = buf[i]
        /\ more[k + 1] = e
        /\ \A i \in (k + 1)..Len(buf) : more[i + 1] = buf[i]
    BY <2>1, <2>2, InsertedAfter
  <2>4. k + 1 \in 1..Len(more) /\ e.sn = sn /\ e.item = item
    BY <2>3 DEF e, Buffer
  <2>5. ASSUME NEW i \in 1..Len(more)
        PROVE  more[i] = e \/ \E j \in 1..Len(buf) : more[i] = buf[j]
    <3>1. CASE i <= k
      BY <2>3, <3>1
    <3>2. CASE i = k + 1
      BY <2>3, <3>2
    <3>3. CASE i > k + 1
      <4>1. i - 1 \in (k + 1)..Len(buf) /\ i = (i - 1) + 1
        BY <2>3, <3>3 DEF Buffer
      <4>2. more[i] = buf[i - 1]
        BY <2>3, <4>1
      <4> QED BY <4>1, <4>2
    <3> QED BY <3>1, <3>2, <3>3
  <2>6. Segments(p, more)
    BY <2>4, <2>5 DEF Segments
  <2>7. ASSUME NEW i \in 1..Len(buf)
        PROVE  \E j \in 1..Len(more) : more[j] = buf[i]
    <3>1. CASE i <= k
      BY <2>3, <3>1 DEF Buffer
    <3>2. CASE i > k
      <4>1. i \in (k + 1)..Len(buf) /\ i + 1 \in 1..Len(more)
        BY <2>3, <3>2 DEF Buffer
      <4> QED BY <2>3, <4>1
    <3> QED BY <3>1, <3>2
  <2> QED BY <2>3, <2>4, <2>6, <2>7
<1> QED BY <1>2, <1>3

\* What the move loop takes continues what rcv_queue has.
LEMMA ReadySegments ==
    ASSUME NoWrap, IInv, NEW p \in Peer,
           NEW buf \in Buffer, Segments(Other(p), buf),
           NEW k \in 0..Len(buf), \A i \in 1..k : buf[i].sn = Add32(rcv_nxt[p], i - 1)
    PROVE  /\ Add32(rcv_nxt[p], k) = rcv_nxt[p] + k
           /\ rcv_nxt[p] + k <= snd_nxt[Other(p)]
           /\ \A i \in 1..k : /\ buf[i].sn = rcv_nxt[p] + i - 1
                              /\ buf[i].item = sent[Other(p)][rcv_nxt[p] + i]
<1> DEFINE nxt == rcv_nxt[p]
           top == snd_nxt[Other(p)]
<1>1. nxt \in Nat /\ top \in Nat /\ nxt <= top /\ top < SnMod /\ SnMod \in Nat
  <2>1. nxt \in Nat /\ nxt <= top /\ top \in Nat
    BY Peers, Bounds
  <2>2. 2 * top < SnMod
    BY Peers, Bounds
  <2> QED BY <2>1, <2>2, SnAssumption
<1>2. Len(buf) \in Nat /\ k \in Nat /\ k <= Len(buf)
  BY Buffered
<1>3. \A i \in 1..k : /\ i \in 1..Len(buf) /\ buf[i].sn = Add32(nxt, i - 1)
                      /\ buf[i].sn \in Nat /\ buf[i].sn < top
                      /\ buf[i].item = sent[Other(p)][buf[i].sn + 1]
  <2>1. ASSUME NEW i \in 1..k
        PROVE  i \in 1..Len(buf) /\ buf[i].sn = Add32(nxt, i - 1)
    BY <1>2
  <2> QED BY <2>1, Buffered DEF Segments, IsSeg
<1> HIDE DEF nxt, top
<1>4. nxt + k < SnMod
  <2> SUFFICES ASSUME nxt + k >= SnMod
               PROVE  FALSE
    BY <1>1, <1>2
  <2> DEFINE i == SnMod - nxt
  <2>1. i \in 1..k /\ Add32(nxt, i - 1) = SnMod - 1
    BY <1>1, <1>2 DEF Add32
  <2>2. SnMod - 1 < top
    BY <1>3, <2>1
  <2> QED BY <1>1, <2>2
<1>5. \A i \in 1..k : Add32(nxt, i - 1) = nxt + i - 1
  BY <1>1, <1>2, <1>4 DEF Add32
<1>6. Add32(nxt, k) = nxt + k
  BY <1>1, <1>2, <1>4 DEF Add32
<1>7. nxt + k <= top
  <2>1. CASE k = 0
    BY <1>1, <2>1
  <2>2. CASE k > 0
    <3>1. k \in 1..k
      BY <1>2, <2>2
    <3>2. nxt + k - 1 < top
      BY <1>3, <1>5, <3>1
    <3> QED BY <1>1, <1>2, <3>2
  <2> QED BY <1>2, <2>1, <2>2
<1>8. ASSUME NEW i \in 1..k
      PROVE  buf[i].sn = nxt + i - 1 /\ buf[i].item = sent[Other(p)][nxt + i]
  <2>1. buf[i].sn = nxt + i - 1 /\ (nxt + i - 1) + 1 = nxt + i
    BY <1>1, <1>2, <1>3, <1>5
  <2> QED BY <1>3, <2>1
<1> QED BY <1>2, <1>6, <1>7, <1>8 DEF nxt, top

\* After the move loop rcv_queue continues what it was given, and nothing
\* that was in the buffer is lost.
LEMMA Moved ==
    ASSUME NoWrap, IInv, NEW p \in Peer,
           NEW buf \in Buffer, Segments(Other(p), buf),
           NEW queue \in Seq(Item), NEW base \in Nat,
           base + Len(queue) = rcv_nxt[p],
           \A i \in 1..Len(queue) : queue[i] = sent[Other(p)][base + i],
           MoveReady(p, buf, queue)
    PROVE  /\ rcv_nxt' \in [Peer -> Sns] /\ rcv_buf' \in [Peer -> Buffer]
           /\ rcv_queue' \in [Peer -> Seq(Item)]
           /\ \A q \in Peer \ {p} : /\ rcv_nxt'[q] = rcv_nxt[q] /\ rcv_buf'[q] = rcv_buf[q]
                                    /\ rcv_queue'[q] = rcv_queue[q]
           /\ rcv_nxt'[p] = base + Len(rcv_queue'[p])
           /\ rcv_nxt[p] <= rcv_nxt'[p] /\ rcv_nxt'[p] <= snd_nxt[Other(p)]
           /\ \A i \in 1..Len(rcv_queue'[p]) : rcv_queue'[p][i] = sent[Other(p)][base + i]
           /\ Segments(Other(p), rcv_buf'[p])
           /\ \A n \in Nat : n < rcv_nxt[p] \/ (\E i \in 1..Len(buf) : buf[i].sn = n)
                             => Has(p, n)'
<1>1. PICK k \in Ready(buf, rcv_nxt[p], Len(queue), Wnd[p]) :
         /\ rcv_nxt'   = [rcv_nxt EXCEPT ![p] = Add32(@, k)]
         /\ rcv_buf'   = [rcv_buf EXCEPT ![p] = remove_front(buf, k)]
         /\ rcv_queue' = [rcv_queue EXCEPT ![p] = queue \o [i \in 1..k |-> buf[i].item]]
  BY DEF MoveReady
<1> DEFINE items == [i \in 1..k |-> buf[i].item]
           left  == remove_front(buf, k)
<1>2. k \in 0..Len(buf) /\ \A i \in 1..k : buf[i].sn = Add32(rcv_nxt[p], i - 1)
  BY <1>1 DEF Ready, Leading
<1>15. /\ Add32(rcv_nxt[p], k) = rcv_nxt[p] + k
      /\ rcv_nxt[p] + k <= snd_nxt[Other(p)]
      /\ \A i \in 1..k : /\ buf[i].sn = rcv_nxt[p] + i - 1
                         /\ buf[i].item = sent[Other(p)][rcv_nxt[p] + i]
  BY <1>2, ReadySegments
<1>3. items \in Seq(Item) /\ Len(items) = k /\ \A i \in 1..k : items[i] = buf[i].item
  <2>1. k \in Nat /\ \A i \in 1..k : buf[i].item \in Item
    BY <1>2, Buffered
  <2> QED BY <2>1
<1>4. /\ left \in Buffer /\ Len(left) = Len(buf) - k
      /\ \A i \in 1..(Len(buf) - k) : left[i] = buf[k + i]
  BY ZenonT(60), <1>2, RemoveFront DEF Buffer
<1> HIDE DEF items, left
<1>5. /\ queue \o items \in Seq(Item) /\ Len(queue \o items) = Len(queue) + k
      /\ \A i \in 1..Len(queue) : (queue \o items)[i] = queue[i]
      /\ \A i \in 1..k : (queue \o items)[Len(queue) + i] = items[i]
  <2>1. queue \o items \in Seq(Item) /\ Len(queue \o items) = Len(queue) + Len(items)
    BY <1>3, Joined
  <2>2. /\ \A i \in 1..Len(queue) : (queue \o items)[i] = queue[i]
        /\ \A i \in 1..Len(items) : (queue \o items)[Len(queue) + i] = items[i]
    BY <1>3, Joined
  <2> QED BY <1>3, <2>1, <2>2
<1>6. /\ rcv_nxt \in [Peer -> Sns] /\ rcv_buf \in [Peer -> Buffer]
      /\ rcv_queue \in [Peer -> Seq(Item)]
  BY DEF IInv, TypeOK, Buffer, Segment
<1>7. /\ rcv_nxt'[p] = rcv_nxt[p] + k /\ rcv_buf'[p] = left /\ rcv_queue'[p] = queue \o items
      /\ \A q \in Peer \ {p} : /\ rcv_nxt'[q] = rcv_nxt[q] /\ rcv_buf'[q] = rcv_buf[q]
                               /\ rcv_queue'[q] = rcv_queue[q]
  BY <1>1, <1>15, <1>6 DEF items, left
<1>8. rcv_nxt[p] \in Nat /\ k \in Nat /\ Len(queue) \in Nat /\ rcv_nxt[p] + k \in Sns
  <2>1. rcv_nxt[p] \in Nat /\ snd_nxt[Other(p)] \in Sns
    BY Peers, Bounds DEF IInv, TypeOK
  <2>2. k \in Nat /\ Len(queue) \in Nat
    BY <1>2, Buffered
  <2> QED BY <1>15, <2>1, <2>2, SnAssumption DEF Sns
<1>9. /\ rcv_nxt' \in [Peer -> Sns] /\ rcv_buf' \in [Peer -> Buffer]
      /\ rcv_queue' \in [Peer -> Seq(Item)]
  BY <1>1, <1>15, <1>4, <1>5, <1>6, <1>8 DEF items, left
<1>10. /\ rcv_nxt'[p] = base + Len(rcv_queue'[p])
       /\ rcv_nxt[p] <= rcv_nxt'[p] /\ rcv_nxt'[p] <= snd_nxt[Other(p)]
  BY <1>15, <1>5, <1>7, <1>8
<1>11. ASSUME NEW i \in 1..Len(rcv_queue'[p])
       PROVE  rcv_queue'[p][i] = sent[Other(p)][base + i]
  <2>1. CASE i <= Len(queue)
    BY <1>5, <1>7, <1>8, <2>1
  <2>2. CASE i > Len(queue)
    <3>1. i - Len(queue) \in 1..k /\ i = Len(queue) + (i - Len(queue))
      BY <1>5, <1>7, <1>8, <2>2
    <3>2. rcv_queue'[p][i] = items[i - Len(queue)]
      BY <1>5, <1>7, <3>1
    <3>3. items[i - Len(queue)] = sent[Other(p)][rcv_nxt[p] + (i - Len(queue))]
      BY <1>15, <1>3, <3>1
    <3>4. rcv_nxt[p] + (i - Len(queue)) = base + i
      BY <1>8
    <3> QED BY <3>2, <3>3, <3>4
  <2> QED BY <2>1, <2>2, <1>8
<1>12. Segments(Other(p), left)
  <2>1. \A i \in 1..Len(left) : k + i \in 1..Len(buf) /\ left[i] = buf[k + i]
    BY <1>2, <1>4, Buffered
  <2> QED BY <2>1 DEF Segments
<1>13. ASSUME NEW n \in Nat, n < rcv_nxt[p] \/ \E i \in 1..Len(buf) : buf[i].sn = n
       PROVE  n < rcv_nxt'[p] \/ \E i \in 1..Len(left) : left[i].sn = n
  <2>1. CASE n < rcv_nxt[p]
    BY <1>7, <1>8, <2>1
  <2>2. CASE \E i \in 1..Len(buf) : buf[i].sn = n
    <3>1. PICK i \in 1..Len(buf) : buf[i].sn = n
      BY <2>2
    <3>2. CASE i <= k
      BY SMTT(60), <1>2, <1>15, <1>7, <1>8, <3>1, <3>2
    <3>3. CASE i > k
      <4>1. i - k \in 1..Len(left) /\ left[i - k] = buf[i]
        BY <1>2, <1>4, <3>3, Buffered
      <4> QED BY <3>1, <4>1
    <3> QED BY <3>2, <3>3, <1>8
  <2> QED BY <1>13, <2>1, <2>2
<1>14. \A n \in Nat : n < rcv_nxt[p] \/ (\E i \in 1..Len(buf) : buf[i].sn = n) => Has(p, n)'
  BY <1>7, <1>13 DEF Has
<1> QED BY <1>7, <1>9, <1>10, <1>11, <1>12, <1>14

-----------------------------------------------------------------------------
(* Every action keeps the invariant *)

\* An end that receives nothing new keeps what it has.
LEMMA ReceiverStays ==
    ASSUME NoWrap, IInv, UNCHANGED <<rcvVars, snd_nxt, sent, got>>
    PROVE  /\ Grows
           /\ \A p \in Peer : RcvInv(p)'
<1>1. /\ \A p \in Peer : rcv_nxt[p] \in Nat /\ snd_nxt[p] \in Nat /\ Len(sent[p]) \in Nat
  BY Peers, Bounds
<1>2. Grows
  BY <1>1 DEF Grows, Has, rcvVars
<1>3. ASSUME NEW p \in Peer
      PROVE  RcvInv(p)'
  <2>1. RcvInv(p)
    BY DEF IInv, PeerInv
  <2> QED BY <2>1 DEF RcvInv, Segments, IsSeg, rcvVars
<1> QED BY <1>2, <1>3

\* The segments of p under way stay true as long as there are no new ones.
LEMMA WireStays ==
    ASSUME NoWrap, IInv, Grows, TypeOK', NEW p \in Peer,
           net'[Other(p)] \subseteq net[Other(p)],
           busy' = {Other(p)} => \/ busy = busy' /\ rx' \subseteq rx
                                 \/ rx' \in net[Other(p)]
    PROVE  WireInv(p)'
<1>1. WireInv(p) /\ Other(p) \in Peer
  BY Peers DEF IInv, PeerInv
<1>2. net[Other(p)] \in SUBSET SUBSET Wire /\ rx \in SUBSET Wire
  BY <1>1 DEF IInv, TypeOK
<1>3. \A pkt \in net[Other(p)] : \A s \in pkt : SegOK(p, s)'
  BY <1>1, <1>2, Later DEF WireInv
<1>4. busy = {Other(p)} => \A s \in rx : SegOK(p, s)'
  BY <1>1, <1>2, Later DEF WireInv
<1> QED BY <1>3, <1>4 DEF WireInv

\* What p does not keep the peer goes on having.
LEMMA KeptStays ==
    ASSUME NoWrap, IInv, Grows, NEW p \in Peer, snd_nxt'[p] = snd_nxt[p],
           Covers(p, snd_buf'[p])
    PROVE  KeptInv(p)'
<1>1. Other(p) \in Peer /\ snd_nxt[p] \in Nat
  BY Peers, Bounds
<1>2. ASSUME NEW n \in 0..(snd_nxt[p] - 1)
      PROVE  (\E k \in 1..Len(snd_buf'[p]) : snd_buf'[p][k].sn = n) \/ Has(Other(p), n)'
  <2>1. CASE \E k \in 1..Len(snd_buf'[p]) : snd_buf'[p][k].sn = n
    BY <2>1
  <2>2. CASE Has(Other(p), n)
    BY <1>1, <2>2 DEF Grows
  <2> QED BY <2>1, <2>2 DEF Covers
<1> QED BY <1>1, <1>2 DEF KeptInv, Covers

\* The part of the invariant about what p sends.
SenderInv(p) == QueueInv(p) /\ BufInv(p) /\ WireInv(p) /\ KeptInv(p)

\* An end that sends nothing keeps what it holds.
LEMMA SenderStays ==
    ASSUME NoWrap, IInv, Grows, UNCHANGED <<sndVars, sent>>,
           NEW p \in Peer, WireInv(p)'
    PROVE  SenderInv(p)'
<1>1. PeerInv(p) /\ snd_nxt[p] \in Nat
  BY Bounds DEF IInv
<1>2. QueueInv(p)'
  BY <1>1 DEF PeerInv, QueueInv, sndVars
<1>3. BufInv(p)'
  BY <1>1 DEF PeerInv, BufInv, Segments, IsSeg, sndVars
<1>4. KeptInv(p)'
  <2>1. snd_buf'[p] = snd_buf[p] /\ snd_nxt'[p] = snd_nxt[p]
    BY DEF sndVars
  <2>2. Covers(p, snd_buf'[p])
    BY <1>1, <2>1 DEF PeerInv, KeptInv
  <2> QED BY <2>1, <2>2, KeptStays
<1> QED BY <1>2, <1>3, <1>4 DEF SenderInv

\* The acknowledgements stay true: when acklist is left, cleared or given one
\* more that the end has.
LEMMA AckStays ==
    ASSUME NoWrap, IInv, Grows, NEW p \in Peer,
           \/ acklist'[p] = acklist[p]
           \/ acklist'[p] = <<>>
           \/ \E n \in Sns : acklist'[p] = Append(acklist[p], n) /\ Has(p, n)'
    PROVE  AckInv(p)'
<1>1. acklist[p] \in Seq(Sns) /\ Sns \subseteq Nat
  BY SnAssumption DEF IInv, TypeOK, Sns
<1>2. ASSUME NEW i \in 1..Len(acklist[p]), NEW n, n = acklist[p][i]
      PROVE  Has(p, n)'
  <2>1. acklist[p][i] \in Nat
    <3>1. acklist[p][i] \in Sns
      BY <1>1
    <3> QED BY <1>1, <3>1
  <2>2. Has(p, n)
    BY <1>2 DEF IInv, PeerInv, AckInv
  <2> QED BY <1>2, <2>1, <2>2 DEF Grows
<1>3. CASE acklist'[p] = acklist[p]
  BY <1>2, <1>3 DEF AckInv, Has
<1>4. CASE acklist'[p] = <<>>
  BY <1>4 DEF AckInv
<1>5. CASE \E n \in Sns : acklist'[p] = Append(acklist[p], n) /\ Has(p, n)'
  <2>1. PICK n \in Sns : acklist'[p] = Append(acklist[p], n) /\ Has(p, n)'
    BY <1>5
  <2>2. \A i \in 1..Len(acklist'[p]) : \/ i \in 1..Len(acklist[p]) /\ acklist'[p][i] = acklist[p][i]
                                       \/ acklist'[p][i] = n
    BY <1>1, <2>1
  <2> QED BY <1>2, <2>1, <2>2 DEF AckInv, Has
<1> QED BY <1>3, <1>4, <1>5

\* A step of Input on segment s that leaves buf as the send buffer.
LEMMA InputKeeps ==
    ASSUME NoWrap, IInv, NEW p \in Peer, NEW s \in rx, NEW cmd, Take(p, s, cmd),
           NEW buf \in Buffer, Segments(p, buf), Covers(p, buf),
           snd_buf' = [snd_buf EXCEPT ![p] = buf],
           snd_una' = [snd_una EXCEPT ![p] = shrink_buf(buf, snd_nxt[p])],
           probe' \in [Peer -> SUBSET {"ASK", "TELL"}],
           acklist' \in [Peer -> Seq(Sns)],
           rcv_nxt' \in [Peer -> Sns], rcv_buf' \in [Peer -> Buffer],
           rcv_queue' \in [Peer -> Seq(Item)],
           Grows, \A q \in Peer : RcvInv(q)' /\ AckInv(q)'
    PROVE  IInv'
<1>1. shrink_buf(buf, snd_nxt[p]) \in Sns /\ shrink_buf(buf, snd_nxt[p]) <= snd_nxt[p]
  BY ShrinkBuf
<1>2. TypeOK'
  <2>1. /\ snd_buf' \in [Peer -> Buffer] /\ snd_una' \in [Peer -> Sns]
    BY <1>1 DEF IInv, TypeOK, Buffer, Segment
  <2>2. rmt_wnd' \in [Peer -> Nat] /\ rx' \in SUBSET Wire
    BY DEF IInv, TypeOK, Take, Wire
  <2> QED BY <2>1, <2>2 DEF IInv, TypeOK, Take, Buffer, Segment
<1>3. ASSUME NEW q \in Peer
      PROVE  QueueInv(q)'
  BY DEF IInv, PeerInv, QueueInv, Take
<1>4. ASSUME NEW q \in Peer
      PROVE  BufInv(q)'
  <2>1. CASE q = p
    BY <1>1, <2>1 DEF IInv, TypeOK, BufInv, Segments, IsSeg, Take
  <2>2. CASE q # p
    BY <2>2 DEF IInv, TypeOK, PeerInv, BufInv, Segments, IsSeg, Take
  <2> QED BY <2>1, <2>2
<1>5. ASSUME NEW q \in Peer
      PROVE  WireInv(q)'
  <2>1. net'[Other(q)] \subseteq net[Other(q)] /\ busy = busy' /\ rx' \subseteq rx
    BY DEF Take
  <2> QED BY <1>2, <2>1, WireStays
<1>6. ASSUME NEW q \in Peer
      PROVE  KeptInv(q)'
  <2>1. snd_nxt'[q] = snd_nxt[q]
    BY DEF Take
  <2>2. Covers(q, snd_buf'[q])
    BY DEF IInv, TypeOK, PeerInv, KeptInv
  <2> QED BY <2>1, <2>2, KeptStays
<1> QED BY <1>2, <1>3, <1>4, <1>5, <1>6 DEF IInv, PeerInv

\* What Input may rely on about a segment it is processing.
LEMMA Incoming ==
    ASSUME NoWrap, IInv, NEW p \in Peer, busy = {p}, NEW s \in rx
    PROVE  /\ s \in Wire /\ s.una \in Nat /\ s.sn \in Sns /\ s.sn \in Nat /\ s.item \in Item
           /\ s.una <= rcv_nxt[Other(p)]
           /\ s.cmd = "PUSH" => IsSeg(Other(p), s.sn, s.item)
           /\ s.cmd = "ACK" => Has(Other(p), s.sn)
<1>1. s \in Wire
  BY DEF IInv, TypeOK
<1>2. s.una \in Sns /\ s.sn \in Sns /\ s.item \in Item /\ Sns \subseteq Nat
  BY <1>1, SnAssumption DEF Wire, Sns
<1>3. SegOK(Other(p), s)
  BY Peers DEF IInv, PeerInv, WireInv
<1> QED BY <1>1, <1>2, <1>3 DEF SegOK

\* The send buffer of an end satisfies what ParseUna asks for.
LEMMA SendBuffer ==
    ASSUME NoWrap, IInv, NEW p \in Peer
    PROVE  snd_buf[p] \in Buffer /\ Segments(p, snd_buf[p]) /\ Covers(p, snd_buf[p])
BY DEF IInv, TypeOK, PeerInv, BufInv, KeptInv, Buffer, Segment

\* The first part of Input, for every command but ACK.
LEMMA DropAckedKeeps ==
    ASSUME NoWrap, IInv, NEW p \in Peer, busy = {p}, NEW s \in rx, DropAcked(p, s)
    PROVE  \E buf \in Buffer :
              /\ Segments(p, buf) /\ Covers(p, buf)
              /\ snd_buf' = [snd_buf EXCEPT ![p] = buf]
              /\ snd_una' = [snd_una EXCEPT ![p] = shrink_buf(buf, snd_nxt[p])]
<1>1. PICK buf \in parse_una(snd_buf[p], s.una) :
         /\ snd_buf' = [snd_buf EXCEPT ![p] = buf]
         /\ snd_una' = [snd_una EXCEPT ![p] = shrink_buf(buf, snd_nxt[p])]
  BY DEF DropAcked
<1>2. s.una \in Nat /\ s.una <= rcv_nxt[Other(p)]
  BY Incoming
<1>3. buf \in Buffer /\ Segments(p, buf) /\ Covers(p, buf)
  BY <1>1, <1>2, SendBuffer, ParseUna
<1> QED BY <1>1, <1>3

\* A step of Input that changes nothing of the receiver.
LEMMA InputAside ==
    ASSUME NoWrap, IInv, NEW p \in Peer, NEW s \in rx, NEW cmd, Take(p, s, cmd),
           NEW buf \in Buffer, Segments(p, buf), Covers(p, buf),
           snd_buf' = [snd_buf EXCEPT ![p] = buf],
           snd_una' = [snd_una EXCEPT ![p] = shrink_buf(buf, snd_nxt[p])],
           probe' \in [Peer -> SUBSET {"ASK", "TELL"}],
           \/ acklist' = acklist
           \/ Has(p, s.sn) /\ acklist' = [acklist EXCEPT ![p] = Append(@, s.sn)],
           UNCHANGED rcvVars
    PROVE  IInv'
<1>1. UNCHANGED <<snd_nxt, sent, got>> /\ busy = {p}
  BY DEF Take
<1>2. Grows /\ \A q \in Peer : RcvInv(q)'
  BY <1>1, ReceiverStays
<1>3. s.sn \in Sns /\ s.sn \in Nat
  BY <1>1, Incoming
<1>4. acklist \in [Peer -> Seq(Sns)]
  BY DEF IInv, TypeOK
<1>5. ASSUME NEW q \in Peer
      PROVE  AckInv(q)'
  <2>1. CASE acklist'[q] = acklist[q]
    BY <1>2, <2>1, AckStays
  <2>2. CASE acklist'[q] # acklist[q]
    <3>1. q = p /\ Has(p, s.sn) /\ acklist'[p] = Append(acklist[p], s.sn)
      BY <1>4, <2>2
    <3>2. Has(p, s.sn)'
      BY <3>1 DEF Has, rcvVars
    <3>3. ASSUME NEW n, n = s.sn
          PROVE  n \in Sns /\ acklist'[q] = Append(acklist[q], n) /\ Has(q, n)'
      <4>1. Has(p, n)
        BY <3>1, <3>3
      <4> QED BY <1>2, <1>3, <3>1, <3>3, <4>1 DEF Grows
    <3> QED BY <1>2, <3>3, AckStays
  <2> QED BY <2>1, <2>2
<1>6. acklist' \in [Peer -> Seq(Sns)]
  <2>1. Append(acklist[p], s.sn) \in Seq(Sns)
    BY <1>3, <1>4
  <2> QED BY <1>4, <2>1
<1>7. rcv_nxt' \in [Peer -> Sns] /\ rcv_buf' \in [Peer -> Buffer] /\ rcv_queue' \in [Peer -> Seq(Item)]
  BY DEF IInv, TypeOK, rcvVars, Buffer, Segment
<1> QED BY <1>2, <1>5, <1>6, <1>7, InputKeeps

\* An acknowledgement keeps the invariant.
LEMMA InputAckKeeps ==
    ASSUME NoWrap, IInv, NEW p \in Peer, InputAck(p)
    PROVE  IInv'
<1>1. PICK s \in rx :
        /\ Take(p, s, "ACK")
        /\ \E old \in parse_una(snd_buf[p], s.una) :
           \E buf \in parse_ack(old, shrink_buf(old, snd_nxt[p]), snd_nxt[p], s.sn) :
              /\ snd_buf' = [snd_buf EXCEPT ![p] = buf]
              /\ snd_una' = [snd_una EXCEPT ![p] = shrink_buf(buf, snd_nxt[p])]
        /\ UNCHANGED <<rcvVars, probe, acklist>>
  BY DEF InputAck
<1>2. PICK old \in parse_una(snd_buf[p], s.una) :
           \E buf \in parse_ack(old, shrink_buf(old, snd_nxt[p]), snd_nxt[p], s.sn) :
              /\ snd_buf' = [snd_buf EXCEPT ![p] = buf]
              /\ snd_una' = [snd_una EXCEPT ![p] = shrink_buf(buf, snd_nxt[p])]
  BY <1>1
<1>3. PICK buf \in parse_ack(old, shrink_buf(old, snd_nxt[p]), snd_nxt[p], s.sn) :
              /\ snd_buf' = [snd_buf EXCEPT ![p] = buf]
              /\ snd_una' = [snd_una EXCEPT ![p] = shrink_buf(buf, snd_nxt[p])]
  BY <1>2
<1>4. s.cmd = "ACK" /\ busy = {p}
  BY <1>1 DEF Take
<1>5. s.una \in Nat /\ s.una <= rcv_nxt[Other(p)] /\ Has(Other(p), s.sn)
  BY <1>4, Incoming
<1>6. old \in Buffer /\ Segments(p, old) /\ Covers(p, old)
  BY <1>5, SendBuffer, ParseUna
<1>7. buf \in Buffer /\ Segments(p, buf) /\ Covers(p, buf)
  BY <1>5, <1>6, ParseAck
<1>8. probe' \in [Peer -> SUBSET {"ASK", "TELL"}] /\ acklist' = acklist /\ UNCHANGED rcvVars
  BY <1>1 DEF IInv, TypeOK
<1> QED BY <1>1, <1>3, <1>7, <1>8, InputAside

\* A repeated segment keeps it: it is acknowledged because p has it.
LEMMA InputRepeatKeeps ==
    ASSUME NoWrap, IInv, NEW p \in Peer, InputRepeat(p)
    PROVE  IInv'
<1>1. PICK s \in rx :
        /\ Take(p, s, "PUSH") /\ DropAcked(p, s)
        /\ itimediff(s.sn, rcv_nxt[p]) < 0
        /\ acklist' = [acklist EXCEPT ![p] = Append(@, s.sn)]
        /\ UNCHANGED <<rcvVars, probe>>
  BY DEF InputRepeat
<1>2. s.cmd = "PUSH" /\ busy = {p}
  BY <1>1 DEF Take
<1>3. PICK buf \in Buffer :
              /\ Segments(p, buf) /\ Covers(p, buf)
              /\ snd_buf' = [snd_buf EXCEPT ![p] = buf]
              /\ snd_una' = [snd_una EXCEPT ![p] = shrink_buf(buf, snd_nxt[p])]
  BY <1>1, <1>2, DropAckedKeeps
<1>4. Has(p, s.sn)
  <2>1. s.sn \in Nat /\ s.sn < snd_nxt[Other(p)]
    BY <1>2, Incoming DEF IsSeg
  <2>2. rcv_nxt[p] \in Nat /\ 2 * rcv_nxt[p] < SnMod /\ 2 * s.sn < SnMod
    <3>1. /\ rcv_nxt[p] \in Nat /\ rcv_nxt[p] <= snd_nxt[Other(p)]
          /\ snd_nxt[Other(p)] \in Nat /\ 2 * snd_nxt[Other(p)] < SnMod
      BY Peers, Bounds
    <3> QED BY <2>1, <3>1, SnAssumption
  <2>3. s.sn - rcv_nxt[p] < 0
    BY <1>1, <2>1, <2>2, NoWrapDiff
  <2> QED BY <2>1, <2>2, <2>3 DEF Has
<1>5. probe' \in [Peer -> SUBSET {"ASK", "TELL"}] /\ UNCHANGED rcvVars
  BY <1>1 DEF IInv, TypeOK
<1> QED BY <1>1, <1>3, <1>4, <1>5, InputAside

\* A segment beyond the window keeps it.
LEMMA InputBeyondKeeps ==
    ASSUME NoWrap, IInv, NEW p \in Peer, InputBeyond(p)
    PROVE  IInv'
<1>1. PICK s \in rx : /\ Take(p, s, "PUSH") /\ DropAcked(p, s)
                      /\ UNCHANGED <<rcvVars, probe, acklist>>
  BY DEF InputBeyond
<1>2. busy = {p}
  BY <1>1 DEF Take
<1>3. PICK buf \in Buffer :
              /\ Segments(p, buf) /\ Covers(p, buf)
              /\ snd_buf' = [snd_buf EXCEPT ![p] = buf]
              /\ snd_una' = [snd_una EXCEPT ![p] = shrink_buf(buf, snd_nxt[p])]
  BY <1>1, <1>2, DropAckedKeeps
<1>4. probe' \in [Peer -> SUBSET {"ASK", "TELL"}] /\ acklist' = acklist /\ UNCHANGED rcvVars
  BY <1>1 DEF IInv, TypeOK
<1> QED BY <1>1, <1>3, <1>4, InputAside

\* A question for the window keeps it.
LEMMA InputWaskKeeps ==
    ASSUME NoWrap, IInv, NEW p \in Peer, InputWask(p)
    PROVE  IInv'
<1>1. PICK s \in rx : /\ Take(p, s, "WASK") /\ DropAcked(p, s)
                      /\ probe' = [probe EXCEPT ![p] = @ \cup {"TELL"}]
                      /\ UNCHANGED <<rcvVars, acklist>>
  BY DEF InputWask
<1>2. busy = {p}
  BY <1>1 DEF Take
<1>3. PICK buf \in Buffer :
              /\ Segments(p, buf) /\ Covers(p, buf)
              /\ snd_buf' = [snd_buf EXCEPT ![p] = buf]
              /\ snd_una' = [snd_una EXCEPT ![p] = shrink_buf(buf, snd_nxt[p])]
  BY <1>1, <1>2, DropAckedKeeps
<1>4. probe' \in [Peer -> SUBSET {"ASK", "TELL"}] /\ acklist' = acklist /\ UNCHANGED rcvVars
  BY <1>1 DEF IInv, TypeOK
<1> QED BY <1>1, <1>3, <1>4, InputAside

\* An answer to it keeps it.
LEMMA InputWinsKeeps ==
    ASSUME NoWrap, IInv, NEW p \in Peer, InputWins(p)
    PROVE  IInv'
<1>1. PICK s \in rx : /\ Take(p, s, "WINS") /\ DropAcked(p, s)
                      /\ UNCHANGED <<rcvVars, probe, acklist>>
  BY DEF InputWins
<1>2. busy = {p}
  BY <1>1 DEF Take
<1>3. PICK buf \in Buffer :
              /\ Segments(p, buf) /\ Covers(p, buf)
              /\ snd_buf' = [snd_buf EXCEPT ![p] = buf]
              /\ snd_una' = [snd_una EXCEPT ![p] = shrink_buf(buf, snd_nxt[p])]
  BY <1>1, <1>2, DropAckedKeeps
<1>4. probe' \in [Peer -> SUBSET {"ASK", "TELL"}] /\ acklist' = acklist /\ UNCHANGED rcvVars
  BY <1>1 DEF IInv, TypeOK
<1> QED BY <1>1, <1>3, <1>4, InputAside

\* A step that only the receiver p takes notice of: rcv_nxt, rcv_buf and
\* rcv_queue of p change as Moved says, and what was handed over with them.
LEMMA ReceiverMoves ==
    ASSUME NoWrap, IInv, NEW p \in Peer, UNCHANGED <<snd_nxt, sent>>,
           rcv_nxt' \in [Peer -> Sns], got' \in [Peer -> Seq(Item)],
           \A q \in Peer \ {p} : /\ rcv_nxt'[q] = rcv_nxt[q] /\ rcv_buf'[q] = rcv_buf[q]
                                 /\ rcv_queue'[q] = rcv_queue[q] /\ got'[q] = got[q],
           rcv_nxt'[p] = Len(got'[p]) + Len(rcv_queue'[p]),
           rcv_nxt[p] <= rcv_nxt'[p], rcv_nxt'[p] <= snd_nxt[Other(p)],
           \A i \in 1..Len(got'[p]) : got'[p][i] = sent[Other(p)][i],
           \A i \in 1..Len(rcv_queue'[p]) :
              rcv_queue'[p][i] = sent[Other(p)][Len(got'[p]) + i],
           Segments(Other(p), rcv_buf'[p]),
           \A n \in Nat : Has(p, n) => Has(p, n)'
    PROVE  Grows /\ \A q \in Peer : RcvInv(q)'
<1>1. \A q \in Peer : rcv_nxt[q] \in Nat /\ snd_nxt[q] \in Nat /\ Len(sent[q]) \in Nat
  BY Peers, Bounds
<1>2. ASSUME NEW q \in Peer
      PROVE  /\ rcv_nxt[q] <= rcv_nxt'[q]
             /\ \A n \in Nat : Has(q, n) => Has(q, n)'
  <2>1. CASE q = p
    BY <2>1
  <2>2. CASE q # p
    BY <1>1, <2>2 DEF Has
  <2> QED BY <2>1, <2>2
<1>3. Grows
  BY <1>1, <1>2 DEF Grows
<1>4. ASSUME NEW q \in Peer
      PROVE  RcvInv(q)'
  <2>1. CASE q = p
    BY <2>1 DEF RcvInv, Segments, IsSeg
  <2>2. CASE q # p
    <3>1. RcvInv(q)
      BY DEF IInv, PeerInv
    <3> QED BY ZenonT(60), <2>2, <3>1 DEF RcvInv, Segments, IsSeg
  <2> QED BY <2>1, <2>2
<1> QED BY <1>3, <1>4

\* A data segment of the window keeps the invariant.
LEMMA InputDataKeeps ==
    ASSUME NoWrap, IInv, NEW p \in Peer, InputData(p)
    PROVE  IInv'
<1>1. PICK s \in rx :
        /\ Take(p, s, "PUSH") /\ DropAcked(p, s)
        /\ acklist' = [acklist EXCEPT ![p] = Append(@, s.sn)]
        /\ \E more \in Inserted(rcv_buf[p], s.sn, s.item) : MoveReady(p, more, rcv_queue[p])
        /\ UNCHANGED probe
  BY DEF InputData
<1>2. PICK more \in Inserted(rcv_buf[p], s.sn, s.item) : MoveReady(p, more, rcv_queue[p])
  BY <1>1
<1>3. s.cmd = "PUSH" /\ busy = {p} /\ UNCHANGED <<snd_nxt, sent, got>>
  BY <1>1 DEF Take
<1>4. s.sn \in Sns /\ s.sn \in Nat /\ s.item \in Item /\ IsSeg(Other(p), s.sn, s.item)
  BY <1>3, Incoming
<1>5. PICK sbuf \in Buffer :
              /\ Segments(p, sbuf) /\ Covers(p, sbuf)
              /\ snd_buf' = [snd_buf EXCEPT ![p] = sbuf]
              /\ snd_una' = [snd_una EXCEPT ![p] = shrink_buf(sbuf, snd_nxt[p])]
  BY <1>1, <1>3, DropAckedKeeps
<1>6. /\ rcv_buf[p] \in Buffer /\ rcv_queue[p] \in Seq(Item) /\ got \in [Peer -> Seq(Item)]
      /\ acklist \in [Peer -> Seq(Sns)]
  BY DEF IInv, TypeOK, Buffer, Segment
<1>7. RcvInv(p)
  BY DEF IInv, PeerInv
<1>8. /\ more \in Buffer /\ Segments(Other(p), more)
      /\ \E k \in 1..Len(more) : more[k].sn = s.sn
      /\ \A i \in 1..Len(rcv_buf[p]) : \E k \in 1..Len(more) : more[k] = rcv_buf[p][i]
  <2>1. Segments(Other(p), rcv_buf[p]) /\ Other(p) \in Peer
    BY <1>7, Peers DEF RcvInv
  <2>2. ASSUME NEW q \in Peer, Segments(q, rcv_buf[p]), IsSeg(q, s.sn, s.item)
        PROVE  /\ more \in Buffer /\ Segments(q, more)
               /\ \E k \in 1..Len(more) : more[k].sn = s.sn
               /\ \A i \in 1..Len(rcv_buf[p]) : \E k \in 1..Len(more) : more[k] = rcv_buf[p][i]
    <3> DEFINE sn   == s.sn
               item == s.item
               buf  == rcv_buf[p]
    <3>1. /\ sn \in Sns /\ item \in Item /\ buf \in Buffer /\ more \in Inserted(buf, sn, item)
          /\ Segments(q, buf) /\ IsSeg(q, sn, item)
      BY <1>2, <1>4, <1>6, <2>2
    <3> HIDE DEF sn, item, buf
    <3>2. /\ more \in Buffer /\ Segments(q, more)
          /\ \E k \in 1..Len(more) : more[k].sn = sn
          /\ \A i \in 1..Len(buf) : \E k \in 1..Len(more) : more[k] = buf[i]
      BY <3>1, InsertedSegment
    <3> QED BY <3>2 DEF sn, buf
  <2> QED BY <1>4, <2>1, <2>2
<1>9. /\ rcv_nxt' \in [Peer -> Sns] /\ rcv_buf' \in [Peer -> Buffer]
      /\ rcv_queue' \in [Peer -> Seq(Item)]
      /\ \A q \in Peer \ {p} : /\ rcv_nxt'[q] = rcv_nxt[q] /\ rcv_buf'[q] = rcv_buf[q]
                               /\ rcv_queue'[q] = rcv_queue[q]
      /\ rcv_nxt'[p] = Len(got[p]) + Len(rcv_queue'[p])
      /\ rcv_nxt[p] <= rcv_nxt'[p] /\ rcv_nxt'[p] <= snd_nxt[Other(p)]
      /\ \A i \in 1..Len(rcv_queue'[p]) : rcv_queue'[p][i] = sent[Other(p)][Len(got[p]) + i]
      /\ Segments(Other(p), rcv_buf'[p])
      /\ \A n \in Nat : n < rcv_nxt[p] \/ (\E i \in 1..Len(more) : more[i].sn = n)
                        => Has(p, n)'
  <2>1. /\ Len(got[p]) \in Nat /\ Len(got[p]) + Len(rcv_queue[p]) = rcv_nxt[p]
        /\ \A i \in 1..Len(rcv_queue[p]) : rcv_queue[p][i] = sent[Other(p)][Len(got[p]) + i]
    BY <1>6, <1>7 DEF RcvInv
  <2> QED BY <1>2, <1>6, <1>8, <2>1, Moved
<1>10. ASSUME NEW n \in Nat, Has(p, n) \/ n = s.sn
       PROVE  Has(p, n)'
  <2>1. n < rcv_nxt[p] \/ \E i \in 1..Len(more) : more[i].sn = n
    BY <1>8, <1>10 DEF Has
  <2> QED BY <1>9, <2>1
<1>11. Grows /\ \A q \in Peer : RcvInv(q)'
  <2>1. got' \in [Peer -> Seq(Item)] /\ got' = got
    BY <1>3, <1>6
  <2>2. \A i \in 1..Len(got[p]) : got[p][i] = sent[Other(p)][i]
    BY <1>7 DEF RcvInv
  <2> QED BY <1>3, <1>9, <1>10, <2>1, <2>2, ReceiverMoves
<1>12. ASSUME NEW q \in Peer
       PROVE  AckInv(q)'
  <2>1. CASE q = p
    <3>1. ASSUME NEW n, n = s.sn
          PROVE  n \in Sns /\ acklist'[p] = Append(acklist[p], n) /\ Has(p, n)'
      BY <1>1, <1>4, <1>6, <1>10, <3>1
    <3> QED BY <1>11, <2>1, <3>1, AckStays
  <2>2. CASE q # p
    <3>1. acklist'[q] = acklist[q]
      BY <1>1, <1>6, <2>2
    <3> QED BY <1>11, <3>1, AckStays
  <2> QED BY <2>1, <2>2
<1>13. acklist' \in [Peer -> Seq(Sns)]
  <2>1. Append(acklist[p], s.sn) \in Seq(Sns)
    BY <1>4, <1>6
  <2> QED BY <1>1, <1>6, <2>1
<1>14. probe' \in [Peer -> SUBSET {"ASK", "TELL"}]
  BY <1>1 DEF IInv, TypeOK
<1> QED BY <1>1, <1>5, <1>9, <1>11, <1>12, <1>13, <1>14, InputKeeps

\* Handing a message over keeps the invariant.
LEMMA RecvKeeps ==
    ASSUME NoWrap, IInv, NEW p \in Peer, Recv(p)
    PROVE  IInv'
<1>1. PICK n \in MessageLen(rcv_queue[p]) :
          /\ got' = [got EXCEPT ![p] = @ \o SubSeq(rcv_queue[p], 1, n)]
          /\ MoveReady(p, rcv_buf[p], remove_front(rcv_queue[p], n))
  BY DEF Recv
<1>2. /\ UNCHANGED <<sndVars, rmt_wnd, probing, acklist, busy, rx, net, sent>>
      /\ UNCHANGED <<snd_nxt, sent>>
  BY DEF Recv, sndVars
<1>3. /\ rcv_buf[p] \in Buffer /\ rcv_queue[p] \in Seq(Item) /\ got \in [Peer -> Seq(Item)]
      /\ n \in 1..Len(rcv_queue[p])
  <2>1. /\ rcv_buf[p] \in Buffer /\ rcv_queue[p] \in Seq(Item) /\ got \in [Peer -> Seq(Item)]
    BY DEF IInv, TypeOK, Buffer, Segment
  <2>2. n \in DOMAIN rcv_queue[p]
    BY <1>1 DEF MessageLen
  <2> QED BY <2>1, <2>2
<1>4. RcvInv(p) /\ Other(p) \in Peer
  BY Peers DEF IInv, PeerInv
<1> DEFINE msg   == SubSeq(rcv_queue[p], 1, n)
           queue == remove_front(rcv_queue[p], n)
           base  == Len(got[p]) + n
<1>5. msg \in Seq(Item) /\ Len(msg) = n /\ \A i \in 1..n : msg[i] = rcv_queue[p][i]
  BY <1>3
<1>6. /\ queue \in Seq(Item) /\ Len(queue) = Len(rcv_queue[p]) - n
      /\ \A i \in 1..(Len(rcv_queue[p]) - n) : queue[i] = rcv_queue[p][n + i]
  <2>1. n \in 0..Len(rcv_queue[p]) /\ rcv_queue[p] \in Seq(Item)
    BY <1>3
  <2> QED BY <2>1, RemoveFront
<1>7. got' = [got EXCEPT ![p] = @ \o msg] /\ MoveReady(p, rcv_buf[p], queue)
  BY <1>1
<1> HIDE DEF msg, queue
<1>8. /\ got[p] \o msg \in Seq(Item) /\ Len(got[p] \o msg) = Len(got[p]) + Len(msg)
      /\ \A i \in 1..Len(got[p]) : (got[p] \o msg)[i] = got[p][i]
      /\ \A i \in 1..Len(msg) : (got[p] \o msg)[Len(got[p]) + i] = msg[i]
  <2>1. got[p] \in Seq(Item)
    BY <1>3
  <2>2. got[p] \o msg \in Seq(Item) /\ Len(got[p] \o msg) = Len(got[p]) + Len(msg)
    BY <1>5, <2>1
  <2>3. /\ \A i \in 1..Len(got[p]) : (got[p] \o msg)[i] = got[p][i]
        /\ \A i \in 1..Len(msg) : (got[p] \o msg)[Len(got[p]) + i] = msg[i]
    BY <1>5, <2>1
  <2> QED BY <2>2, <2>3
<1>9. /\ got' \in [Peer -> Seq(Item)] /\ got'[p] = got[p] \o msg
      /\ \A q \in Peer \ {p} : got'[q] = got[q]
  BY <1>3, <1>7, <1>8
<1>10. /\ Len(got[p]) \in Nat /\ n \in Nat /\ Len(rcv_queue[p]) \in Nat /\ base \in Nat
       /\ Len(got'[p]) = base /\ base + Len(queue) = rcv_nxt[p]
  <2>1. got[p] \in Seq(Item) /\ rcv_queue[p] \in Seq(Item) /\ n \in 1..Len(rcv_queue[p])
    BY <1>3
  <2>2. Len(got[p]) \in Nat /\ n \in Nat /\ Len(rcv_queue[p]) \in Nat
    BY <2>1
  <2>3. Len(got'[p]) = base
    BY <1>5, <1>8, <1>9
  <2>4. rcv_nxt[p] = Len(got[p]) + Len(rcv_queue[p])
    BY <1>4 DEF RcvInv
  <2>5. Len(queue) = Len(rcv_queue[p]) - n
    BY <1>6
  <2>6. base + Len(queue) = rcv_nxt[p] /\ base \in Nat
    <3>1. \A a, b, c \in Nat : (a + c) + (b - c) = a + b /\ a + c \in Nat
      OBVIOUS
    <3>2. base + (Len(rcv_queue[p]) - n) = Len(got[p]) + Len(rcv_queue[p]) /\ base \in Nat
      BY ZenonT(60), <2>2, <3>1
    <3> QED BY <2>4, <2>5, <3>2
  <2> QED BY <2>2, <2>3, <2>6
<1>11. \A i \in 1..Len(queue) : queue[i] = sent[Other(p)][base + i]
  <2>1. ASSUME NEW i \in 1..Len(queue)
        PROVE  queue[i] = sent[Other(p)][base + i]
    <3>1. queue[i] = rcv_queue[p][n + i] /\ n + i \in 1..Len(rcv_queue[p])
      BY <1>6, <1>10
    <3>2. rcv_queue[p][n + i] = sent[Other(p)][Len(got[p]) + (n + i)]
      BY <1>4, <3>1 DEF RcvInv
    <3>3. Len(got[p]) + (n + i) = base + i
      BY <1>6, <1>10
    <3> QED BY <3>1, <3>2, <3>3
  <2> QED BY <2>1
<1>12. \A i \in 1..Len(got'[p]) : got'[p][i] = sent[Other(p)][i]
  <2>1. ASSUME NEW i \in 1..Len(got'[p])
        PROVE  got'[p][i] = sent[Other(p)][i]
    <3>1. CASE i <= Len(got[p])
      BY <1>4, <1>8, <1>9, <1>10, <3>1 DEF RcvInv
    <3>2. CASE i > Len(got[p])
      <4>1. i - Len(got[p]) \in 1..n /\ i = Len(got[p]) + (i - Len(got[p]))
        BY <1>10, <3>2
      <4>2. got'[p][i] = rcv_queue[p][i - Len(got[p])]
        BY <1>5, <1>8, <1>9, <4>1
      <4>3. i - Len(got[p]) \in 1..Len(rcv_queue[p])
        BY <1>3, <1>10, <4>1
      <4> QED BY <1>4, <4>1, <4>2, <4>3 DEF RcvInv
    <3> QED BY <1>10, <3>1, <3>2
  <2> QED BY <2>1
<1> HIDE DEF base
<1>13. /\ rcv_nxt' \in [Peer -> Sns] /\ rcv_buf' \in [Peer -> Buffer]
       /\ rcv_queue' \in [Peer -> Seq(Item)]
       /\ \A q \in Peer \ {p} : /\ rcv_nxt'[q] = rcv_nxt[q] /\ rcv_buf'[q] = rcv_buf[q]
                                /\ rcv_queue'[q] = rcv_queue[q]
       /\ rcv_nxt'[p] = base + Len(rcv_queue'[p])
       /\ rcv_nxt[p] <= rcv_nxt'[p] /\ rcv_nxt'[p] <= snd_nxt[Other(p)]
       /\ \A i \in 1..Len(rcv_queue'[p]) : rcv_queue'[p][i] = sent[Other(p)][base + i]
       /\ Segments(Other(p), rcv_buf'[p])
       /\ \A n1 \in Nat : n1 < rcv_nxt[p] \/ (\E i \in 1..Len(rcv_buf[p]) : rcv_buf[p][i].sn = n1)
                          => Has(p, n1)'
  <2>1. Segments(Other(p), rcv_buf[p])
    BY <1>4 DEF RcvInv
  <2> QED BY ZenonT(60), <1>3, <1>6, <1>7, <1>10, <1>11, <2>1, Moved
<1>14. Grows /\ \A q \in Peer : RcvInv(q)'
  <2>1. \A n1 \in Nat : Has(p, n1) => Has(p, n1)'
    BY <1>13 DEF Has
  <2> QED BY <1>2, <1>9, <1>10, <1>12, <1>13, <2>1, ReceiverMoves
<1>15. TypeOK'
  <2>1. probe' \in [Peer -> SUBSET {"ASK", "TELL"}]
    BY DEF IInv, TypeOK, Recv
  <2> QED BY <1>2, <1>9, <1>13, <2>1 DEF IInv, TypeOK, sndVars, Buffer, Segment
<1>16. ASSUME NEW q \in Peer
       PROVE  SenderInv(q)'
  <2>1. net'[Other(q)] \subseteq net[Other(q)] /\ busy = busy' /\ rx' \subseteq rx
    BY <1>2
  <2>2. WireInv(q)'
    BY <1>14, <1>15, <2>1, WireStays
  <2> QED BY <1>2, <1>14, <2>2, SenderStays
<1>17. ASSUME NEW q \in Peer
       PROVE  AckInv(q)'
  <2>1. acklist'[q] = acklist[q]
    BY <1>2
  <2> QED BY <1>14, <2>1, AckStays
<1> QED BY <1>14, <1>15, <1>16, <1>17 DEF IInv, PeerInv, SenderInv

\* The arrival of a packet keeps the invariant.
LEMMA ReceiveKeeps ==
    ASSUME NoWrap, IInv, NEW p \in Peer, Receive(p)
    PROVE  IInv'
<1>1. PICK pkt \in net[p] : \E again \in BOOLEAN :
          /\ busy' = {p}
          /\ rx' = pkt
          /\ net' = IF again THEN net ELSE [net EXCEPT ![p] = @ \ {pkt}]
  BY DEF Receive
<1>2. UNCHANGED <<sndVars, rcvVars, ctlVars, acklist, sent, got>> /\ UNCHANGED snd_nxt
  BY DEF Receive, sndVars
<1>3. net \in [Peer -> SUBSET SUBSET Wire]
  BY DEF IInv, TypeOK
<1>4. /\ net' \in [Peer -> SUBSET SUBSET Wire] /\ rx' \in SUBSET Wire /\ busy' \in SUBSET Peer
      /\ \A q \in Peer : net'[q] \subseteq net[q]
  BY <1>1, <1>3
<1>5. TypeOK'
  BY <1>2, <1>4 DEF IInv, TypeOK, sndVars, rcvVars, ctlVars
<1>6. Grows /\ \A q \in Peer : RcvInv(q)'
  BY <1>2, ReceiverStays
<1>7. ASSUME NEW q \in Peer
      PROVE  SenderInv(q)' /\ AckInv(q)'
  <2>1. net'[Other(q)] \subseteq net[Other(q)] /\ (busy' = {Other(q)} => rx' \in net[Other(q)])
    BY <1>1, <1>4, Peers
  <2>2. WireInv(q)'
    BY <1>5, <1>6, <2>1, WireStays
  <2>3. acklist'[q] = acklist[q]
    BY <1>2
  <2> QED BY <1>2, <1>6, <2>2, <2>3, SenderStays, AckStays
<1> QED BY <1>5, <1>6, <1>7 DEF IInv, PeerInv, SenderInv

\* What every segment that goes out carries.
LEMMA Header ==
    ASSUME IInv, NEW p \in Peer
    PROVE  /\ rcv_nxt[p] \in Sns /\ rcv_nxt[p] \in Nat /\ 0 \in Sns
           /\ wnd_unused(p) \in Nat /\ NoItem \in Item
<1>1. rcv_nxt[p] \in Sns /\ Sns \subseteq Nat /\ Len(rcv_queue[p]) \in Nat /\ Wnd[p] \in Nat
  BY SnAssumption, WndAssumption DEF IInv, TypeOK, Sns
<1>2. wnd_unused(p) \in Nat
  BY <1>1 DEF wnd_unused
<1>3. NoItem \in Item
  BY DEF NoItem, Item
<1>4. 0 \in Sns
  BY SnAssumption DEF Sns
<1> QED BY <1>1, <1>2, <1>3, <1>4

\* What flush sends as acknowledgement is true.
LEMMA TrueAcks ==
    ASSUME NoWrap, IInv, NEW p \in Peer
    PROVE  \A s \in AckSegs(p) : s \in Wire /\ SegOK(p, s)
<1>1. /\ rcv_nxt[p] \in Sns /\ rcv_nxt[p] \in Nat /\ wnd_unused(p) \in Nat /\ NoItem \in Item
  BY Header
<1>2. ASSUME NEW i \in 1..Len(acklist[p])
      PROVE  LET s == Seg("ACK", acklist[p][i], NoItem, rcv_nxt[p], wnd_unused(p))
             IN  s \in Wire /\ SegOK(p, s)
  <2>1. acklist[p][i] \in Sns /\ Has(p, acklist[p][i])
    BY DEF IInv, TypeOK, PeerInv, AckInv
  <2> QED BY <1>1, <2>1 DEF Seg, Wire, SegOK
<1>3. acklist[p] \in Seq(Sns)
  BY DEF IInv, TypeOK
<1> QED BY <1>2, <1>3 DEF AckSegs

\* So are the probes.
LEMMA TrueProbes ==
    ASSUME NoWrap, IInv, NEW p \in Peer, NEW flags
    PROVE  \A s \in ProbeSegs(p, flags) : s \in Wire /\ SegOK(p, s)
BY Header DEF ProbeSegs, Seg, Wire, SegOK

\* A data segment acknowledges truly and carries what it is made of.
LEMMA TruePushes ==
    ASSUME NoWrap, IInv, NEW p \in Peer, NEW segs \in SUBSET Segment
    PROVE  \A s \in PushSegs(p, segs) :
              /\ s \in Wire /\ s.cmd = "PUSH" /\ s.una = rcv_nxt[p]
              /\ \E x \in segs : s.sn = x.sn /\ s.item = x.item
BY Header DEF PushSegs, Seg, Wire, Segment

\* Only true segments go out: then all that are under way are true.
LEMMA Outgoing ==
    ASSUME NoWrap, IInv, NEW p \in Peer, NEW segs \in SUBSET Wire, NEW fate,
           Transmit(Other(p), segs, fate)
    PROVE  /\ net' \in [Peer -> SUBSET SUBSET Wire]
           /\ Grows /\ TypeOK' /\ rx' = rx /\ busy' \in {busy, {}}
              /\ (\A s \in segs : SegOK(p, s)') => \A q \in Peer : WireInv(q)'
<1>1. Other(p) \in Peer /\ net \in [Peer -> SUBSET SUBSET Wire]
  BY Peers DEF IInv, TypeOK
<1>2. Packets(Other(p), segs, fate) \in SUBSET SUBSET segs
  BY DEF Packets
<1>3. /\ net' \in [Peer -> SUBSET SUBSET Wire]
      /\ net'[Other(p)] = net[Other(p)] \cup Packets(Other(p), segs, fate)
      /\ \A q \in Peer : q # Other(p) => net'[q] = net[q]
  BY <1>1, <1>2 DEF Transmit
<1>4. ASSUME Grows, TypeOK', rx' = rx, busy' \in {busy, {}},
             \A s \in segs : SegOK(p, s)',
             NEW q \in Peer
      PROVE  WireInv(q)'
  <2>1. WireInv(q) /\ Other(q) \in Peer
    BY Peers DEF IInv, PeerInv
  <2>2. rx \in SUBSET Wire /\ net[Other(q)] \in SUBSET SUBSET Wire
    BY <1>1, <2>1 DEF IInv, TypeOK
  <2>3. \A s \in Wire : SegOK(q, s) => SegOK(q, s)'
    BY <1>4, Later
  <2>4. \A pkt \in net[Other(q)] : \A s \in pkt : SegOK(q, s)'
    BY <2>1, <2>2, <2>3 DEF WireInv
  <2>5. busy' = {Other(q)} => \A s \in rx : SegOK(q, s)'
    BY <1>4, <2>1, <2>2, <2>3 DEF WireInv
  <2>6. \A pkt \in net'[Other(q)] : \A s \in pkt : SegOK(q, s)'
    <3>1. CASE q = p
      BY <1>2, <1>3, <1>4, <2>4, <3>1
    <3>2. CASE q # p
      BY <1>3, <2>1, <2>4, <3>2, Peers
    <3> QED BY <3>1, <3>2
  <2> QED BY <1>4, <2>5, <2>6 DEF WireInv
<1> QED BY <1>3, <1>4

\* The end of Input keeps the invariant.
LEMMA InputEndKeeps ==
    ASSUME NoWrap, IInv, NEW p \in Peer, InputEnd(p)
    PROVE  IInv'
<1>1. PICK fate : Transmit(Other(p), AckSegs(p), fate)
  BY DEF InputEnd
<1>2. /\ acklist' = [acklist EXCEPT ![p] = <<>>] /\ busy' = {} /\ rx' = rx
      /\ UNCHANGED <<sndVars, rcvVars, ctlVars, sent, got>> /\ UNCHANGED snd_nxt
  BY DEF InputEnd, sndVars
<1>3. AckSegs(p) \in SUBSET Wire /\ \A s \in AckSegs(p) : SegOK(p, s)
  BY TrueAcks
<1>4. net' \in [Peer -> SUBSET SUBSET Wire]
  BY <1>1, <1>3, Outgoing
<1>5. Grows /\ \A q \in Peer : RcvInv(q)'
  BY <1>2, ReceiverStays
<1>6. TypeOK'
  <2>1. acklist' \in [Peer -> Seq(Sns)]
    BY <1>2 DEF IInv, TypeOK
  <2> QED BY <1>2, <1>4, <2>1 DEF IInv, TypeOK, sndVars, rcvVars, ctlVars
<1>7. \A s \in AckSegs(p) : SegOK(p, s)'
  BY <1>3, <1>5, <1>6, Later
<1>8. \A q \in Peer : WireInv(q)'
  BY <1>1, <1>2, <1>3, <1>5, <1>6, <1>7, Outgoing
<1>9. ASSUME NEW q \in Peer
      PROVE  SenderInv(q)' /\ AckInv(q)'
  <2>1. acklist'[q] = acklist[q] \/ acklist'[q] = <<>>
    BY <1>2 DEF IInv, TypeOK
  <2> QED BY <1>2, <1>5, <1>8, <2>1, SenderStays, AckStays
<1> QED BY <1>5, <1>6, <1>9 DEF IInv, PeerInv, SenderInv

\* Submitting a message keeps the invariant.
LEMMA SendKeeps ==
    ASSUME NoWrap, IInv, NEW p \in Peer, NEW n \in Frags, Send(p, n)
    PROVE  IInv'
<1> DEFINE m == Fragments(n, Len(sent[p]) + 1)
<1>1. /\ Len(sent[p]) + n <= MaxSegs[p]
      /\ snd_queue' = [snd_queue EXCEPT ![p] = @ \o m]
      /\ sent'      = [sent EXCEPT ![p] = @ \o m]
      /\ UNCHANGED <<snd_buf, snd_una, snd_nxt, rcvVars, ctlVars, acklist, busy, rx, net, got>>
      /\ UNCHANGED <<rcv_nxt, rcv_buf, rcv_queue>>
  BY DEF Send, rcvVars
<1>2. sent \in [Peer -> Seq(Item)] /\ snd_queue \in [Peer -> Seq(Item)] /\ n \in 1..255
  BY FragAssumption DEF IInv, TypeOK
<1>3. m \in Seq(Item) /\ Len(m) = n
  <2>1. Len(sent[p]) \in Nat /\ n \in Nat
    BY <1>2
  <2>2. m \in [1..n -> Item]
    BY SMTT(60), <1>2, <2>1 DEF Fragments, Item
  <2> HIDE DEF m
  <2> QED BY <2>1, <2>2
<1> HIDE DEF m
<1>4. /\ sent[p] \o m \in Seq(Item) /\ Len(sent[p] \o m) = Len(sent[p]) + Len(m)
      /\ \A i \in 1..Len(sent[p]) : (sent[p] \o m)[i] = sent[p][i]
      /\ \A i \in 1..Len(m) : (sent[p] \o m)[Len(sent[p]) + i] = m[i]
  <2>1. sent[p] \in Seq(Item)
    BY <1>2
  <2>2. sent[p] \o m \in Seq(Item) /\ Len(sent[p] \o m) = Len(sent[p]) + Len(m)
    BY <1>3, <2>1
  <2>3. /\ \A i \in 1..Len(sent[p]) : (sent[p] \o m)[i] = sent[p][i]
        /\ \A i \in 1..Len(m) : (sent[p] \o m)[Len(sent[p]) + i] = m[i]
    BY <1>3, <2>1
  <2> QED BY <2>2, <2>3
<1>5. /\ snd_queue[p] \o m \in Seq(Item) /\ Len(snd_queue[p] \o m) = Len(snd_queue[p]) + Len(m)
      /\ \A i \in 1..Len(snd_queue[p]) : (snd_queue[p] \o m)[i] = snd_queue[p][i]
      /\ \A i \in 1..Len(m) : (snd_queue[p] \o m)[Len(snd_queue[p]) + i] = m[i]
  <2>1. snd_queue[p] \in Seq(Item)
    BY <1>2
  <2>2. snd_queue[p] \o m \in Seq(Item) /\ Len(snd_queue[p] \o m) = Len(snd_queue[p]) + Len(m)
    BY <1>3, <2>1
  <2>3. /\ \A i \in 1..Len(snd_queue[p]) : (snd_queue[p] \o m)[i] = snd_queue[p][i]
        /\ \A i \in 1..Len(m) : (snd_queue[p] \o m)[Len(snd_queue[p]) + i] = m[i]
    BY <1>3, <2>1
  <2> QED BY <2>2, <2>3
<1>6. /\ sent' \in [Peer -> Seq(Item)] /\ snd_queue' \in [Peer -> Seq(Item)]
      /\ sent'[p] = sent[p] \o m /\ snd_queue'[p] = snd_queue[p] \o m
      /\ \A q \in Peer : q # p => sent'[q] = sent[q] /\ snd_queue'[q] = snd_queue[q]
  BY <1>1, <1>2, <1>4, <1>5
<1>7. /\ Len(sent'[p]) = Len(sent[p]) + n /\ Len(snd_queue'[p]) = Len(snd_queue[p]) + n
      /\ Len(sent[p]) \in Nat /\ Len(snd_queue[p]) \in Nat /\ snd_nxt[p] \in Nat /\ n \in Nat
      /\ snd_nxt[p] + Len(snd_queue[p]) = Len(sent[p])
  BY <1>2, <1>3, <1>4, <1>5, <1>6, Bounds
<1>8. ASSUME NEW q \in Peer
      PROVE  /\ Len(sent[q]) <= Len(sent'[q])
             /\ \A i \in 1..Len(sent[q]) : sent'[q][i] = sent[q][i]
  <2>1. CASE q = p
    BY <1>4, <1>6, <1>7, <2>1
  <2>2. CASE q # p
    <3>1. Len(sent[q]) \in Nat
      BY Bounds
    <3> QED BY <1>6, <2>2, <3>1
  <2> QED BY <2>1, <2>2
<1>9. Grows
  <2>1. \A q \in Peer : snd_nxt[q] \in Nat /\ rcv_nxt[q] \in Nat
    BY Peers, Bounds
  <2> QED BY <1>1, <1>8, <2>1 DEF Grows, Has
<1>10. TypeOK'
  BY <1>1, <1>6 DEF IInv, TypeOK, ctlVars
<1>11. ASSUME NEW q \in Peer
       PROVE  QueueInv(q)'
  <2>1. CASE q = p
    <3>1. ASSUME NEW i \in 1..Len(snd_queue'[p])
          PROVE  snd_queue'[p][i] = sent'[p][snd_nxt[p] + i]
      <4>1. CASE i <= Len(snd_queue[p])
        <5>1. i \in 1..Len(snd_queue[p]) /\ snd_nxt[p] + i \in 1..Len(sent[p])
          BY <1>7, <4>1
        <5>2. snd_queue[p][i] = sent[p][snd_nxt[p] + i]
          BY <5>1 DEF IInv, PeerInv, QueueInv
        <5> QED BY <1>4, <1>5, <1>6, <5>1, <5>2
      <4>2. CASE i > Len(snd_queue[p])
        <5> DEFINE j == i - Len(snd_queue[p])
        <5>1. j \in 1..Len(m) /\ i = Len(snd_queue[p]) + j /\ snd_nxt[p] + i = Len(sent[p]) + j
          <6>1. j \in 1..n
            BY <1>7, <4>2
          <6>2. \A a, b, c, d \in Nat : a + b = c => a + (b + d) = c + d
            OBVIOUS
          <6>3. i = Len(snd_queue[p]) + j
            BY <1>7, <4>2
          <6> HIDE DEF j
          <6>4. j \in Nat /\ j \in 1..Len(m)
            BY <1>3, <1>7, <6>1
          <6>5. snd_nxt[p] + (Len(snd_queue[p]) + j) = Len(sent[p]) + j
            BY SMTT(60), <1>7, <6>2, <6>4
          <6>6. snd_nxt[p] + i = Len(sent[p]) + j
            BY <6>3, <6>5
          <6> QED BY <6>3, <6>4, <6>6
        <5> HIDE DEF j
        <5>2. snd_queue'[p][i] = m[j]
          BY <1>5, <1>6, <5>1
        <5>3. sent'[p][snd_nxt[p] + i] = m[j]
          BY <1>4, <1>6, <5>1
        <5> QED BY <5>2, <5>3
      <4> QED BY <1>7, <4>1, <4>2
    <3>2. snd_nxt[p] + Len(snd_queue'[p]) = Len(sent'[p]) /\ Len(sent'[p]) <= MaxSegs[p]
      BY SMTT(60), <1>1, <1>7
    <3> QED BY <1>1, <2>1, <3>1, <3>2 DEF QueueInv
  <2>2. CASE q # p
    <3>1. QueueInv(q)
      BY DEF IInv, PeerInv
    <3> QED BY <1>1, <1>6, <2>2, <3>1 DEF QueueInv
  <2> QED BY <2>1, <2>2
<1>12. \A q \in Peer, k \in Nat : \A item : IsSeg(q, k, item) => IsSeg(q, k, item)'
  BY <1>9, <1>10, Later
<1>13. ASSUME NEW q \in Peer
       PROVE  BufInv(q)' /\ WireInv(q)' /\ KeptInv(q)'
  <2>1. BufInv(q) /\ KeptInv(q) /\ snd_buf[q] \in Buffer
    BY DEF IInv, PeerInv, TypeOK, Buffer, Segment
  <2>2. BufInv(q)'
    BY <1>1, <1>12, <2>1, Buffered DEF BufInv, Segments
  <2>3. net'[Other(q)] \subseteq net[Other(q)] /\ busy = busy' /\ rx' \subseteq rx
    BY <1>1
  <2>4. WireInv(q)'
    BY <1>9, <1>10, <2>3, WireStays
  <2>5. snd_nxt'[q] = snd_nxt[q] /\ Covers(q, snd_buf'[q])
    BY <1>1, <2>1 DEF KeptInv
  <2> QED BY <1>9, <2>2, <2>4, <2>5, KeptStays
<1>14. ASSUME NEW q \in Peer
       PROVE  RcvInv(q)' /\ AckInv(q)'
  <2> DEFINE o == Other(q)
  <2>1. o \in Peer /\ RcvInv(q) /\ rcv_buf[q] \in Buffer
    BY Peers DEF IInv, PeerInv, TypeOK, Buffer, Segment
  <2>2. acklist'[q] = acklist[q]
    BY <1>1
  <2>3. AckInv(q)'
    BY <1>9, <2>2, AckStays
  <2>4. /\ Len(got[q]) \in Nat /\ Len(rcv_queue[q]) \in Nat /\ rcv_nxt[q] \in Nat
        /\ rcv_nxt[q] <= snd_nxt[o] /\ snd_nxt[o] <= Len(sent[o])
        /\ snd_nxt[o] \in Nat /\ Len(sent[o]) \in Nat /\ Len(snd_queue[o]) \in Nat
        /\ rcv_nxt[q] = Len(got[q]) + Len(rcv_queue[q])
    <3>1. Len(got[q]) \in Nat /\ Len(rcv_queue[q]) \in Nat
      BY DEF IInv, TypeOK
    <3>2. /\ rcv_nxt[q] \in Nat /\ rcv_nxt[q] <= snd_nxt[o] /\ snd_nxt[o] \in Nat
          /\ Len(snd_queue[o]) \in Nat /\ Len(sent[o]) \in Nat
          /\ snd_nxt[o] + Len(snd_queue[o]) = Len(sent[o])
      BY <2>1, Bounds, Peers
    <3>3. \A a, b, c \in Nat : a + b = c => a <= c
      OBVIOUS
    <3>4. snd_nxt[o] <= Len(sent[o])
      BY <3>2, <3>3
    <3>5. rcv_nxt[q] = Len(got[q]) + Len(rcv_queue[q])
      BY <2>1 DEF RcvInv
    <3> QED BY <3>1, <3>2, <3>4, <3>5
  <2>8. \A a, b, c, d, e \in Nat : c = a + b /\ c <= d /\ d <= e
           => /\ \A i \in 1..a : i \in 1..e
              /\ \A i \in 1..b : a + i \in 1..e
    OBVIOUS
  <2>5. \A i \in 1..Len(got[q]) : got[q][i] = sent'[o][i]
    <3>1. \A i \in 1..Len(got[q]) : i \in 1..Len(sent[o])
      BY <2>4, <2>8
    <3> QED BY <1>8, <2>1, <3>1 DEF RcvInv
  <2>6. \A i \in 1..Len(rcv_queue[q]) : rcv_queue[q][i] = sent'[o][Len(got[q]) + i]
    <3>1. \A i \in 1..Len(rcv_queue[q]) : Len(got[q]) + i \in 1..Len(sent[o])
      BY <2>4, <2>8
    <3> QED BY <1>8, <2>1, <3>1 DEF RcvInv
  <2>7. Segments(o, rcv_buf[q])'
    BY <1>1, <1>12, <2>1, Buffered DEF RcvInv, Segments
  <2> QED BY <1>1, <2>1, <2>3, <2>5, <2>6, <2>7 DEF RcvInv
<1> QED BY <1>10, <1>11, <1>13, <1>14 DEF IInv, PeerInv

\* flush keeps the invariant: the items it numbers are the next ones.
LEMMA FlushKeeps ==
    ASSUME NoWrap, IInv, NEW p \in Peer, Flush(p)
    PROVE  IInv'
<1>0. PICK due \in BOOLEAN, w \in Windows(p) :
          \E m \in Movable(snd_queue[p], snd_nxt[p], snd_una[p], w) :
          \E again \in SUBSET DOMAIN snd_buf[p] : FlushSends(p, due, m, again)
  BY DEF Flush
<1>1. PICK m \in Movable(snd_queue[p], snd_nxt[p], snd_una[p], w),
           again \in SUBSET DOMAIN snd_buf[p] :
          LET asks  == rmt_wnd[p] = 0 /\ probing[p] /\ due
              new   == [i \in 1..m |-> [sn   |-> Add32(snd_nxt[p], i - 1),
                                        item |-> snd_queue[p][i]]]
              flags == probe[p] \cup (IF asks THEN {"ASK"} ELSE {})
              out   == AckSegs(p) \cup ProbeSegs(p, flags) \cup
                       PushSegs(p, {snd_buf[p][i] : i \in again} \cup {new[i] : i \in 1..m})
          IN  /\ snd_buf'   = [snd_buf EXCEPT ![p] = @ \o new]
              /\ snd_queue' = [snd_queue EXCEPT ![p] = remove_front(@, m)]
              /\ snd_nxt'   = [snd_nxt EXCEPT ![p] = Add32(@, m)]
              /\ \E fate \in Fates(Other(p), out) : Transmit(Other(p), out, fate)
  BY <1>0 DEF FlushSends
<1> DEFINE flags == probe[p] \cup (IF rmt_wnd[p] = 0 /\ probing[p] /\ due THEN {"ASK"} ELSE {})
           new   == [i \in 1..m |-> [sn |-> Add32(snd_nxt[p], i - 1), item |-> snd_queue[p][i]]]
           old   == {snd_buf[p][i] : i \in again}
           segs  == old \cup {new[i] : i \in 1..m}
           left  == remove_front(snd_queue[p], m)
           out   == AckSegs(p) \cup ProbeSegs(p, flags) \cup PushSegs(p, segs)
<1>2. /\ snd_buf'   = [snd_buf EXCEPT ![p] = @ \o new]
      /\ snd_queue' = [snd_queue EXCEPT ![p] = left]
      /\ snd_nxt'   = [snd_nxt EXCEPT ![p] = Add32(@, m)]
      /\ \E fate : Transmit(Other(p), out, fate)
  BY <1>1
<1>3. /\ probing' = [probing EXCEPT ![p] = (rmt_wnd[p] = 0)]
      /\ probe'   = [probe EXCEPT ![p] = {}]
      /\ acklist' = [acklist EXCEPT ![p] = <<>>]
      /\ busy = {} /\ UNCHANGED <<snd_una, rmt_wnd, busy, rx, sent, got>>
      /\ UNCHANGED <<rcv_nxt, rcv_buf, rcv_queue>>
  BY DEF Flush, Idle, rcvVars
<1>4. /\ snd_buf \in [Peer -> Buffer] /\ snd_queue \in [Peer -> Seq(Item)]
      /\ snd_nxt \in [Peer -> Sns] /\ acklist \in [Peer -> Seq(Sns)] /\ sent \in [Peer -> Seq(Item)]
  BY DEF IInv, TypeOK, Buffer, Segment
<1>5. m \in Nat /\ m <= Len(snd_queue[p]) /\ Len(snd_queue[p]) \in Nat
  BY <1>4 DEF Movable, Leading
<1>6. /\ snd_nxt[p] \in Nat /\ snd_nxt[p] + m <= Len(sent[p]) /\ Len(sent[p]) \in Nat
      /\ snd_nxt[p] + m < SnMod /\ SnMod \in Nat
  <2>1. /\ snd_nxt[p] \in Nat /\ snd_nxt[p] + Len(snd_queue[p]) = Len(sent[p])
        /\ Len(sent[p]) \in Nat /\ Len(sent[p]) <= MaxSegs[p] /\ MaxSegs[p] \in Nat
        /\ Wnd[p] \in Nat /\ 2 * (MaxSegs[p] + Wnd[p]) < SnMod
    BY Bounds
  <2>2. \A a, b, c, l, x, y, z \in Nat :
           b <= c /\ a + c = l /\ l <= x /\ 2 * (x + y) < z => a + b <= l /\ a + b < z
    OBVIOUS
  <2> QED BY <1>5, <2>1, <2>2, SnAssumption
<1>7. \A i \in 1..m : /\ i \in 1..Len(snd_queue[p])
                      /\ Add32(snd_nxt[p], i - 1) = snd_nxt[p] + i - 1
                      /\ snd_nxt[p] + i - 1 \in Sns
                      /\ snd_queue[p][i] = sent[p][snd_nxt[p] + i]
                      /\ snd_queue[p][i] \in Item
  <2>1. ASSUME NEW i \in 1..m
        PROVE  /\ i \in 1..Len(snd_queue[p])
               /\ Add32(snd_nxt[p], i - 1) = snd_nxt[p] + i - 1
               /\ snd_nxt[p] + i - 1 \in Sns
    BY <1>5, <1>6 DEF Add32, Sns
  <2>2. ASSUME NEW i \in 1..Len(snd_queue[p])
        PROVE  snd_queue[p][i] = sent[p][snd_nxt[p] + i] /\ snd_queue[p][i] \in Item
    BY <1>4 DEF IInv, PeerInv, QueueInv
  <2> QED BY <2>1, <2>2
<1>8. Add32(snd_nxt[p], m) = snd_nxt[p] + m /\ snd_nxt[p] + m \in Sns
  BY <1>5, <1>6 DEF Add32, Sns
<1>9. /\ new \in Buffer /\ Len(new) = m
      /\ \A i \in 1..m : /\ new[i].sn = snd_nxt[p] + i - 1
                         /\ new[i].item = sent[p][snd_nxt[p] + i]
  <2>1. new \in [1..m -> Segment]
    BY <1>7 DEF Segment
  <2>2. \A i \in 1..m : /\ new[i].sn = snd_nxt[p] + i - 1
                        /\ new[i].item = sent[p][snd_nxt[p] + i]
    BY <1>7
  <2> HIDE DEF new
  <2> QED BY <1>5, <2>1, <2>2 DEF Buffer
<1> HIDE DEF new
<1>10. /\ left \in Seq(Item) /\ Len(left) = Len(snd_queue[p]) - m
       /\ \A i \in 1..(Len(snd_queue[p]) - m) : left[i] = snd_queue[p][m + i]
  <2>1. m \in 0..Len(snd_queue[p]) /\ snd_queue[p] \in Seq(Item)
    BY <1>4, <1>5
  <2> QED BY <2>1, RemoveFront
<1> HIDE DEF left
<1> DEFINE both == snd_buf[p] \o new
<1>11. /\ both \in Buffer /\ Len(both) = Len(snd_buf[p]) + m
       /\ \A i \in 1..Len(snd_buf[p]) : both[i] = snd_buf[p][i]
       /\ \A i \in 1..m : both[Len(snd_buf[p]) + i] = new[i]
  <2>1. snd_buf[p] \in Seq(Segment) /\ new \in Seq(Segment)
    BY <1>4, <1>9 DEF Buffer
  <2>2. both \in Seq(Segment) /\ Len(both) = Len(snd_buf[p]) + Len(new)
    BY <2>1
  <2>3. /\ \A i \in 1..Len(snd_buf[p]) : both[i] = snd_buf[p][i]
        /\ \A i \in 1..Len(new) : both[Len(snd_buf[p]) + i] = new[i]
    BY <2>1
  <2> QED BY <1>9, <2>2, <2>3 DEF Buffer
<1> HIDE DEF both
<1>12. /\ snd_buf' \in [Peer -> Buffer] /\ snd_queue' \in [Peer -> Seq(Item)]
       /\ snd_nxt' \in [Peer -> Sns] /\ acklist' \in [Peer -> Seq(Sns)]
       /\ snd_buf'[p] = both /\ snd_queue'[p] = left /\ snd_nxt'[p] = snd_nxt[p] + m
       /\ acklist'[p] = <<>>
       /\ \A q \in Peer : q # p => /\ snd_buf'[q] = snd_buf[q] /\ snd_queue'[q] = snd_queue[q]
                                   /\ snd_nxt'[q] = snd_nxt[q] /\ acklist'[q] = acklist[q]
  <2>1. snd_buf' = [snd_buf EXCEPT ![p] = both]
    BY <1>2 DEF both
  <2>2. snd_nxt' = [snd_nxt EXCEPT ![p] = snd_nxt[p] + m]
    BY <1>2, <1>4, <1>8
  <2>3. acklist' \in [Peer -> Seq(Sns)] /\ acklist'[p] = <<>>
    BY <1>3, <1>4
  <2>4. \A q \in Peer : q # p => acklist'[q] = acklist[q]
    BY <1>3, <1>4
  <2>5. /\ snd_buf' \in [Peer -> Buffer] /\ snd_buf'[p] = both
        /\ \A q \in Peer : q # p => snd_buf'[q] = snd_buf[q]
    BY <1>4, <1>11, <2>1
  <2>6. /\ snd_queue' \in [Peer -> Seq(Item)] /\ snd_queue'[p] = left
        /\ \A q \in Peer : q # p => snd_queue'[q] = snd_queue[q]
    BY <1>2, <1>4, <1>10
  <2>7. /\ snd_nxt' \in [Peer -> Sns] /\ snd_nxt'[p] = snd_nxt[p] + m
        /\ \A q \in Peer : q # p => snd_nxt'[q] = snd_nxt[q]
    BY <1>4, <1>8, <2>2
  <2> QED BY <2>3, <2>4, <2>5, <2>6, <2>7
<1>13. Grows
  <2>1. ASSUME NEW q \in Peer
        PROVE  snd_nxt[q] <= snd_nxt'[q] /\ rcv_nxt[q] \in Nat /\ Len(sent[q]) \in Nat
    <3>1. snd_nxt[q] \in Nat /\ rcv_nxt[q] \in Nat /\ Len(sent[q]) \in Nat
      BY Peers, Bounds
    <3>2. CASE q = p
      BY <1>5, <1>6, <1>12, <3>1, <3>2
    <3>3. CASE q # p
      BY <1>12, <3>1, <3>3
    <3> QED BY <3>1, <3>2, <3>3
  <2> QED BY <1>3, <2>1 DEF Grows, Has
<1>14. segs \in SUBSET Segment
  <2>1. old \in SUBSET Segment
    <3>1. ASSUME NEW i \in again
          PROVE  snd_buf[p][i] \in Segment
      BY <1>4 DEF Buffer
    <3> QED BY <3>1
  <2>2. \A i \in 1..m : new[i] \in Segment
    BY <1>9 DEF Buffer
  <2> QED BY <2>1, <2>2
<1>15. out \in SUBSET Wire
  BY <1>14, TrueAcks, TrueProbes, TruePushes
<1>16. net' \in [Peer -> SUBSET SUBSET Wire]
  <2> HIDE DEF out
  <2> QED BY <1>2, <1>15, Outgoing
<1>17. TypeOK'
  <2>1. probing' \in [Peer -> BOOLEAN] /\ probe' \in [Peer -> SUBSET {"ASK", "TELL"}]
    BY <1>3 DEF IInv, TypeOK
  <2> QED BY <1>3, <1>12, <1>16, <2>1 DEF IInv, TypeOK, Buffer, Segment
<1>18. /\ \A q \in Peer, n \in Nat : \A item : IsSeg(q, n, item) => IsSeg(q, n, item)'
       /\ \A s \in Wire : SegOK(p, s) => SegOK(p, s)'
  BY <1>13, <1>17, Later
<1>19. \A i \in 1..m : /\ new[i].sn < snd_nxt'[p] /\ new[i].item = sent'[p][new[i].sn + 1]
                       /\ new[i].sn \in Nat
  <2>1. ASSUME NEW i \in 1..m
        PROVE  /\ snd_nxt[p] + i - 1 < snd_nxt[p] + m /\ snd_nxt[p] + i - 1 \in Nat
               /\ (snd_nxt[p] + i - 1) + 1 = snd_nxt[p] + i
    BY <1>5, <1>6
  <2> QED BY <1>3, <1>9, <1>12, <2>1
<1>20. \A i \in 1..Len(snd_buf[p]) :
          /\ snd_buf[p][i].sn < snd_nxt'[p]
          /\ snd_buf[p][i].item = sent'[p][snd_buf[p][i].sn + 1]
  <2>1. Segments(p, snd_buf[p]) /\ snd_buf[p] \in Buffer
    BY SendBuffer
  <2>2. \A i \in 1..Len(snd_buf[p]) : /\ snd_buf[p][i].sn \in Nat /\ snd_buf[p][i].sn < snd_nxt[p]
                                      /\ snd_buf[p][i].item = sent[p][snd_buf[p][i].sn + 1]
    BY <2>1, Buffered DEF Segments, IsSeg
  <2> QED BY <1>3, <1>5, <1>6, <1>12, <2>2
<1>21. \A x \in segs : x.sn < snd_nxt'[p] /\ x.item = sent'[p][x.sn + 1]
  <2>1. ASSUME NEW i \in again
        PROVE  i \in 1..Len(snd_buf[p])
    BY <1>4 DEF Buffer
  <2> QED BY <1>19, <1>20, <2>1
<1>22. \A s \in out : SegOK(p, s)'
  <2>1. ASSUME NEW s \in AckSegs(p) \cup ProbeSegs(p, flags)
        PROVE  SegOK(p, s)'
    BY <1>18, TrueAcks, TrueProbes
  <2>2. ASSUME NEW s \in PushSegs(p, segs)
        PROVE  SegOK(p, s)'
    <3> HIDE DEF segs
    <3>1. s.cmd = "PUSH" /\ s.una = rcv_nxt[p]
      BY <1>14, TruePushes
    <3>2. PICK x \in segs : s.sn = x.sn /\ s.item = x.item
      BY <1>14, TruePushes
    <3>3. s.sn < snd_nxt'[p] /\ s.item = sent'[p][s.sn + 1]
      BY <1>21, <3>2
    <3>4. rcv_nxt'[p] = rcv_nxt[p] /\ rcv_nxt[p] \in Nat
      BY <1>3, Header
    <3> QED BY <3>1, <3>3, <3>4 DEF SegOK, IsSeg
  <2> QED BY <2>1, <2>2
<1>23. \A q \in Peer : WireInv(q)'
  <2> HIDE DEF out
  <2>1. rx' = rx /\ busy' \in {busy, {}}
    BY <1>3
  <2> QED BY <1>2, <1>13, <1>15, <1>17, <1>22, <2>1, Outgoing
<1>24. ASSUME NEW q \in Peer
       PROVE  QueueInv(q)'
  <2>1. CASE q = p
    <3>1. ASSUME NEW i \in 1..Len(left)
          PROVE  left[i] = sent[p][snd_nxt'[p] + i]
      <4>1. m + i \in 1..Len(snd_queue[p]) /\ snd_nxt[p] + (m + i) = (snd_nxt[p] + m) + i
        BY <1>5, <1>6, <1>10
      <4>2. snd_queue[p][m + i] = sent[p][snd_nxt[p] + (m + i)]
        BY <4>1 DEF IInv, PeerInv, QueueInv
      <4> QED BY <1>10, <1>12, <4>1, <4>2
    <3>2. snd_nxt'[p] + Len(left) = Len(sent[p]) /\ Len(sent[p]) <= MaxSegs[p]
      <4>1. \A a, b, c \in Nat : (a + b) + (c - b) = a + c
        OBVIOUS
      <4>2. (snd_nxt[p] + m) + (Len(snd_queue[p]) - m) = snd_nxt[p] + Len(snd_queue[p])
        BY <1>5, <1>6, <4>1
      <4> QED BY <1>10, <1>12, <4>2, Bounds
    <3> QED BY <1>3, <1>12, <2>1, <3>1, <3>2 DEF QueueInv
  <2>2. CASE q # p
    <3>1. QueueInv(q)
      BY DEF IInv, PeerInv
    <3> QED BY <1>3, <1>12, <2>2, <3>1 DEF QueueInv
  <2> QED BY <2>1, <2>2
<1>25. \A i \in 1..Len(both) : \/ i \in 1..Len(snd_buf[p]) /\ both[i] = snd_buf[p][i]
                               \/ i - Len(snd_buf[p]) \in 1..m /\ both[i] = new[i - Len(snd_buf[p])]
  <2>1. Len(snd_buf[p]) \in Nat
    BY <1>4, Buffered
  <2>2. ASSUME NEW i \in 1..Len(both)
        PROVE  \/ i \in 1..Len(snd_buf[p]) /\ both[i] = snd_buf[p][i]
               \/ i - Len(snd_buf[p]) \in 1..m /\ both[i] = new[i - Len(snd_buf[p])]
    <3>1. CASE i <= Len(snd_buf[p])
      BY <1>11, <2>1, <3>1
    <3>2. CASE i > Len(snd_buf[p])
      <4>1. i - Len(snd_buf[p]) \in 1..m /\ i = Len(snd_buf[p]) + (i - Len(snd_buf[p]))
        BY <1>5, <1>11, <2>1, <3>2
      <4> QED BY <1>11, <4>1
    <3> QED BY <2>1, <3>1, <3>2
  <2> QED BY <2>2
<1>26. ASSUME NEW q \in Peer
       PROVE  BufInv(q)'
  <2>1. BufInv(q) /\ snd_buf[q] \in Buffer /\ snd_una[q] \in Nat /\ snd_nxt[q] \in Nat
    BY <1>4, Bounds DEF IInv, PeerInv
  <2>2. snd_una'[q] <= snd_nxt'[q]
    <3>1. snd_nxt[q] <= snd_nxt'[q] /\ snd_nxt'[q] \in Nat
      BY <1>13, <1>12, SnAssumption DEF Grows, Sns
    <3> QED BY <1>3, <2>1, <3>1 DEF BufInv
  <2>3. CASE q = p
    <3>1. \A i \in 1..Len(both) : both[i].sn < snd_nxt'[p] /\ both[i].item = sent'[p][both[i].sn + 1]
      BY <1>19, <1>20, <1>25
    <3> QED BY <1>12, <2>2, <2>3, <3>1 DEF BufInv, Segments, IsSeg
  <2>4. CASE q # p
    BY <1>3, <1>12, <2>1, <2>2, <2>4 DEF BufInv, Segments, IsSeg
  <2> QED BY <2>3, <2>4
<1>27. ASSUME NEW q \in Peer
       PROVE  KeptInv(q)'
  <2>1. CASE q = p
    <3>1. ASSUME NEW n \in 0..(snd_nxt'[p] - 1)
          PROVE  (\E k \in 1..Len(both) : both[k].sn = n) \/ Has(Other(p), n)'
      <4>1. Len(snd_buf[p]) \in Nat
        BY <1>4, Buffered
      <4>2. CASE n < snd_nxt[p]
        <5>1. (\E k \in 1..Len(snd_buf[p]) : snd_buf[p][k].sn = n) \/ Has(Other(p), n)
          BY <1>6, <4>2, SendBuffer DEF Covers
        <5>2. CASE \E k \in 1..Len(snd_buf[p]) : snd_buf[p][k].sn = n
          BY <1>5, <1>11, <4>1, <5>2
        <5>3. CASE Has(Other(p), n)
          BY <1>13, <5>3, Peers DEF Grows
        <5> QED BY <5>1, <5>2, <5>3
      <4>3. CASE n >= snd_nxt[p]
        <5> DEFINE i == n - snd_nxt[p] + 1
        <5>1. i \in 1..m /\ n = snd_nxt[p] + i - 1
          <6>1. n \in Nat /\ n < snd_nxt[p] + m
            BY <1>5, <1>6, <1>12
          <6> QED BY <1>5, <1>6, <4>3, <6>1
        <5>2. Len(snd_buf[p]) + i \in 1..Len(both)
          BY <1>5, <1>11, <4>1, <5>1
        <5> HIDE DEF i
        <5>3. both[Len(snd_buf[p]) + i].sn = n
          BY <1>9, <1>11, <5>1
        <5> QED BY <5>2, <5>3
      <4> QED BY <1>6, <4>2, <4>3
    <3> QED BY <1>12, <2>1, <3>1 DEF KeptInv, Covers
  <2>2. CASE q # p
    <3>1. snd_nxt'[q] = snd_nxt[q] /\ Covers(q, snd_buf'[q])
      BY <1>12, <2>2, SendBuffer
    <3> QED BY <1>13, <3>1, KeptStays
  <2> QED BY <2>1, <2>2
<1>28. ASSUME NEW q \in Peer
       PROVE  RcvInv(q)' /\ AckInv(q)'
  <2>1. acklist'[q] = acklist[q] \/ acklist'[q] = <<>>
    BY <1>12
  <2>2. AckInv(q)'
    BY <1>13, <2>1, AckStays
  <2>3. /\ RcvInv(q) /\ Other(q) \in Peer /\ rcv_buf[q] \in Buffer
        /\ rcv_nxt[q] \in Nat /\ snd_nxt[Other(q)] \in Nat
    BY Peers, Bounds DEF IInv, PeerInv, TypeOK, Buffer, Segment
  <2>4. rcv_nxt[q] <= snd_nxt'[Other(q)]
    <3>1. /\ snd_nxt[Other(q)] <= snd_nxt'[Other(q)] /\ snd_nxt'[Other(q)] \in Nat
          /\ rcv_nxt[q] <= snd_nxt[Other(q)]
      <4>1. snd_nxt'[Other(q)] \in Sns /\ Sns \subseteq Nat
        BY <1>12, <2>3, SnAssumption DEF Sns
      <4>2. snd_nxt[Other(q)] <= snd_nxt'[Other(q)] /\ rcv_nxt[q] <= snd_nxt[Other(q)]
        BY <1>13, <2>3 DEF Grows, RcvInv
      <4> QED BY <4>1, <4>2
    <3> QED BY <2>3, <3>1
  <2>5. Segments(Other(q), rcv_buf[q])'
    BY <1>3, <1>18, <2>3, Buffered DEF RcvInv, Segments
  <2> QED BY <1>3, <2>2, <2>3, <2>4, <2>5 DEF RcvInv
<1> QED BY <1>17, <1>23, <1>24, <1>26, <1>27, <1>28 DEF IInv, PeerInv

\* The initial state satisfies the invariant.
LEMMA InitKeeps ==
    ASSUME Init
    PROVE  IInv
<1>1. TypeOK
  <2>1. 0 \in Sns /\ RmtWnd0 \in Nat
    BY SnAssumption, WndAssumption DEF Sns
  <2>2. \A S : <<>> \in Seq(S)
    OBVIOUS
  <2> QED BY <2>1, <2>2 DEF Init, TypeOK
<1>2. ASSUME NEW p \in Peer
      PROVE  PeerInv(p)
  <2>1. Other(p) \in Peer /\ MaxSegs[p] \in Nat
    BY Peers, BoundAssumption
  <2>2. /\ snd_queue[p] = <<>> /\ snd_buf[p] = <<>> /\ snd_una[p] = 0 /\ snd_nxt[p] = 0
        /\ rcv_nxt[p] = 0 /\ rcv_buf[p] = <<>> /\ rcv_queue[p] = <<>> /\ acklist[p] = <<>>
        /\ busy = {} /\ net[Other(p)] = {} /\ sent[p] = <<>> /\ got[p] = <<>>
        /\ snd_nxt[Other(p)] = 0
    BY <2>1 DEF Init
  <2>3. QueueInv(p)
    BY <2>1, <2>2 DEF QueueInv
  <2>4. BufInv(p) /\ WireInv(p)
    BY <2>2 DEF BufInv, Segments, WireInv
  <2>5. RcvInv(p)
    BY <2>2 DEF RcvInv, Segments
  <2>6. AckInv(p) /\ KeptInv(p)
    BY <2>2 DEF AckInv, KeptInv, Covers
  <2> QED BY <2>3, <2>4, <2>5, <2>6 DEF PeerInv
<1> QED BY <1>1, <1>2 DEF IInv

\* So does a step that changes nothing.
LEMMA StutterKeeps ==
    ASSUME IInv, UNCHANGED vars
    PROVE  IInv'
<1>1. TypeOK'
  BY DEF IInv, TypeOK, vars, sndVars, rcvVars, ctlVars
<1>2. ASSUME NEW p \in Peer
      PROVE  PeerInv(p)'
  <2>1. PeerInv(p)
    BY DEF IInv
  <2>2. UNCHANGED <<snd_queue, snd_buf, snd_una, snd_nxt, rcv_nxt, rcv_buf, rcv_queue>>
    BY DEF vars, sndVars, rcvVars
  <2>3. UNCHANGED <<acklist, busy, rx, net, sent, got>>
    BY DEF vars
  <2> QED BY ZenonT(60), <2>1, <2>2, <2>3 DEF PeerInv, QueueInv, BufInv, WireInv, RcvInv, AckInv,
                                  KeptInv, Covers, Segments, IsSeg, SegOK, Has
<1> QED BY <1>1, <1>2 DEF IInv

\* Every step of either end keeps the invariant.
LEMMA NextKeeps ==
    ASSUME NoWrap, IInv, [Next]_vars
    PROVE  IInv'
<1>1. ASSUME NEW p \in Peer, NEW n \in Frags, Send(p, n)
      PROVE  IInv'
  BY <1>1, SendKeeps
<1>2. ASSUME NEW p \in Peer, Recv(p)
      PROVE  IInv'
  BY <1>2, RecvKeeps
<1>3. ASSUME NEW p \in Peer, Receive(p)
      PROVE  IInv'
  BY <1>3, ReceiveKeeps
<1>4. ASSUME NEW p \in Peer, Input(p)
      PROVE  IInv'
  BY <1>4, InputAckKeeps, InputDataKeeps, InputRepeatKeeps, InputBeyondKeeps,
     InputWaskKeeps, InputWinsKeeps, InputEndKeeps DEF Input
<1>5. ASSUME NEW p \in Peer, Flush(p)
      PROVE  IInv'
  BY <1>5, FlushKeeps
<1>6. CASE UNCHANGED vars
  BY <1>6, StutterKeeps
<1> QED BY <1>1, <1>2, <1>3, <1>4, <1>5, <1>6 DEF Next

-----------------------------------------------------------------------------
(* The theorems *)

\* The invariant holds in every reachable state.
THEOREM Inductive ==
    ASSUME NoWrap
    PROVE  Spec => []IInv
<1>1. Init => IInv
  BY InitKeeps
<1>2. IInv /\ [Next]_vars => IInv'
  BY NextKeeps
<1> QED BY <1>1, <1>2, PTL DEF Spec

\* As long as no sequence number wraps, every field keeps its type.
THEOREM TypeCorrect ==
    ASSUME NoWrap
    PROVE  Spec => []TypeOK
<1>1. IInv => TypeOK
  BY DEF IInv
<1> QED BY <1>1, Inductive, PTL

\* Whatever the network loses, repeats or reorders, what an end is handed
\* over is what the other submitted, item by item from the first on.
THEOREM DeliveredInOrder ==
    ASSUME NoWrap
    PROVE  Spec => []InOrder
<1>1. ASSUME IInv
      PROVE  InOrder
  <2>1. ASSUME NEW p \in Peer
        PROVE  /\ Len(got[p]) <= Len(sent[Other(p)])
               /\ \A i \in DOMAIN got[p] : got[p][i] = sent[Other(p)][i]
    <3>1. RcvInv(p) /\ got[p] \in Seq(Item) /\ rcv_queue[p] \in Seq(Item)
      BY <1>1 DEF IInv, PeerInv, TypeOK
    <3>2. /\ rcv_nxt[p] \in Nat /\ rcv_nxt[p] <= snd_nxt[Other(p)] /\ snd_nxt[Other(p)] \in Nat
          /\ Len(snd_queue[Other(p)]) \in Nat /\ Len(sent[Other(p)]) \in Nat
          /\ snd_nxt[Other(p)] + Len(snd_queue[Other(p)]) = Len(sent[Other(p)])
      BY <1>1, Bounds, Peers
    <3>3. /\ Len(got[p]) \in Nat /\ Len(rcv_queue[p]) \in Nat
          /\ rcv_nxt[p] = Len(got[p]) + Len(rcv_queue[p])
          /\ \A i \in DOMAIN got[p] : got[p][i] = sent[Other(p)][i]
      <4>1. Len(got[p]) \in Nat /\ Len(rcv_queue[p]) \in Nat /\ DOMAIN got[p] = 1..Len(got[p])
        BY <3>1
      <4> QED BY <3>1, <4>1 DEF RcvInv
    <3>4. \A a, b, c, d, e, f \in Nat : a + b = c /\ c <= d /\ d + e = f => a <= f
      OBVIOUS
    <3>5. Len(got[p]) <= Len(sent[Other(p)])
      BY <3>2, <3>3, <3>4
    <3> QED BY <3>3, <3>5
  <2> QED BY <2>1 DEF InOrder
<1>2. IInv => InOrder
  BY <1>1
<1> QED BY <1>2, Inductive, PTL

\* What the invariant says of one segment that has been given its number.
LEMMA KeptOrReceived ==
    ASSUME NoWrap, IInv, NEW p \in Peer, NEW i \in 1..snd_nxt[p]
    PROVE  \/ \E k \in DOMAIN snd_buf[p] : snd_buf[p][k].item = sent[p][i]
           \/ Received(Other(p), i)
<1>1. snd_nxt[p] \in Nat
  BY Bounds
<1> DEFINE n == i - 1
<1>2. n \in Nat /\ n \in 0..(snd_nxt[p] - 1) /\ n + 1 = i
  BY <1>1
<1> HIDE DEF n
<1>3. snd_buf[p] \in Buffer /\ Segments(p, snd_buf[p]) /\ Covers(p, snd_buf[p])
  BY SendBuffer
<1>4. CASE \E k \in 1..Len(snd_buf[p]) : snd_buf[p][k].sn = n
  <2>1. PICK k \in 1..Len(snd_buf[p]) : snd_buf[p][k].sn = n
    BY <1>4
  <2>2. snd_buf[p][k].item = sent[p][i]
    BY <1>2, <1>3, <2>1 DEF Segments, IsSeg
  <2>3. k \in DOMAIN snd_buf[p]
    BY <1>3 DEF Buffer
  <2> QED BY <2>2, <2>3
<1>5. CASE Has(Other(p), n)
  <2>1. Other(p) \in Peer /\ Other(Other(p)) = p
    BY Peers
  <2>2. RcvInv(Other(p)) /\ rcv_buf[Other(p)] \in Buffer /\ rcv_nxt[Other(p)] \in Nat
    BY <2>1, Bounds DEF IInv, PeerInv, TypeOK, Buffer, Segment
  <2>3. CASE n < rcv_nxt[Other(p)]
    <3>1. i <= rcv_nxt[Other(p)]
      BY <1>2, <2>2, <2>3
    <3> QED BY <2>2, <3>1 DEF RcvInv, Received
  <2>4. CASE \E k \in 1..Len(rcv_buf[Other(p)]) : rcv_buf[Other(p)][k].sn = n
    <3>1. PICK k \in 1..Len(rcv_buf[Other(p)]) : rcv_buf[Other(p)][k].sn = n
      BY <2>4
    <3>2. rcv_buf[Other(p)][k].item = sent[p][i]
      BY <1>2, <2>1, <2>2, <3>1 DEF RcvInv, Segments, IsSeg
    <3>3. k \in DOMAIN rcv_buf[Other(p)]
      BY <2>2 DEF Buffer
    <3> QED BY <2>1, <3>2, <3>3 DEF Received
  <2> QED BY <1>5, <2>3, <2>4 DEF Has
<1> QED BY <1>2, <1>3, <1>4, <1>5 DEF Covers

\* A segment leaves the send buffer only when the peer has it, however old,
\* doubled or reordered the acknowledgements are.
THEOREM RetainedTillReceived ==
    ASSUME NoWrap
    PROVE  Spec => []Retained
<1>1. ASSUME IInv
      PROVE  Retained
  <2>1. ASSUME NEW p \in Peer
        PROVE  Len(sent[p]) - Len(snd_queue[p]) = snd_nxt[p]
    <3>1. \A a, b, c \in Nat : a + b = c => c - b = a
      OBVIOUS
    <3> QED BY <1>1, <3>1, Bounds
  <2> QED BY <1>1, <2>1, KeptOrReceived DEF Retained
<1>2. IInv => Retained
  BY <1>1
<1> QED BY <1>2, Inductive, PTL

\* WaitSnd() = 0 means that the peer has everything that was submitted.
THEOREM DrainedIsReceived ==
    ASSUME NoWrap
    PROVE  Spec => []DrainedMeansReceived
<1>1. ASSUME IInv
      PROVE  DrainedMeansReceived
  <2>1. ASSUME NEW p \in Peer, WaitSnd(p) = 0, NEW i \in DOMAIN sent[p]
        PROVE  Received(Other(p), i)
    <3>1. /\ Len(snd_buf[p]) \in Nat /\ Len(snd_queue[p]) \in Nat /\ snd_nxt[p] \in Nat
          /\ snd_nxt[p] + Len(snd_queue[p]) = Len(sent[p])
          /\ DOMAIN snd_buf[p] = 1..Len(snd_buf[p]) /\ DOMAIN sent[p] = 1..Len(sent[p])
      <4>1. snd_buf[p] \in Buffer /\ sent[p] \in Seq(Item)
        BY <1>1 DEF IInv, TypeOK, Buffer, Segment
      <4>2. Len(snd_buf[p]) \in Nat /\ DOMAIN snd_buf[p] = 1..Len(snd_buf[p])
        BY <4>1 DEF Buffer
      <4>3. DOMAIN sent[p] = 1..Len(sent[p])
        BY <4>1
      <4> QED BY <1>1, <4>2, <4>3, Bounds
    <3>2. Len(snd_buf[p]) = 0 /\ Len(snd_queue[p]) = 0
      <4>1. \A a, b \in Nat : a + b = 0 => a = 0 /\ b = 0
        OBVIOUS
      <4> QED BY <2>1, <3>1, <4>1 DEF WaitSnd
    <3>3. i \in 1..snd_nxt[p] /\ DOMAIN snd_buf[p] = {}
      BY <3>1, <3>2
    <3> QED BY <1>1, <3>3, KeptOrReceived
  <2> QED BY <2>1 DEF DrainedMeansReceived
<1>2. IInv => DrainedMeansReceived
  BY <1>1
<1> QED BY <1>2, Inductive, PTL

-----------------------------------------------------------------------------
(* Messages *)

\* The fragment number of an item.
LEMMA ItemFrg ==
    ASSUME NEW q \in Seq(Item), NEW i \in 1..Len(q)
    PROVE  q[i].frg \in Nat
<1>1. q[i] \in Item
  OBVIOUS
<1>2. \A e \in [frg : 0..254, data : Nat] : e.frg \in 0..254
  OBVIOUS
<1>3. q[i].frg \in 0..254
  BY <1>1, <1>2 DEF Item
<1>4. \A x \in 0..254 : x \in Nat
  OBVIOUS
<1> HIDE DEF Item
<1> QED BY <1>3, <1>4

\* A whole message may be added to whole messages.
LEMMA WholeAgain ==
    ASSUME NEW q \in Seq(Item), Whole(q), NEW n \in 1..255, NEW first \in Nat,
           q \o Fragments(n, first) \in Seq(Item)
    PROVE  Whole(q \o Fragments(n, first))
<1> DEFINE m == Fragments(n, first)
           r == q \o m
<1>1. /\ n \in Nat /\ Len(q) \in Nat /\ Len(m) = n /\ \A i \in 1..n : m[i].frg = n - i
      /\ m \in Seq(Item)
  <2>1. m \in [1..n -> Item] /\ \A i \in 1..n : m[i].frg = n - i
    BY DEF Fragments, Item
  <2> HIDE DEF m
  <2>2. n \in Nat
    OBVIOUS
  <2>3. m \in Seq(Item) /\ Len(m) = n
    BY <2>1, <2>2
  <2> QED BY <2>1, <2>2, <2>3
<1> HIDE DEF m
<1>2. /\ Len(r) = Len(q) + n
      /\ \A i \in 1..Len(q) : r[i] = q[i]
      /\ \A i \in 1..n : r[Len(q) + i] = m[i]
  <2>1. Len(r) = Len(q) + Len(m)
    BY <1>1
  <2>2. /\ \A i \in 1..Len(q) : r[i] = q[i]
        /\ \A i \in 1..Len(m) : r[Len(q) + i] = m[i]
    BY <1>1
  <2> QED BY <1>1, <2>1, <2>2
<1>3. \A i \in 1..Len(q) : q[i].frg \in Nat
  BY ItemFrg
<1> HIDE DEF r
<1>4. ASSUME NEW i \in 1..Len(r)
      PROVE  /\ i + r[i].frg <= Len(r)
             /\ \A j \in 0..r[i].frg : r[i + j].frg = r[i].frg - j
  <2>1. CASE i <= Len(q)
    <3>1. i \in 1..Len(q) /\ r[i] = q[i] /\ q[i].frg \in Nat
      BY <1>1, <1>2, <1>3, <2>1
    <3>2. /\ i + q[i].frg <= Len(q)
          /\ \A j \in 0..q[i].frg : q[i + j].frg = q[i].frg - j
      BY <3>1 DEF Whole
    <3>3. \A j \in 0..q[i].frg : i + j \in 1..Len(q)
      BY <1>1, <3>1, <3>2
    <3>4. \A j \in 0..q[i].frg : r[i + j].frg = q[i].frg - j
      BY <1>2, <3>2, <3>3
    <3> QED BY <1>1, <1>2, <3>1, <3>2, <3>4
  <2>2. CASE i > Len(q)
    <3> DEFINE k == i - Len(q)
    <3>1. k \in 1..n /\ i = Len(q) + k
      BY <1>1, <1>2, <2>2
    <3> HIDE DEF k
    <3>2. r[i].frg = n - k
      BY <1>1, <1>2, <3>1
    <3>3. ASSUME NEW j \in 0..(n - k)
          PROVE  r[i + j].frg = (n - k) - j
      <4>1. k + j \in 1..n /\ i + j = Len(q) + (k + j) /\ n - (k + j) = (n - k) - j
        BY <1>1, <3>1
      <4> QED BY <1>1, <1>2, <4>1
    <3>4. i + (n - k) <= Len(r)
      BY <1>1, <1>2, <3>1
    <3> QED BY <3>2, <3>3, <3>4
  <2> QED BY <1>1, <1>2, <2>1, <2>2
<1> QED BY <1>4 DEF Whole, r, m

\* Only Send and Recv touch what is submitted and handed over.
LEMMA StepsOfStream ==
    ASSUME [Next]_vars
    PROVE  \/ UNCHANGED <<sent, got>>
           \/ \E p \in Peer : \E n \in Frags : Send(p, n)
           \/ \E p \in Peer : Recv(p)
<1>1. ASSUME NEW p \in Peer, Receive(p) \/ Input(p) \/ Flush(p)
      PROVE  UNCHANGED <<sent, got>>
  BY <1>1 DEF Receive, Input, InputAck, InputData, InputRepeat, InputBeyond, InputWask,
              InputWins, InputEnd, Take, Flush
<1>2. CASE UNCHANGED vars
  BY <1>2 DEF vars
<1> QED BY <1>1, <1>2 DEF Next

\* What is submitted is always a sequence of whole messages.
LEMMA SentWhole ==
    ASSUME NoWrap
    PROVE  Spec => []MsgInv
<1>1. Init => MsgInv
  BY DEF Init, MsgInv, Whole
<1>2. ASSUME IInv, MsgInv, [Next]_vars, NEW p \in Peer
      PROVE  Whole(sent'[p])
  <2>1. CASE sent'[p] = sent[p]
    BY <1>2, <2>1 DEF MsgInv
  <2>2. CASE \E n \in Frags : Send(p, n)
    <3>1. PICK n \in Frags : Send(p, n)
      BY <2>2
    <3>2. /\ sent \in [Peer -> Seq(Item)] /\ sent'[p] = sent[p] \o Fragments(n, Len(sent[p]) + 1)
          /\ n \in 1..255
      BY <1>2, <3>1, FragAssumption DEF IInv, TypeOK, Send
    <3>3. sent[p] \in Seq(Item) /\ Len(sent[p]) + 1 \in Nat /\ Whole(sent[p])
      BY <1>2, <3>2 DEF MsgInv
    <3>4. sent'[p] \in Seq(Item)
      <4>1. IInv'
        BY <1>2, NextKeeps
      <4> QED BY <4>1 DEF IInv, TypeOK
    <3> QED BY <3>2, <3>3, <3>4, WholeAgain
  <2>3. sent'[p] = sent[p] \/ \E n \in Frags : Send(p, n)
    <3>1. sent \in [Peer -> Seq(Item)]
      BY <1>2 DEF IInv, TypeOK
    <3>2. ASSUME NEW q \in Peer, NEW n \in Frags, Send(q, n)
          PROVE  sent'[p] = sent[p] \/ \E n1 \in Frags : Send(p, n1)
      <4>1. CASE q = p
        BY <3>2, <4>1
      <4>2. CASE q # p
        BY <3>1, <3>2, <4>2 DEF Send
      <4> QED BY <4>1, <4>2
    <3>3. ASSUME NEW q \in Peer, Recv(q)
          PROVE  sent' = sent
      BY <3>3 DEF Recv
    <3> QED BY <1>2, <3>2, <3>3, StepsOfStream
  <2> QED BY <2>1, <2>2, <2>3
<1>3. IInv /\ MsgInv /\ [Next]_vars => MsgInv'
  BY <1>2 DEF MsgInv
<1> QED BY <1>1, <1>3, Inductive, PTL DEF Spec

\* What Recv merges is one whole message.
LEMMA RecvIsMessage ==
    ASSUME NoWrap, IInv, MsgInv, NEW p \in Peer, rcv_queue[p] # <<>>,
           Len(rcv_queue[p]) >= rcv_queue[p][1].frg + 1,
           NEW n \in MessageLen(rcv_queue[p])
    PROVE  n \in 1..Len(rcv_queue[p]) /\ \A i \in 1..n : rcv_queue[p][i].frg = n - i
<1> DEFINE q == rcv_queue[p]
           o == Other(p)
           g == Len(got[p])
           f == q[1].frg
<1>1. q \in Seq(Item) /\ o \in Peer /\ got[p] \in Seq(Item) /\ sent[o] \in Seq(Item)
  BY Peers DEF IInv, TypeOK
<1>2. /\ Len(q) \in Nat /\ g \in Nat /\ 1 \in 1..Len(q) /\ DOMAIN q = 1..Len(q)
  BY <1>1
<1>3. \A i \in 1..Len(q) : q[i] = sent[o][g + i]
  BY DEF IInv, PeerInv, RcvInv
<1>4. g + 1 \in 1..Len(sent[o])
  <2>1. /\ rcv_nxt[p] \in Nat /\ rcv_nxt[p] <= snd_nxt[o] /\ snd_nxt[o] \in Nat
        /\ Len(snd_queue[o]) \in Nat /\ Len(sent[o]) \in Nat
        /\ snd_nxt[o] + Len(snd_queue[o]) = Len(sent[o])
    BY Bounds, Peers
  <2>2. g + Len(q) = rcv_nxt[p]
    BY DEF IInv, PeerInv, RcvInv
  <2>3. \A a, b, c, d, e, l \in Nat :
           a + b = c /\ c <= d /\ d + e = l /\ 1 \in 1..b => a + 1 \in 1..l
    OBVIOUS
  <2> QED BY <1>2, <2>1, <2>2, <2>3
<1>5. f \in Nat /\ f = sent[o][g + 1].frg
  <2>1. f \in Nat
    BY <1>1, <1>2, ItemFrg
  <2> QED BY <1>2, <1>3, <2>1
<1>6. \A j \in 0..f : sent[o][(g + 1) + j].frg = f - j
  BY <1>1, <1>4, <1>5 DEF MsgInv, Whole
<1>7. f + 1 <= Len(q)
  OBVIOUS
<1> HIDE DEF f, g, o
<1>8. ASSUME NEW i \in 1..(f + 1)
      PROVE  i \in 1..Len(q) /\ q[i].frg = f + 1 - i
  <2>1. i \in 1..Len(q) /\ i - 1 \in 0..f /\ (g + 1) + (i - 1) = g + i /\ f - (i - 1) = f + 1 - i
    BY <1>2, <1>5, <1>7
  <2> QED BY <1>3, <1>6, <2>1
<1>9. /\ n \in 1..Len(q)
      /\ \A i \in 1..(n - 1) : q[i].frg # 0
      /\ q[n].frg = 0 \/ n = Len(q)
  BY <1>2 DEF MessageLen
<1> DEFINE l == Len(q)
<1>11. l \in Nat /\ n \in 1..l /\ f \in Nat /\ f + 1 <= l /\ (q[n].frg = 0 \/ n = l)
  BY <1>2, <1>5, <1>7, <1>9
<1> HIDE DEF q, l
<1>10. n = f + 1
  <2>1. CASE n > f + 1
    <3>1. f + 1 \in 1..(n - 1) /\ f + 1 \in 1..(f + 1)
      BY <1>11, <2>1
    <3>2. q[f + 1].frg = (f + 1) - (f + 1) /\ (f + 1) - (f + 1) = 0
      BY <1>8, <1>11, <3>1
    <3> QED BY <1>9, <3>1, <3>2
  <2>2. CASE n < f + 1
    <3>1. n \in 1..(f + 1) /\ n # l /\ f + 1 - n # 0
      BY <1>11, <2>2
    <3>2. q[n].frg = f + 1 - n
      BY <1>8, <3>1
    <3> QED BY <1>11, <3>1, <3>2
  <2> QED BY <1>11, <2>1, <2>2
<1>12. \A i \in 1..n : q[i].frg = n - i
  BY <1>8, <1>10, <1>11
<1> QED BY <1>9, <1>12 DEF q

\* An end is handed something only by its own Recv.
LEMMA OnlyRecvHandsOver ==
    ASSUME IInv, [Next]_vars, NEW p \in Peer, got'[p] # got[p]
    PROVE  Recv(p)
<1>1. CASE \E q \in Peer : Recv(q)
  <2>1. PICK q \in Peer : Recv(q)
    BY <1>1
  <2>2. got \in [Peer -> Seq(Item)] /\ \E m : got' = [got EXCEPT ![q] = @ \o m]
    BY <2>1 DEF IInv, TypeOK, Recv
  <2> QED BY <2>1, <2>2
<1>2. CASE \E q \in Peer : \E n \in Frags : Send(q, n)
  BY <1>2 DEF Send
<1> QED BY <1>1, <1>2, StepsOfStream

\* Every hand-over is exactly one submitted message.
THEOREM MessagesWhole ==
    ASSUME NoWrap
    PROVE  Spec => WholeMessages
<1>1. ASSUME IInv, MsgInv, [Next]_vars, NEW p \in Peer, got'[p] # got[p]
      PROVE  LET n == Len(got'[p]) - Len(got[p])
             IN  /\ n > 0
                 /\ \A i \in 1..n : got'[p][Len(got[p]) + i].frg = n - i
  <2>1. Recv(p)
    BY <1>1, OnlyRecvHandsOver
  <2>2. PICK n \in MessageLen(rcv_queue[p]) :
           got' = [got EXCEPT ![p] = @ \o SubSeq(rcv_queue[p], 1, n)]
    BY <2>1 DEF Recv
  <2>3. rcv_queue[p] # <<>> /\ Len(rcv_queue[p]) >= rcv_queue[p][1].frg + 1
    BY <2>1 DEF Recv
  <2>4. n \in 1..Len(rcv_queue[p]) /\ \A i \in 1..n : rcv_queue[p][i].frg = n - i
    BY <1>1, <2>3, RecvIsMessage
  <2>5. /\ got \in [Peer -> Seq(Item)] /\ got[p] \in Seq(Item) /\ rcv_queue[p] \in Seq(Item)
        /\ Len(got[p]) \in Nat
    BY <1>1 DEF IInv, TypeOK
  <2> DEFINE msg == SubSeq(rcv_queue[p], 1, n)
  <2>6. msg \in Seq(Item) /\ Len(msg) = n /\ \A i \in 1..n : msg[i] = rcv_queue[p][i]
    BY <2>4, <2>5
  <2>7. got'[p] = got[p] \o msg
    BY <2>2, <2>5
  <2> HIDE DEF msg
  <2>8. /\ Len(got[p] \o msg) = Len(got[p]) + Len(msg)
        /\ \A i \in 1..Len(msg) : (got[p] \o msg)[Len(got[p]) + i] = msg[i]
    <3>1. got[p] \in Seq(Item) /\ msg \in Seq(Item)
      BY <2>5, <2>6
    <3>2. \A s, t \in Seq(Item) : Len(s \o t) = Len(s) + Len(t)
      OBVIOUS
    <3>3. \A s, t \in Seq(Item) : \A i \in 1..Len(t) : (s \o t)[Len(s) + i] = t[i]
      OBVIOUS
    <3> QED BY <3>1, <3>2, <3>3
  <2>9. Len(got'[p]) - Len(got[p]) = n /\ n > 0
    <3>1. \A a, b \in Nat : (a + b) - a = b
      OBVIOUS
    <3>2. n \in Nat /\ n > 0
      BY <2>4
    <3>3. Len(got'[p]) = Len(got[p]) + n
      BY <2>6, <2>7, <2>8
    <3> QED BY <2>5, <3>1, <3>2, <3>3
  <2>10. \A i \in 1..n : got'[p][Len(got[p]) + i].frg = n - i
    BY <2>4, <2>6, <2>7, <2>8
  <2> QED BY <2>9, <2>10
<1>2. ASSUME IInv, MsgInv, [Next]_vars
      PROVE  [\A p \in Peer : got'[p] # got[p] =>
                LET n == Len(got'[p]) - Len(got[p])
                IN  /\ n > 0
                    /\ \A i \in 1..n : got'[p][Len(got[p]) + i].frg = n - i]_vars
  BY <1>1, <1>2
<1>3. IInv /\ MsgInv /\ [Next]_vars =>
         [\A p \in Peer : got'[p] # got[p] =>
             LET n == Len(got'[p]) - Len(got[p])
             IN  /\ n > 0
                 /\ \A i \in 1..n : got'[p][Len(got[p]) + i].frg = n - i]_vars
  BY <1>2
<1> QED BY <1>3, Inductive, SentWhole, PTL DEF Spec, WholeMessages

\* Two KCP objects over a bad network implement the reliable stream.
THEOREM Refinement ==
    ASSUME NoWrap
    PROVE  Spec => ImplementsStream
<1>1. Init => Stream!Init
  BY DEF Init, Stream!Init
<1>2. ASSUME IInv, MsgInv, NEW p \in Peer, NEW n \in Frags, Send(p, n)
      PROVE  Stream!Submit(p)
  BY <1>2 DEF Send, Fragments, Stream!Submit, Stream!MessageItems
<1>3. ASSUME IInv, MsgInv, NEW q \in Peer, Recv(q)
      PROVE  Stream!Deliver(Other(q), q)
  <2> DEFINE o == Other(q)
             g == Len(got[q])
  <2>1. PICK n \in MessageLen(rcv_queue[q]) :
           got' = [got EXCEPT ![q] = @ \o SubSeq(rcv_queue[q], 1, n)]
    BY <1>3 DEF Recv
  <2>2. rcv_queue[q] # <<>> /\ Len(rcv_queue[q]) >= rcv_queue[q][1].frg + 1 /\ sent' = sent
    BY <1>3 DEF Recv
  <2>3. n \in 1..Len(rcv_queue[q]) /\ \A i \in 1..n : rcv_queue[q][i].frg = n - i
    BY <1>3, <2>2, RecvIsMessage
  <2>4. /\ o \in Peer /\ sent[o] \in Seq(Item) /\ rcv_queue[q] \in Seq(Item)
        /\ g \in Nat /\ Len(rcv_queue[q]) \in Nat /\ Len(sent[o]) \in Nat
    <3>1. o \in Peer
      BY Peers
    <3>2. sent[o] \in Seq(Item) /\ rcv_queue[q] \in Seq(Item) /\ got[q] \in Seq(Item)
      BY <1>3, <3>1 DEF IInv, TypeOK
    <3> QED BY <3>1, <3>2
  <2>5. g + Len(rcv_queue[q]) <= Len(sent[o])
    <3>1. /\ rcv_nxt[q] \in Nat /\ rcv_nxt[q] <= snd_nxt[o] /\ snd_nxt[o] \in Nat
          /\ Len(snd_queue[o]) \in Nat /\ snd_nxt[o] + Len(snd_queue[o]) = Len(sent[o])
      BY <1>3, Bounds, Peers
    <3>2. rcv_nxt[q] = g + Len(rcv_queue[q])
      BY <1>3 DEF IInv, PeerInv, RcvInv
    <3>3. \A a, b, c, d \in Nat : a <= b /\ b + c = d => a <= d
      OBVIOUS
    <3>4. rcv_nxt[q] <= Len(sent[o])
      BY <2>4, <3>1, <3>3
    <3> QED BY <3>2, <3>4
  <2>6. n \in 1..(Len(sent[o]) - g) /\ g + 1 \in 1..(Len(sent[o]) + 1) /\ g + n \in 1..Len(sent[o])
    <3>1. \A a, b, c, d \in Nat : a \in 1..c /\ b + c <= d
             => a \in 1..(d - b) /\ b + 1 \in 1..(d + 1) /\ b + a \in 1..d
      OBVIOUS
    <3>2. n \in Nat
      BY <2>3
    <3> QED BY <2>3, <2>4, <2>5, <3>1, <3>2
  <2> DEFINE m   == SubSeq(sent[o], g + 1, g + n)
             msg == SubSeq(rcv_queue[q], 1, n)
  <2>7. m = msg
    <3>1. msg \in Seq(Item) /\ Len(msg) = n /\ \A i \in 1..n : msg[i] = rcv_queue[q][i]
      BY <2>3, <2>4
    <3>2. /\ m \in Seq(Item) /\ Len(m) = (g + n) - (g + 1) + 1
          /\ \A i \in 1..((g + n) - (g + 1) + 1) : m[i] = sent[o][g + 1 + i - 1]
      <4> DEFINE a == g + 1
                 b == g + n
      <4>1. a \in 1..(Len(sent[o]) + 1) /\ b \in (a - 1)..Len(sent[o])
        BY <2>3, <2>4, <2>6
      <4> HIDE DEF a, b
      <4>2. /\ SubSeq(sent[o], a, b) \in Seq(Item) /\ Len(SubSeq(sent[o], a, b)) = b - a + 1
            /\ \A i \in 1..(b - a + 1) : SubSeq(sent[o], a, b)[i] = sent[o][a + i - 1]
        BY <2>4, <4>1, SubSeqProperties
      <4> QED BY <4>2 DEF a, b
    <3>3. n \in Nat /\ (g + n) - (g + 1) + 1 = n
      BY <2>3, <2>4
    <3> HIDE DEF m, msg
    <3>4. ASSUME NEW i \in 1..n
          PROVE  m[i] = msg[i]
      <4>1. g + 1 + i - 1 = g + i /\ i \in 1..Len(rcv_queue[q])
        BY <2>3, <2>4
      <4>2. rcv_queue[q][i] = sent[o][g + i]
        BY <1>3, <4>1 DEF IInv, PeerInv, RcvInv
      <4>3. m[i] = sent[o][g + i]
        BY <3>2, <3>3, <4>1
      <4> QED BY <3>1, <4>2, <4>3
    <3> QED BY <3>1, <3>2, <3>3, <3>4, SeqEqual
  <2>8. Stream!IsMessage(m)
    <3>1. Len(msg) = n /\ n > 0 /\ \A i \in 1..n : msg[i].frg = n - i
      <4>1. Len(msg) = n /\ \A i \in 1..n : msg[i] = rcv_queue[q][i]
        BY <2>3, <2>4
      <4> HIDE DEF msg
      <4> QED BY <2>3, <4>1
    <3> HIDE DEF m, msg
    <3> QED BY <2>7, <3>1 DEF Stream!IsMessage
  <2>9. got' = [got EXCEPT ![q] = @ \o m]
    BY <2>1, <2>7
  <2> QED BY <2>2, <2>6, <2>8, <2>9 DEF Stream!Deliver
<1>4. ASSUME IInv, MsgInv, [Next]_vars
      PROVE  [Stream!Next]_(Stream!sVars)
  <2>1. CASE UNCHANGED <<sent, got>>
    BY <2>1 DEF Stream!sVars
  <2>2. CASE \E p \in Peer : \E n \in Frags : Send(p, n)
    BY <1>2, <1>4, <2>2 DEF Stream!Next
  <2>3. CASE \E q \in Peer : Recv(q)
    <3>1. PICK q \in Peer : Recv(q)
      BY <2>3
    <3>2. Other(q) \in Peer /\ q \in Peer \ {Other(q)}
      BY Peers
    <3> QED BY <1>3, <1>4, <3>1, <3>2 DEF Stream!Next
  <2>4. \/ UNCHANGED <<sent, got>> \/ \E p \in Peer : \E n \in Frags : Send(p, n)
        \/ \E q \in Peer : Recv(q)
    BY <1>4, StepsOfStream
  <2> QED BY <2>1, <2>2, <2>3, <2>4
<1>5. IInv /\ MsgInv /\ [Next]_vars => [Stream!Next]_(Stream!sVars)
  BY <1>4
<1> QED BY <1>1, <1>5, Inductive, SentWhole, PTL DEF Spec, ImplementsStream, Stream!Spec

-----------------------------------------------------------------------------
(* The windows *)

\* The numbers of a buffer increase: no two segments in it share one.
Spaced(buf) == \A i, j \in 1..Len(buf) : i <= j => buf[i].sn + (j - i) <= buf[j].sn

Above(buf, n) == \A k \in 1..Len(buf) : n <= buf[k].sn

Within(buf, n, w) == \A k \in 1..Len(buf) : n <= buf[k].sn /\ buf[k].sn < n + w

\* The send buffer begins with snd_una and fits the window.
SndWin(p) == /\ Spaced(snd_buf[p])
             /\ snd_una[p] = shrink_buf(snd_buf[p], snd_nxt[p])
             /\ snd_nxt[p] <= snd_una[p] + Wnd[p]

\* The receive buffer is the window, or a part of it.
RcvWin(p) == /\ Spaced(rcv_buf[p])
             /\ Within(rcv_buf[p], rcv_nxt[p], Wnd[p])
             /\ Len(rcv_queue[p]) <= 2 * Wnd[p] - 1

WinInv == \A p \in Peer : SndWin(p) /\ RcvWin(p)

-----------------------------------------------------------------------------
(* What the loops do to a spaced buffer *)

\* The front of a spaced buffer goes: the rest is spaced.
LEMMA SpacedFront ==
    ASSUME NEW buf \in Buffer, Spaced(buf), NEW n \in Nat, Above(buf, n), NEW k \in 0..Len(buf)
    PROVE  /\ remove_front(buf, k) \in Buffer
           /\ Spaced(remove_front(buf, k)) /\ Above(remove_front(buf, k), n)
<1> DEFINE left == remove_front(buf, k)
<1>1. /\ left \in Buffer /\ Len(left) = Len(buf) - k
      /\ \A i \in 1..(Len(buf) - k) : left[i] = buf[k + i]
  <2>1. buf \in Seq(Segment)
    BY DEF Buffer
  <2> QED BY <2>1, RemoveFront DEF Buffer
<1> HIDE DEF left
<1>2. Len(buf) \in Nat /\ k \in Nat /\ k <= Len(buf)
  BY DEF Buffer
<1>3. \A i \in 1..Len(left) : left[i] = buf[k + i] /\ k + i \in 1..Len(buf)
  BY <1>1, <1>2
<1>4. ASSUME NEW i \in 1..Len(left), NEW j \in 1..Len(left), i <= j
      PROVE  left[i].sn + (j - i) <= left[j].sn
  <2>1. k + i \in 1..Len(buf) /\ k + j \in 1..Len(buf)
    BY <1>3
  <2>2. k + i <= k + j /\ (k + j) - (k + i) = j - i
    BY <1>1, <1>2, <1>4
  <2>3. buf[k + i].sn + ((k + j) - (k + i)) <= buf[k + j].sn
    BY <2>1, <2>2 DEF Spaced
  <2> QED BY <1>3, <2>2, <2>3
<1>5. Above(left, n)
  BY <1>3 DEF Above
<1>6. Spaced(left)
  BY <1>4 DEF Spaced
<1> QED BY <1>1, <1>5, <1>6 DEF left

\* One segment of a spaced buffer goes.
LEMMA SpacedRemoved ==
    ASSUME NEW buf \in Buffer, Spaced(buf), NEW n \in Nat, Above(buf, n), NEW k \in 1..Len(buf)
    PROVE  /\ RemoveAt(buf, k) \in Buffer
           /\ Spaced(RemoveAt(buf, k)) /\ Above(RemoveAt(buf, k), n)
<1> DEFINE left == RemoveAt(buf, k)
<1>1. /\ left \in Buffer /\ Len(left) = Len(buf) - 1
      /\ \A i \in 1..(k - 1) : left[i] = buf[i]
      /\ \A i \in k..(Len(buf) - 1) : left[i] = buf[i + 1]
  <2>1. buf \in Seq(Segment)
    BY DEF Buffer
  <2> QED BY <2>1, RemovedAt DEF Buffer
<1> HIDE DEF left
<1>2. Len(buf) \in Nat /\ k \in Nat /\ k <= Len(buf) /\ 1 <= k
  BY DEF Buffer
<1>3. \A i \in 1..Len(buf) : buf[i].sn \in Nat
  BY Buffered
<1>4. \A i \in 1..Len(left) : \/ i < k /\ left[i] = buf[i] /\ i \in 1..Len(buf)
                              \/ k <= i /\ left[i] = buf[i + 1] /\ i + 1 \in 1..Len(buf)
  BY <1>1, <1>2
<1>5. ASSUME NEW i \in 1..Len(left), NEW j \in 1..Len(left), i <= j
      PROVE  left[i].sn + (j - i) <= left[j].sn
  <2>1. CASE j < k
    <3>1. left[i] = buf[i] /\ left[j] = buf[j] /\ i \in 1..Len(buf) /\ j \in 1..Len(buf)
      BY <1>2, <1>4, <1>5, <2>1
    <3> QED BY <1>5, <3>1 DEF Spaced
  <2>2. CASE i < k /\ k <= j
    <3>1. left[i] = buf[i] /\ left[j] = buf[j + 1] /\ i \in 1..Len(buf) /\ j + 1 \in 1..Len(buf)
      BY <1>2, <1>4, <2>2
    <3>2. buf[i].sn + ((j + 1) - i) <= buf[j + 1].sn
      BY <1>5, <3>1 DEF Spaced
    <3>3. buf[i].sn \in Nat /\ buf[j + 1].sn \in Nat
      BY <1>3, <3>1
    <3>4. \A x, y \in Nat : x + ((j + 1) - i) <= y => x + (j - i) <= y
      BY <1>1, <1>2
    <3> QED BY <3>1, <3>2, <3>3, <3>4
  <2>3. CASE k <= i
    <3>1. /\ left[i] = buf[i + 1] /\ left[j] = buf[j + 1]
          /\ i + 1 \in 1..Len(buf) /\ j + 1 \in 1..Len(buf)
      BY <1>2, <1>4, <1>5, <2>3
    <3>2. buf[i + 1].sn + ((j + 1) - (i + 1)) <= buf[j + 1].sn
      BY <1>5, <3>1 DEF Spaced
    <3> QED BY <1>3, <3>1, <3>2
  <2> QED BY <1>2, <2>1, <2>2, <2>3
<1>6. Above(left, n)
  BY <1>4 DEF Above
<1>7. Spaced(left)
  BY <1>5 DEF Spaced
<1> QED BY <1>1, <1>6, <1>7 DEF left

\* A segment comes to its place in a spaced buffer.
LEMMA SpacedInserted ==
    ASSUME NEW buf \in Buffer, Spaced(buf), NEW n \in Nat, Above(buf, n),
           NEW k \in 0..Len(buf), NEW e \in Segment, n <= e.sn,
           k > 0 => buf[k].sn < e.sn,
           k < Len(buf) => e.sn < buf[k + 1].sn
    PROVE  /\ InsertAfter(buf, k, e) \in Buffer
           /\ Spaced(InsertAfter(buf, k, e)) /\ Above(InsertAfter(buf, k, e), n)
<1> DEFINE more == InsertAfter(buf, k, e)
<1>1. /\ more \in Buffer /\ Len(more) = Len(buf) + 1
      /\ \A i \in 1..k : more[i] = buf[i]
      /\ more[k + 1] = e
      /\ \A i \in (k + 1)..Len(buf) : more[i + 1] = buf[i]
  BY InsertedAfter
<1> HIDE DEF more
<1>2. Len(buf) \in Nat /\ k \in Nat /\ k <= Len(buf)
  BY DEF Buffer
<1>3. e.sn \in Nat /\ \A i \in 1..Len(buf) : buf[i].sn \in Nat
  BY Buffered, SnAssumption DEF Segment, Sns
<1>4. ASSUME NEW i \in 1..Len(more)
      PROVE  \/ i <= k /\ more[i] = buf[i] /\ i \in 1..Len(buf)
             \/ i = k + 1 /\ more[i] = e
             \/ k + 1 < i /\ more[i] = buf[i - 1] /\ i - 1 \in (k + 1)..Len(buf)
  <2>1. CASE i <= k
    BY <1>1, <1>2, <2>1
  <2>2. CASE i = k + 1
    BY <1>1, <2>2
  <2>3. CASE k + 1 < i
    <3>1. i - 1 \in (k + 1)..Len(buf) /\ (i - 1) + 1 = i
      BY <1>1, <1>2, <2>3
    <3>2. more[(i - 1) + 1] = buf[i - 1]
      BY <1>1, <3>1
    <3> QED BY <2>3, <3>1, <3>2
  <2> QED BY <1>2, <2>1, <2>2, <2>3
<1>5. ASSUME NEW i \in 1..k
      PROVE  buf[i].sn + ((k + 1) - i) <= e.sn
  <2>1. i \in 1..Len(buf) /\ k \in 1..Len(buf) /\ i <= k /\ k > 0
    BY <1>2
  <2>2. buf[i].sn + (k - i) <= buf[k].sn /\ buf[k].sn < e.sn
    BY <2>1 DEF Spaced
  <2>3. buf[i].sn \in Nat /\ buf[k].sn \in Nat /\ e.sn \in Nat
    BY <1>3, <2>1
  <2> QED BY <1>2, <2>2, <2>3
<1>6. ASSUME NEW j \in (k + 1)..Len(buf)
      PROVE  e.sn + (j - k) <= buf[j].sn
  <2>1. j \in 1..Len(buf) /\ k + 1 \in 1..Len(buf) /\ k + 1 <= j /\ k < Len(buf)
    BY <1>2
  <2>2. buf[k + 1].sn + (j - (k + 1)) <= buf[j].sn /\ e.sn < buf[k + 1].sn
    BY <2>1 DEF Spaced
  <2>3. buf[j].sn \in Nat /\ buf[k + 1].sn \in Nat /\ e.sn \in Nat
    BY <1>3, <2>1
  <2>4. \A x, y, z \in Nat : x < y /\ y + (j - (k + 1)) <= z => x + (j - k) <= z
    BY <1>2
  <2> QED BY <2>2, <2>3, <2>4
<1>7. ASSUME NEW i \in 1..Len(more), NEW j \in 1..Len(more), i <= j
      PROVE  more[i].sn + (j - i) <= more[j].sn
  <2>1. CASE j <= k
    <3>1. more[i] = buf[i] /\ more[j] = buf[j] /\ i \in 1..Len(buf) /\ j \in 1..Len(buf)
      BY <1>1, <1>2, <1>7, <2>1
    <3> QED BY <1>7, <3>1 DEF Spaced
  <2>2. CASE i <= k /\ j = k + 1
    <3>1. more[i] = buf[i] /\ more[j] = e /\ i \in 1..k
      BY <1>1, <2>2
    <3> QED BY <1>5, <2>2, <3>1
  <2>3. CASE i <= k /\ k + 1 < j
    <3>1. more[i] = buf[i] /\ more[j] = buf[j - 1] /\ i \in 1..k /\ j - 1 \in (k + 1)..Len(buf)
      BY <1>2, <1>4, <2>3
    <3>2. buf[i].sn + ((k + 1) - i) <= e.sn /\ e.sn + ((j - 1) - k) <= buf[j - 1].sn
      BY <1>5, <1>6, <3>1
    <3>3. buf[i].sn \in Nat /\ buf[j - 1].sn \in Nat /\ e.sn \in Nat /\ j - 1 \in Nat
      <4>1. i \in 1..Len(buf) /\ j - 1 \in 1..Len(buf)
        BY <1>2, <3>1
      <4> QED BY <1>3, <4>1
    <3>4. \A x, y, z \in Nat : x + ((k + 1) - i) <= y /\ y + ((j - 1) - k) <= z => x + (j - i) <= z
      BY <1>1, <1>2
    <3>5. buf[i].sn + (j - i) <= buf[j - 1].sn
      BY <3>2, <3>3, <3>4
    <3> QED BY <3>1, <3>5
  <2>4. CASE i = k + 1 /\ j = k + 1
    BY <1>1, <1>3, <2>4
  <2>5. CASE i = k + 1 /\ k + 1 < j
    <3>1. more[i] = e /\ more[j] = buf[j - 1] /\ j - 1 \in (k + 1)..Len(buf)
      BY <1>1, <1>2, <1>4, <2>5
    <3>2. e.sn + ((j - 1) - k) <= buf[j - 1].sn /\ (j - 1) - k = j - i
      BY <1>2, <1>6, <2>5, <3>1
    <3> QED BY <3>1, <3>2
  <2>6. CASE k + 1 < i
    <3>1. /\ more[i] = buf[i - 1] /\ i - 1 \in (k + 1)..Len(buf)
          /\ more[j] = buf[j - 1] /\ j - 1 \in (k + 1)..Len(buf)
      BY <1>2, <1>4, <1>7, <2>6
    <3>2. i - 1 \in 1..Len(buf) /\ j - 1 \in 1..Len(buf) /\ i - 1 <= j - 1
      BY <1>2, <1>7, <3>1
    <3>3. buf[i - 1].sn + ((j - 1) - (i - 1)) <= buf[j - 1].sn
      BY <3>2 DEF Spaced
    <3>4. (j - 1) - (i - 1) = j - i
      BY <1>1, <1>2
    <3> QED BY <3>1, <3>3, <3>4
  <2> QED BY <1>2, <1>7, <2>1, <2>2, <2>3, <2>4, <2>5, <2>6
<1>8. Above(more, n)
  <2>1. ASSUME NEW i \in 1..Len(more)
        PROVE  n <= more[i].sn
    <3>1. \/ more[i] = e \/ \E j \in 1..Len(buf) : more[i] = buf[j]
      <4>1. \A j \in (k + 1)..Len(buf) : j \in 1..Len(buf)
        BY <1>2
      <4> QED BY <1>4, <4>1
    <3> QED BY <3>1 DEF Above
  <2> QED BY <2>1 DEF Above
<1>9. Spaced(more)
  BY <1>7 DEF Spaced
<1> QED BY <1>1, <1>8, <1>9 DEF more

\* New numbers follow those of a spaced buffer.
LEMMA SpacedJoined ==
    ASSUME NEW a \in Buffer, Spaced(a), NEW b \in Buffer, NEW nxt \in Nat,
           \A i \in 1..Len(a) : a[i].sn < nxt,
           \A i \in 1..Len(b) : b[i].sn = nxt + i - 1,
           NEW c \in Buffer, Len(c) = Len(a) + Len(b),
           \A i \in 1..Len(a) : c[i] = a[i],
           \A i \in 1..Len(b) : c[Len(a) + i] = b[i]
    PROVE  Spaced(c)
<1> DEFINE l == Len(a)
<1>1. l \in Nat /\ Len(b) \in Nat
  BY DEF Buffer
<1>2. \A i \in 1..l : a[i].sn \in Nat
  BY Buffered
<1>3. ASSUME NEW i \in 1..l
      PROVE  a[i].sn + (l - i) < nxt
  <2>1. l \in 1..Len(a) /\ i <= l /\ i \in 1..Len(a)
    BY <1>1
  <2>2. a[i].sn + (l - i) <= a[l].sn /\ a[l].sn < nxt
    BY <2>1 DEF Spaced
  <2>3. a[i].sn \in Nat /\ a[l].sn \in Nat
    BY <1>2, <2>1
  <2> QED BY <1>1, <2>2, <2>3
<1>4. ASSUME NEW i \in 1..Len(c)
      PROVE  \/ i <= l /\ i \in 1..l /\ c[i] = a[i]
             \/ l < i /\ c[i].sn = nxt + (i - l) - 1
  <2>1. CASE i <= l
    BY <1>1, <2>1
  <2>2. CASE l < i
    <3>1. i - l \in 1..Len(b) /\ l + (i - l) = i
      BY <1>1, <2>2
    <3>2. c[l + (i - l)] = b[i - l] /\ b[i - l].sn = nxt + (i - l) - 1
      BY <3>1
    <3> QED BY <2>2, <3>1, <3>2
  <2> QED BY <1>1, <2>1, <2>2
<1>5. ASSUME NEW i \in 1..Len(c), NEW j \in 1..Len(c), i <= j
      PROVE  c[i].sn + (j - i) <= c[j].sn
  <2>1. CASE j <= l
    <3>1. c[i] = a[i] /\ c[j] = a[j] /\ i \in 1..Len(a) /\ j \in 1..Len(a)
      BY <1>1, <1>5, <2>1
    <3> QED BY <1>5, <3>1 DEF Spaced
  <2>2. CASE i <= l /\ l < j
    <3>1. c[i] = a[i] /\ i \in 1..l /\ c[j].sn = nxt + (j - l) - 1
      BY <1>1, <1>4, <2>2
    <3>2. a[i].sn + (l - i) < nxt /\ a[i].sn \in Nat
      BY <1>2, <1>3, <3>1
    <3> QED BY <1>1, <3>1, <3>2
  <2>3. CASE l < i
    <3>1. c[i].sn = nxt + (i - l) - 1 /\ c[j].sn = nxt + (j - l) - 1
      BY <1>1, <1>4, <1>5, <2>3
    <3> QED BY <1>1, <3>1
  <2> QED BY <1>1, <2>1, <2>2, <2>3
<1> QED BY <1>5 DEF Spaced

\* parse_una leaves a spaced buffer, above the old snd_una.  So does ...
LEMMA SpacedParseUna ==
    ASSUME NEW buf \in Buffer, Spaced(buf), NEW n \in Nat, Above(buf, n),
           NEW una, NEW left \in parse_una(buf, una)
    PROVE  left \in Buffer /\ Spaced(left) /\ Above(left, n)
<1>1. PICK k \in 0..Len(buf) : left = remove_front(buf, k)
  BY DEF parse_una, Leading
<1> QED BY <1>1, SpacedFront

\* ... parse_ack.
LEMMA SpacedParseAck ==
    ASSUME NEW buf \in Buffer, Spaced(buf), NEW n \in Nat, Above(buf, n),
           NEW una, NEW nxt, NEW sn, NEW left \in parse_ack(buf, una, nxt, sn)
    PROVE  left \in Buffer /\ Spaced(left) /\ Above(left, n)
<1>1. left = buf \/ \E k \in 1..Len(buf) : left = RemoveAt(buf, k)
  BY DEF parse_ack, Buffer
<1>2. CASE left = buf
  BY <1>2
<1>3. CASE \E k \in 1..Len(buf) : left = RemoveAt(buf, k)
  BY <1>3, SpacedRemoved
<1> QED BY <1>1, <1>2, <1>3

\* The search from the back finds the place: rcv_buf stays spaced.
LEMMA SpacedSegment ==
    ASSUME NEW buf \in Buffer, Spaced(buf), NEW n \in Nat, Above(buf, n),
           NEW sn \in Sns, NEW item \in Item, n <= sn, 2 * sn < SnMod,
           \A i \in 1..Len(buf) : 2 * buf[i].sn < SnMod,
           NEW more \in Inserted(buf, sn, item)
    PROVE  /\ more \in Buffer /\ Spaced(more) /\ Above(more, n)
           /\ \A i \in 1..Len(more) : more[i].sn = sn \/ \E j \in 1..Len(buf) : more[i] = buf[j]
<1> DEFINE e == [sn |-> sn, item |-> item]
<1>1. PICK k \in 0..Len(buf) :
         /\ k > 0 => itimediff(sn, buf[k].sn) >= 0
         /\ \A j \in (k + 1)..Len(buf) : itimediff(sn, buf[j].sn) < 0
         /\ more = IF k > 0 /\ buf[k].sn = sn THEN buf ELSE InsertAfter(buf, k, e)
  BY DEF Inserted
<1>2. CASE k > 0 /\ buf[k].sn = sn
  BY <1>1, <1>2
<1>3. CASE ~(k > 0 /\ buf[k].sn = sn)
  <2>1. e \in Segment /\ e.sn = sn
    BY DEF Segment
  <2>2. more = InsertAfter(buf, k, e)
    BY <1>1, <1>3
  <2> HIDE DEF e
  <2>3. Len(buf) \in Nat /\ sn \in Nat /\ \A i \in 1..Len(buf) : buf[i].sn \in Nat
    BY Buffered, SnAssumption DEF Sns
  <2>4. \A i \in 1..Len(buf) : itimediff(sn, buf[i].sn) = sn - buf[i].sn
    BY <2>3, NoWrapDiff
  <2>5. k > 0 => buf[k].sn < e.sn
    <3>1. ASSUME k > 0
          PROVE  buf[k].sn < sn
      <4>1. k \in 1..Len(buf)
        BY <2>3, <3>1
      <4>2. sn - buf[k].sn >= 0 /\ buf[k].sn # sn
        BY <1>1, <1>3, <2>4, <3>1, <4>1
      <4> QED BY <2>3, <4>1, <4>2
    <3> QED BY <2>1, <3>1
  <2>6. k < Len(buf) => e.sn < buf[k + 1].sn
    <3>1. ASSUME k < Len(buf)
          PROVE  sn < buf[k + 1].sn
      <4>1. k + 1 \in 1..Len(buf) /\ k + 1 \in (k + 1)..Len(buf)
        BY <2>3, <3>1
      <4>2. sn - buf[k + 1].sn < 0
        BY <1>1, <2>4, <4>1
      <4> QED BY <2>3, <4>1, <4>2
    <3> QED BY <2>1, <3>1
  <2>7. more \in Buffer /\ Spaced(more) /\ Above(more, n)
    BY <2>1, <2>2, <2>5, <2>6, SpacedInserted
  <2>8. /\ Len(more) = Len(buf) + 1
        /\ \A i \in 1..k : more[i] = buf[i]
        /\ more[k + 1] = e
        /\ \A i \in (k + 1)..Len(buf) : more[i + 1] = buf[i]
    BY <2>1, <2>2, InsertedAfter
  <2>9. ASSUME NEW i \in 1..Len(more)
        PROVE  more[i].sn = sn \/ \E j \in 1..Len(buf) : more[i] = buf[j]
    <3>1. CASE i <= k
      <4>1. i \in 1..k /\ i \in 1..Len(buf)
        BY <2>3, <3>1
      <4> QED BY <2>8, <4>1
    <3>2. CASE i = k + 1
      BY <2>1, <2>8, <3>2
    <3>3. CASE k + 1 < i
      <4>1. i - 1 \in (k + 1)..Len(buf) /\ i - 1 \in 1..Len(buf) /\ (i - 1) + 1 = i
        BY <2>3, <2>8, <3>3
      <4>2. more[(i - 1) + 1] = buf[i - 1]
        BY <2>8, <4>1
      <4> QED BY <4>1, <4>2
    <3> QED BY <2>3, <3>1, <3>2, <3>3
  <2> QED BY <2>7, <2>9
<1> QED BY <1>2, <1>3

\* A buffer within the window has no more places than the window.
LEMMA WindowHolds ==
    ASSUME NEW buf \in Buffer, Spaced(buf), NEW n \in Nat, NEW w \in Nat, Within(buf, n, w)
    PROVE  Len(buf) <= w /\ \A i \in 1..Len(buf) : n + (i - 1) <= buf[i].sn
<1>1. Len(buf) \in Nat /\ \A i \in 1..Len(buf) : buf[i].sn \in Nat
  BY Buffered
<1>2. ASSUME NEW i \in 1..Len(buf)
      PROVE  n + (i - 1) <= buf[i].sn
  <2>1. 1 \in 1..Len(buf) /\ 1 <= i
    BY <1>1
  <2>2. buf[1].sn + (i - 1) <= buf[i].sn /\ n <= buf[1].sn
    BY <2>1 DEF Spaced, Within
  <2>3. buf[1].sn \in Nat /\ buf[i].sn \in Nat
    BY <1>1, <2>1
  <2> QED BY <2>2, <2>3
<1>3. CASE Len(buf) = 0
  BY <1>2, <1>3
<1>4. CASE Len(buf) > 0
  <2>1. Len(buf) \in 1..Len(buf)
    BY <1>1, <1>4
  <2>2. n + (Len(buf) - 1) <= buf[Len(buf)].sn /\ buf[Len(buf)].sn < n + w
    BY <1>2, <2>1 DEF Within
  <2>3. buf[Len(buf)].sn \in Nat
    BY <1>1, <2>1
  <2> QED BY <1>1, <1>2, <2>2, <2>3
<1> QED BY <1>1, <1>3, <1>4

\* The first number of a spaced buffer is its least.
LEMMA FirstIsLeast ==
    ASSUME NEW buf \in Buffer, Spaced(buf), NEW nxt \in Nat
    PROVE  Above(buf, shrink_buf(buf, nxt))
<1>1. ASSUME NEW i \in 1..Len(buf)
      PROVE  shrink_buf(buf, nxt) <= buf[i].sn
  <2>1. Len(buf) \in Nat /\ 1 \in 1..Len(buf) /\ 1 <= i /\ buf # <<>>
    BY DEF Buffer
  <2>2. buf[1].sn + (i - 1) <= buf[i].sn
    BY <2>1 DEF Spaced
  <2>3. buf[1].sn \in Nat /\ buf[i].sn \in Nat
    BY <2>1, Buffered
  <2> QED BY <2>1, <2>2, <2>3 DEF shrink_buf
<1> QED BY <1>1 DEF Above

-----------------------------------------------------------------------------
(* The actions keep the windows *)

\* The bounds that keep the windows from wrapping.
LEMMA WindowBounds ==
    ASSUME NoWrap, IInv, NEW p \in Peer
    PROVE  /\ Wnd[p] \in Nat /\ Wnd[p] > 0 /\ SnMod \in Nat
           /\ snd_una[p] \in Nat /\ snd_nxt[p] \in Nat /\ rcv_nxt[p] \in Nat
           /\ snd_una[p] <= snd_nxt[p]
           /\ 2 * (snd_nxt[p] + Wnd[p]) < SnMod
           /\ rcv_nxt[p] <= snd_nxt[Other(p)]
           /\ 2 * (snd_nxt[Other(p)] + Wnd[p]) < SnMod
           /\ 2 * (rcv_nxt[p] + Wnd[p]) < SnMod
           /\ snd_buf[p] \in Buffer /\ rcv_buf[p] \in Buffer
<1> DEFINE o == Other(p)
<1>1. o \in Peer /\ Other(o) = p
  BY Peers
<1>2. /\ Wnd[p] \in Nat /\ Wnd[p] > 0 /\ SnMod \in Nat
      /\ MaxSegs[p] \in Nat /\ MaxSegs[o] \in Nat /\ Wnd[o] \in Nat
  BY <1>1, WndAssumption, BoundAssumption, SnAssumption
<1>3. 2 * (MaxSegs[p] + Wnd[p] + Wnd[o]) < SnMod /\ 2 * (MaxSegs[o] + Wnd[o] + Wnd[p]) < SnMod
  BY <1>1 DEF NoWrap
<1> HIDE DEF o
<1>4. /\ snd_una[p] \in Nat /\ snd_nxt[p] \in Nat /\ snd_nxt[o] \in Nat /\ rcv_nxt[p] \in Nat
      /\ snd_una[p] <= snd_nxt[p] /\ rcv_nxt[p] <= snd_nxt[o]
      /\ snd_nxt[p] <= MaxSegs[p] /\ snd_nxt[o] <= MaxSegs[o]
  <2>1. \A q \in Peer : /\ snd_nxt[q] \in Nat /\ snd_una[q] \in Nat /\ snd_una[q] <= snd_nxt[q]
                        /\ snd_nxt[q] <= MaxSegs[q]
    <3>1. ASSUME NEW q \in Peer
          PROVE  /\ snd_nxt[q] \in Nat /\ snd_una[q] \in Nat /\ snd_una[q] <= snd_nxt[q]
                 /\ snd_nxt[q] <= MaxSegs[q]
      <4>1. /\ snd_nxt[q] \in Nat /\ Len(snd_queue[q]) \in Nat /\ MaxSegs[q] \in Nat
            /\ Len(sent[q]) \in Nat
            /\ snd_nxt[q] + Len(snd_queue[q]) = Len(sent[q]) /\ Len(sent[q]) <= MaxSegs[q]
            /\ snd_una[q] \in Nat /\ snd_una[q] <= snd_nxt[q]
        BY Bounds
      <4> QED BY <4>1
    <3> QED BY <3>1
  <2>2. rcv_nxt[p] \in Nat /\ rcv_nxt[p] <= snd_nxt[o]
    BY <1>1, Bounds
  <2> QED BY <1>1, <2>1, <2>2
<1>5. 2 * (snd_nxt[p] + Wnd[p]) < SnMod
  BY <1>2, <1>3, <1>4
<1>6. 2 * (snd_nxt[o] + Wnd[p]) < SnMod /\ 2 * (rcv_nxt[p] + Wnd[p]) < SnMod
  BY <1>2, <1>3, <1>4
<1>7. snd_buf[p] \in Buffer /\ rcv_buf[p] \in Buffer
  BY DEF IInv, TypeOK, Buffer, Segment
<1> QED BY <1>2, <1>4, <1>5, <1>6, <1>7 DEF o

\* What Input leaves in snd_buf, and its first number as snd_una.
LEMMA SenderKeeps ==
    ASSUME NoWrap, IInv, WinInv, NEW p \in Peer,
           NEW buf \in Buffer, Spaced(buf), Above(buf, snd_una[p]),
           snd_buf' = [snd_buf EXCEPT ![p] = buf],
           snd_una' = [snd_una EXCEPT ![p] = shrink_buf(buf, snd_nxt[p])],
           snd_nxt' = snd_nxt
    PROVE  \A q \in Peer : SndWin(q)'
<1>1. snd_buf \in [Peer -> Seq(Segment)] /\ snd_una \in [Peer -> Sns]
  BY DEF IInv, TypeOK, Segment
<1>2. shrink_buf(buf, snd_nxt[p]) \in Nat /\ snd_una[p] <= shrink_buf(buf, snd_nxt[p])
  <2>1. snd_nxt[p] \in Nat /\ snd_una[p] <= snd_nxt[p]
    BY WindowBounds
  <2>2. CASE buf = <<>>
    BY <2>1, <2>2 DEF shrink_buf
  <2>3. CASE buf # <<>>
    <3>1. 1 \in 1..Len(buf)
      BY <2>3 DEF Buffer
    <3>2. buf[1].sn \in Nat /\ snd_una[p] <= buf[1].sn
      BY <3>1, Buffered DEF Above
    <3> QED BY <2>3, <3>2 DEF shrink_buf
  <2> QED BY <2>2, <2>3
<1>3. ASSUME NEW q \in Peer
      PROVE  SndWin(q)'
  <2>1. CASE q = p
    <3>1. snd_buf'[p] = buf /\ snd_una'[p] = shrink_buf(buf, snd_nxt[p])
      BY <1>1
    <3>2. snd_nxt[p] <= snd_una[p] + Wnd[p]
      BY DEF WinInv, SndWin
    <3>3. snd_nxt[p] <= snd_una'[p] + Wnd[p]
      <4>1. snd_nxt[p] \in Nat /\ snd_una[p] \in Nat /\ Wnd[p] \in Nat
        BY WindowBounds
      <4> QED BY <1>2, <3>1, <3>2, <4>1
    <3> QED BY <2>1, <3>1, <3>3 DEF SndWin
  <2>2. CASE q # p
    <3>1. snd_buf'[q] = snd_buf[q] /\ snd_una'[q] = snd_una[q] /\ snd_nxt'[q] = snd_nxt[q]
      BY <1>1, <2>2
    <3>2. SndWin(q)
      BY DEF WinInv
    <3> QED BY <3>1, <3>2 DEF SndWin
  <2> QED BY <2>1, <2>2
<1> QED BY <1>3

\* The old send buffer satisfies what the lemmas on it ask for.
LEMMA SendWindow ==
    ASSUME NoWrap, IInv, WinInv, NEW p \in Peer
    PROVE  /\ snd_buf[p] \in Buffer /\ Spaced(snd_buf[p])
           /\ snd_una[p] \in Nat /\ Above(snd_buf[p], snd_una[p])
<1>1. /\ snd_buf[p] \in Buffer /\ Spaced(snd_buf[p]) /\ snd_una[p] \in Nat /\ snd_nxt[p] \in Nat
      /\ snd_una[p] = shrink_buf(snd_buf[p], snd_nxt[p])
  BY WindowBounds DEF WinInv, SndWin
<1>2. Above(snd_buf[p], shrink_buf(snd_buf[p], snd_nxt[p]))
  BY <1>1, FirstIsLeast
<1> QED BY <1>1, <1>2

\* An acknowledgement by una keeps the sender's window ...
LEMMA DropAckedWindow ==
    ASSUME NoWrap, IInv, WinInv, NEW p \in Peer, NEW s, DropAcked(p, s), snd_nxt' = snd_nxt
    PROVE  \A q \in Peer : SndWin(q)'
<1>1. PICK buf \in parse_una(snd_buf[p], s.una) :
         /\ snd_buf' = [snd_buf EXCEPT ![p] = buf]
         /\ snd_una' = [snd_una EXCEPT ![p] = shrink_buf(buf, snd_nxt[p])]
  BY DEF DropAcked
<1>2. buf \in Buffer /\ Spaced(buf) /\ Above(buf, snd_una[p])
  BY <1>1, SendWindow, SpacedParseUna
<1> QED BY <1>1, <1>2, SenderKeeps

\* ... and so does one of a single segment.
LEMMA InputAckWindow ==
    ASSUME NoWrap, IInv, WinInv, NEW p \in Peer, InputAck(p)
    PROVE  \A q \in Peer : SndWin(q)'
<1>1. PICK s \in rx :
        /\ Take(p, s, "ACK")
        /\ \E old \in parse_una(snd_buf[p], s.una) :
           \E buf \in parse_ack(old, shrink_buf(old, snd_nxt[p]), snd_nxt[p], s.sn) :
              /\ snd_buf' = [snd_buf EXCEPT ![p] = buf]
              /\ snd_una' = [snd_una EXCEPT ![p] = shrink_buf(buf, snd_nxt[p])]
  BY DEF InputAck
<1>2. PICK old \in parse_una(snd_buf[p], s.una) :
           \E buf \in parse_ack(old, shrink_buf(old, snd_nxt[p]), snd_nxt[p], s.sn) :
              /\ snd_buf' = [snd_buf EXCEPT ![p] = buf]
              /\ snd_una' = [snd_una EXCEPT ![p] = shrink_buf(buf, snd_nxt[p])]
  BY <1>1
<1>3. PICK buf \in parse_ack(old, shrink_buf(old, snd_nxt[p]), snd_nxt[p], s.sn) :
              /\ snd_buf' = [snd_buf EXCEPT ![p] = buf]
              /\ snd_una' = [snd_una EXCEPT ![p] = shrink_buf(buf, snd_nxt[p])]
  BY <1>2
<1>4. old \in Buffer /\ Spaced(old) /\ Above(old, snd_una[p]) /\ snd_una[p] \in Nat
  BY <1>2, SendWindow, SpacedParseUna
<1>5. buf \in Buffer /\ Spaced(buf) /\ Above(buf, snd_una[p])
  BY <1>3, <1>4, SpacedParseAck
<1>6. snd_nxt' = snd_nxt
  BY <1>1 DEF Take
<1> QED BY <1>3, <1>5, <1>6, SenderKeeps

\* The move loop takes less than a window, and only into a queue below one.
LEMMA MovedWindow ==
    ASSUME NoWrap, IInv, WinInv, NEW p \in Peer,
           NEW buf \in Buffer, Spaced(buf), Within(buf, rcv_nxt[p], Wnd[p]),
           NEW queue \in Seq(Item), Len(queue) <= 2 * Wnd[p] - 1,
           MoveReady(p, buf, queue)
    PROVE  \A q \in Peer : RcvWin(q)'
<1>1. PICK k \in Ready(buf, rcv_nxt[p], Len(queue), Wnd[p]) :
         /\ rcv_nxt'   = [rcv_nxt EXCEPT ![p] = Add32(@, k)]
         /\ rcv_buf'   = [rcv_buf EXCEPT ![p] = remove_front(buf, k)]
         /\ rcv_queue' = [rcv_queue EXCEPT ![p] = queue \o [i \in 1..k |-> buf[i].item]]
  BY DEF MoveReady
<1> DEFINE items == [i \in 1..k |-> buf[i].item]
           left  == remove_front(buf, k)
           nxt   == rcv_nxt[p]
           w     == Wnd[p]
<1>2. k \in 0..Len(buf) /\ \A i \in 1..k : Len(queue) < w
  BY <1>1 DEF Ready, Leading
<1>3. nxt \in Nat /\ w \in Nat /\ w > 0 /\ nxt + w < SnMod /\ SnMod \in Nat
  BY WindowBounds
<1>4. /\ rcv_nxt \in [Peer -> Sns] /\ rcv_buf \in [Peer -> Seq(Segment)]
      /\ rcv_queue \in [Peer -> Seq(Item)]
  BY DEF IInv, TypeOK, Segment
<1>5. Len(buf) <= w /\ Len(buf) \in Nat /\ \A i \in 1..Len(buf) : nxt + (i - 1) <= buf[i].sn
  <2>1. Len(buf) \in Nat
    BY DEF Buffer
  <2> QED BY <1>3, <2>1, WindowHolds
<1>6. /\ left \in Buffer /\ Len(left) = Len(buf) - k
      /\ \A i \in 1..(Len(buf) - k) : left[i] = buf[k + i]
  <2>1. buf \in Seq(Segment)
    BY DEF Buffer
  <2> QED BY <1>2, <2>1, RemoveFront DEF Buffer
<1>7. Spaced(left)
  <2>1. Above(buf, nxt)
    BY DEF Within, Above
  <2> QED BY <1>2, <1>3, <2>1, SpacedFront
<1>8. Add32(nxt, k) = nxt + k /\ k \in Nat /\ k <= w
  <2>1. k \in Nat /\ k <= w /\ nxt + k < SnMod
    BY <1>2, <1>3, <1>5
  <2> QED BY <1>3, <2>1, NoWrapAdd
<1>9. Len(queue \o items) = Len(queue) + k
  <2>1. items \in Seq(Item) /\ Len(items) = k
    <3>1. \A i \in 1..k : buf[i].item \in Item
      BY <1>2, <1>5, Buffered
    <3> QED BY <1>8, <3>1
  <2> HIDE DEF items
  <2> QED BY <2>1
<1>10. /\ rcv_nxt'[p] = Add32(nxt, k) /\ rcv_buf'[p] = left /\ rcv_queue'[p] = queue \o items
       /\ \A q \in Peer \ {p} : /\ rcv_nxt'[q] = rcv_nxt[q] /\ rcv_buf'[q] = rcv_buf[q]
                                /\ rcv_queue'[q] = rcv_queue[q]
  BY <1>1, <1>4
<1> HIDE DEF left, items
<1>11. Within(left, nxt + k, w)
  <2>1. ASSUME NEW i \in 1..Len(left)
        PROVE  nxt + k <= left[i].sn /\ left[i].sn < (nxt + k) + w
    <3>1. left[i] = buf[k + i] /\ k + i \in 1..Len(buf) /\ 1 <= i
      BY <1>2, <1>5, <1>6
    <3>2. nxt + ((k + i) - 1) <= buf[k + i].sn /\ buf[k + i].sn < nxt + w
      BY <1>5, <3>1 DEF Within
    <3>3. buf[k + i].sn \in Nat /\ i \in Nat
      BY <3>1, Buffered
    <3>4. \A x \in Nat : nxt + ((k + i) - 1) <= x /\ x < nxt + w => nxt + k <= x /\ x < (nxt + k) + w
      <4>1. \A a, b, c, d, x \in Nat :
               1 <= d /\ a + ((b + d) - 1) <= x /\ x < a + c => a + b <= x /\ x < (a + b) + c
        OBVIOUS
      <4> QED BY <1>3, <1>8, <3>1, <3>3, <4>1
    <3> QED BY <3>1, <3>2, <3>3, <3>4
  <2> QED BY <2>1 DEF Within
<1>12. Len(queue) + k <= 2 * w - 1
  <2>1. Len(queue) \in Nat
    OBVIOUS
  <2>2. CASE k = 0
    BY <2>1, <2>2
  <2>3. CASE k > 0
    <3>1. Len(queue) < w
      <4>1. 1 \in 1..k
        BY <1>8, <2>3
      <4> QED BY <1>2, <4>1
    <3> QED BY <1>3, <1>8, <2>1, <3>1
  <2> QED BY <1>8, <2>2, <2>3
<1>13. RcvWin(p)'
  <2>1. rcv_nxt'[p] = nxt + k /\ rcv_buf'[p] = left /\ Len(rcv_queue'[p]) = Len(queue) + k
    BY <1>8, <1>9, <1>10 DEF items
  <2> QED BY <1>7, <1>11, <1>12, <2>1 DEF RcvWin
<1>14. ASSUME NEW q \in Peer, q # p
       PROVE  RcvWin(q)'
  <2>1. RcvWin(q)
    BY DEF WinInv
  <2> QED BY <1>10, <1>14, <2>1 DEF RcvWin
<1> QED BY <1>13, <1>14

\* A receiver that does nothing keeps its window ...
LEMMA ReceiverIdle ==
    ASSUME WinInv, UNCHANGED rcvVars
    PROVE  \A q \in Peer : RcvWin(q)'
BY DEF WinInv, RcvWin, rcvVars

\* ... and a sender.
LEMMA SenderIdle ==
    ASSUME WinInv, UNCHANGED <<snd_buf, snd_una, snd_nxt>>
    PROVE  \A q \in Peer : SndWin(q)'
BY DEF WinInv, SndWin

\* A data segment of the window.
LEMMA InputDataWindow ==
    ASSUME NoWrap, IInv, WinInv, NEW p \in Peer, InputData(p)
    PROVE  WinInv'
<1>1. PICK s \in rx :
        /\ Take(p, s, "PUSH") /\ DropAcked(p, s)
        /\ InWindow(s.sn, rcv_nxt[p], Wnd[p])
        /\ itimediff(s.sn, rcv_nxt[p]) >= 0
        /\ \E more \in Inserted(rcv_buf[p], s.sn, s.item) : MoveReady(p, more, rcv_queue[p])
  BY DEF InputData
<1>2. PICK more \in Inserted(rcv_buf[p], s.sn, s.item) : MoveReady(p, more, rcv_queue[p])
  BY <1>1
<1>3. s.cmd = "PUSH" /\ busy = {p} /\ snd_nxt' = snd_nxt
  BY <1>1 DEF Take
<1>4. s.sn \in Sns /\ s.sn \in Nat /\ s.item \in Item /\ s.sn < snd_nxt[Other(p)]
  <2>1. s.sn \in Sns /\ s.sn \in Nat /\ s.item \in Item /\ IsSeg(Other(p), s.sn, s.item)
    BY <1>3, Incoming
  <2> QED BY <2>1 DEF IsSeg
<1>5. /\ rcv_buf[p] \in Buffer /\ rcv_nxt[p] \in Nat /\ Wnd[p] \in Nat /\ SnMod \in Nat
      /\ 2 * (rcv_nxt[p] + Wnd[p]) < SnMod /\ 2 * (snd_nxt[Other(p)] + Wnd[p]) < SnMod
      /\ snd_nxt[Other(p)] \in Nat
  BY WindowBounds, Peers
<1>6. Spaced(rcv_buf[p]) /\ Within(rcv_buf[p], rcv_nxt[p], Wnd[p]) /\ Len(rcv_queue[p]) <= 2 * Wnd[p] - 1
  BY DEF WinInv, RcvWin
<1>7. 2 * s.sn < SnMod /\ rcv_nxt[p] <= s.sn /\ s.sn < rcv_nxt[p] + Wnd[p]
  <2>1. 2 * s.sn < SnMod /\ 2 * rcv_nxt[p] < SnMod /\ rcv_nxt[p] + Wnd[p] < SnMod
    BY <1>4, <1>5
  <2>2. itimediff(s.sn, rcv_nxt[p]) = s.sn - rcv_nxt[p] /\ Add32(rcv_nxt[p], Wnd[p]) = rcv_nxt[p] + Wnd[p]
    BY <1>4, <1>5, <2>1, NoWrapDiff, NoWrapAdd
  <2>3. itimediff(s.sn, rcv_nxt[p] + Wnd[p]) = s.sn - (rcv_nxt[p] + Wnd[p])
    <3>1. rcv_nxt[p] + Wnd[p] \in Nat
      BY <1>5
    <3> QED BY <1>4, <1>5, <2>1, <3>1, NoWrapDiff
  <2>4. s.sn - rcv_nxt[p] >= 0 /\ s.sn - (rcv_nxt[p] + Wnd[p]) < 0
    BY <1>1, <2>2, <2>3 DEF InWindow
  <2> QED BY <1>4, <1>5, <2>1, <2>4
<1>8. Above(rcv_buf[p], rcv_nxt[p]) /\ \A i \in 1..Len(rcv_buf[p]) : 2 * rcv_buf[p][i].sn < SnMod
  <2>1. ASSUME NEW i \in 1..Len(rcv_buf[p])
        PROVE  rcv_nxt[p] <= rcv_buf[p][i].sn /\ 2 * rcv_buf[p][i].sn < SnMod
    <3>1. rcv_nxt[p] <= rcv_buf[p][i].sn /\ rcv_buf[p][i].sn < rcv_nxt[p] + Wnd[p]
      BY <1>6 DEF Within
    <3>2. rcv_buf[p][i].sn \in Nat
      BY <1>5, Buffered
    <3>3. \A a, b, c \in Nat : a < b /\ 2 * b < c => 2 * a < c
      OBVIOUS
    <3>4. rcv_nxt[p] + Wnd[p] \in Nat
      BY <1>5
    <3> QED BY <1>5, <3>1, <3>2, <3>3, <3>4
  <2> QED BY <2>1 DEF Above
<1>9. /\ more \in Buffer /\ Spaced(more) /\ Above(more, rcv_nxt[p])
      /\ \A i \in 1..Len(more) :
            more[i].sn = s.sn \/ \E j \in 1..Len(rcv_buf[p]) : more[i] = rcv_buf[p][j]
  <2> DEFINE sn   == s.sn
             item == s.item
             buf  == rcv_buf[p]
             n    == rcv_nxt[p]
  <2>1. /\ buf \in Buffer /\ Spaced(buf) /\ n \in Nat /\ Above(buf, n)
        /\ sn \in Sns /\ item \in Item /\ n <= sn /\ 2 * sn < SnMod
        /\ \A i \in 1..Len(buf) : 2 * buf[i].sn < SnMod
        /\ more \in Inserted(buf, sn, item)
    BY <1>2, <1>4, <1>5, <1>6, <1>7, <1>8
  <2> HIDE DEF sn, item, buf, n
  <2>2. /\ more \in Buffer /\ Spaced(more) /\ Above(more, n)
        /\ \A i \in 1..Len(more) : more[i].sn = sn \/ \E j \in 1..Len(buf) : more[i] = buf[j]
    BY <2>1, SpacedSegment
  <2> QED BY <2>2 DEF sn, buf, n
<1>10. Within(more, rcv_nxt[p], Wnd[p])
  <2>1. ASSUME NEW i \in 1..Len(more)
        PROVE  rcv_nxt[p] <= more[i].sn /\ more[i].sn < rcv_nxt[p] + Wnd[p]
    <3>1. CASE more[i].sn = s.sn
      BY <1>7, <3>1
    <3>2. CASE \E j \in 1..Len(rcv_buf[p]) : more[i] = rcv_buf[p][j]
      BY <1>6, <3>2 DEF Within
    <3> QED BY <1>9, <3>1, <3>2
  <2> QED BY <2>1 DEF Within
<1>11. rcv_queue[p] \in Seq(Item)
  BY DEF IInv, TypeOK
<1>12. \A q \in Peer : RcvWin(q)'
  BY <1>2, <1>6, <1>9, <1>10, <1>11, MovedWindow
<1>13. \A q \in Peer : SndWin(q)'
  BY <1>1, <1>3, DropAckedWindow
<1> QED BY <1>12, <1>13 DEF WinInv

\* Handing over a message makes room, and moves on what waits for it.
LEMMA RecvWindow ==
    ASSUME NoWrap, IInv, WinInv, NEW p \in Peer, Recv(p)
    PROVE  WinInv'
<1>1. PICK n \in MessageLen(rcv_queue[p]) :
          MoveReady(p, rcv_buf[p], remove_front(rcv_queue[p], n))
  BY DEF Recv
<1>2. UNCHANGED <<snd_buf, snd_una, snd_nxt>>
  BY DEF Recv, sndVars
<1>3. rcv_queue[p] \in Seq(Item) /\ n \in 0..Len(rcv_queue[p])
  <2>1. rcv_queue[p] \in Seq(Item)
    BY DEF IInv, TypeOK
  <2>2. n \in DOMAIN rcv_queue[p]
    BY <1>1 DEF MessageLen
  <2> QED BY <2>1, <2>2
<1> DEFINE queue == remove_front(rcv_queue[p], n)
<1>4. queue \in Seq(Item) /\ Len(queue) = Len(rcv_queue[p]) - n
  BY <1>3, RemoveFront
<1>5. MoveReady(p, rcv_buf[p], queue)
  BY <1>1
<1> HIDE DEF queue
<1>6. Spaced(rcv_buf[p]) /\ Within(rcv_buf[p], rcv_nxt[p], Wnd[p]) /\ Len(rcv_queue[p]) <= 2 * Wnd[p] - 1
  BY DEF WinInv, RcvWin
<1>7. Wnd[p] \in Nat /\ rcv_buf[p] \in Buffer
  BY WindowBounds
<1>8. Len(queue) <= 2 * Wnd[p] - 1
  <2>1. Len(rcv_queue[p]) \in Nat /\ n \in Nat
    BY <1>3
  <2> QED BY <1>4, <1>6, <1>7, <2>1
<1>9. \A q \in Peer : RcvWin(q)'
  BY <1>4, <1>5, <1>6, <1>7, <1>8, MovedWindow
<1>10. \A q \in Peer : SndWin(q)'
  BY <1>2, SenderIdle
<1> QED BY <1>9, <1>10 DEF WinInv

\* A flush gives numbers up to snd_una and the window, in the order it sends.
LEMMA FlushWindow ==
    ASSUME NoWrap, IInv, WinInv, NEW p \in Peer, Flush(p)
    PROVE  WinInv'
<1>0. PICK due \in BOOLEAN, w \in Windows(p) :
          \E m \in Movable(snd_queue[p], snd_nxt[p], snd_una[p], w) :
          \E again \in SUBSET DOMAIN snd_buf[p] : FlushSends(p, due, m, again)
  BY DEF Flush
<1>1. PICK m \in Movable(snd_queue[p], snd_nxt[p], snd_una[p], w) :
          \E again \in SUBSET DOMAIN snd_buf[p] : FlushSends(p, due, m, again)
  BY <1>0
<1> DEFINE new  == [i \in 1..m |-> [sn |-> Add32(snd_nxt[p], i - 1), item |-> snd_queue[p][i]]]
           both == snd_buf[p] \o new
           nxt  == snd_nxt[p]
           una  == snd_una[p]
<1>2. /\ snd_buf' = [snd_buf EXCEPT ![p] = both]
      /\ snd_nxt' = [snd_nxt EXCEPT ![p] = Add32(@, m)]
      /\ snd_una' = snd_una /\ UNCHANGED rcvVars
  <2>1. /\ snd_buf' = [snd_buf EXCEPT ![p] = @ \o new]
        /\ snd_nxt' = [snd_nxt EXCEPT ![p] = Add32(@, m)]
    BY <1>1 DEF FlushSends
  <2>2. snd_una' = snd_una /\ UNCHANGED rcvVars
    BY DEF Flush
  <2> QED BY <2>1, <2>2
<1>3. /\ snd_buf \in [Peer -> Seq(Segment)] /\ snd_nxt \in [Peer -> Sns]
      /\ snd_queue[p] \in Seq(Item) /\ rmt_wnd[p] \in Nat
  BY DEF IInv, TypeOK, Segment
<1>4. /\ nxt \in Nat /\ una \in Nat /\ una <= nxt /\ Wnd[p] \in Nat /\ SnMod \in Nat
      /\ 2 * (nxt + Wnd[p]) < SnMod
  BY WindowBounds
<1>5. w \in Nat /\ w <= Wnd[p]
  BY <1>3, <1>4 DEF Windows, Min2
<1>6. /\ m \in Nat /\ m <= Len(snd_queue[p]) /\ Len(snd_queue[p]) \in Nat
      /\ \A i \in 1..m : itimediff(Add32(nxt, i - 1), Add32(una, w)) < 0
  <2>1. m \in 0..Len(snd_queue[p]) /\ Len(snd_queue[p]) \in Nat
    BY <1>3 DEF Movable, Leading
  <2>2. 1..m \subseteq {i \in DOMAIN snd_queue[p] :
                         itimediff(Add32(nxt, i - 1), Add32(una, w)) < 0}
    BY DEF Movable, Leading
  <2>3. \A i \in 1..m : itimediff(Add32(nxt, i - 1), Add32(una, w)) < 0
    BY Zenon, <2>2
  <2>4. m \in Nat /\ m <= Len(snd_queue[p])
    BY <2>1
  <2> QED BY <2>1, <2>3, <2>4
<1>7. /\ nxt + m < SnMod /\ 2 * (nxt + m) < SnMod
  <2>1. /\ nxt + Len(snd_queue[p]) = Len(sent[p]) /\ Len(sent[p]) \in Nat
        /\ Len(sent[p]) <= MaxSegs[p] /\ MaxSegs[p] \in Nat
        /\ 2 * (MaxSegs[p] + Wnd[p]) < SnMod
    BY Bounds
  <2>2. nxt + m <= MaxSegs[p]
    BY <1>4, <1>6, <2>1
  <2>3. 2 * (nxt + m) <= 2 * (MaxSegs[p] + Wnd[p])
    <3>1. \A a, b, c, d \in Nat : a + b <= c => 2 * (a + b) <= 2 * (c + d)
      OBVIOUS
    <3> QED BY <1>4, <1>6, <2>1, <2>2, <3>1
  <2>4. \A a, b \in Nat : 2 * a <= 2 * b /\ 2 * b < SnMod => a < SnMod /\ 2 * a < SnMod
    BY <1>4
  <2>5. nxt + m \in Nat /\ MaxSegs[p] + Wnd[p] \in Nat /\ 2 * (MaxSegs[p] + Wnd[p]) < SnMod
    <3>1. nxt + m \in Nat
      BY <1>4, <1>6
    <3>2. MaxSegs[p] + Wnd[p] \in Nat
      BY <1>4, <2>1
    <3> QED BY <2>1, <3>1, <3>2
  <2> QED BY <2>3, <2>4, <2>5
<1>8. \A i \in 1..m : /\ Add32(nxt, i - 1) = nxt + i - 1 /\ nxt + i - 1 \in Sns
                      /\ snd_queue[p][i] \in Item
  <2>1. ASSUME NEW i \in 1..m
        PROVE  /\ Add32(nxt, i - 1) = nxt + i - 1 /\ nxt + i - 1 \in Sns
               /\ snd_queue[p][i] \in Item
    <3>1. i \in Nat /\ i - 1 \in Nat /\ nxt + (i - 1) < SnMod /\ i \in 1..Len(snd_queue[p])
      BY <1>4, <1>6, <1>7
    <3>2. Add32(nxt, i - 1) = nxt + (i - 1)
      BY <1>4, <3>1, NoWrapAdd
    <3>3. nxt + (i - 1) = nxt + i - 1 /\ nxt + i - 1 \in Sns
      BY <1>4, <3>1 DEF Sns
    <3>4. snd_queue[p][i] \in Item
      BY <1>3, <3>1
    <3> QED BY <3>2, <3>3, <3>4
  <2> QED BY <2>1
<1>9. new \in Buffer /\ Len(new) = m /\ \A i \in 1..m : new[i].sn = nxt + i - 1
  <2>1. new \in [1..m -> Segment]
    BY <1>8 DEF Segment
  <2>2. \A i \in 1..m : new[i].sn = nxt + i - 1
    BY <1>8
  <2> HIDE DEF new
  <2> QED BY <1>6, <2>1, <2>2 DEF Buffer
<1> HIDE DEF new
<1>10. /\ both \in Buffer /\ Len(both) = Len(snd_buf[p]) + Len(new)
       /\ \A i \in 1..Len(snd_buf[p]) : both[i] = snd_buf[p][i]
       /\ \A i \in 1..Len(new) : both[Len(snd_buf[p]) + i] = new[i]
  <2>1. snd_buf[p] \in Seq(Segment) /\ new \in Seq(Segment)
    BY <1>3, <1>9 DEF Buffer
  <2> QED BY <2>1, Joined DEF Buffer
<1>11. /\ snd_buf'[p] = both /\ snd_nxt'[p] = nxt + m
       /\ \A q \in Peer \ {p} : snd_buf'[q] = snd_buf[q] /\ snd_nxt'[q] = snd_nxt[q]
  <2>1. Add32(nxt, m) = nxt + m
    BY <1>4, <1>6, <1>7, NoWrapAdd
  <2>2. snd_nxt'[p] = Add32(nxt, m)
    BY <1>2, <1>3
  <2>3. snd_buf'[p] = both
    BY <1>2, <1>3
  <2> QED BY <1>2, <1>3, <2>1, <2>2, <2>3
<1> HIDE DEF both
<1>12. /\ snd_buf[p] \in Buffer /\ Spaced(snd_buf[p])
       /\ una = shrink_buf(snd_buf[p], nxt) /\ nxt <= una + Wnd[p]
       /\ \A i \in 1..Len(snd_buf[p]) : snd_buf[p][i].sn < nxt
  <2>1. /\ snd_buf[p] \in Buffer /\ Spaced(snd_buf[p])
        /\ una = shrink_buf(snd_buf[p], nxt) /\ nxt <= una + Wnd[p]
    BY SendWindow DEF WinInv, SndWin
  <2>2. Segments(p, snd_buf[p])
    BY DEF IInv, PeerInv, BufInv
  <2> QED BY <2>1, <2>2 DEF Segments, IsSeg
<1>13. Spaced(both)
  <2>1. \A i \in 1..Len(new) : new[i].sn = nxt + i - 1
    BY <1>9
  <2> QED BY <1>4, <1>9, <1>10, <1>12, <2>1, SpacedJoined
<1>14. una = shrink_buf(both, nxt + m)
  <2>1. CASE snd_buf[p] # <<>>
    <3>1. 1 \in 1..Len(snd_buf[p]) /\ 1 \in 1..Len(both)
      BY <1>9, <1>10, <1>12, <1>6, <2>1 DEF Buffer
    <3>2. both # <<>> /\ both[1] = snd_buf[p][1]
      BY <1>10, <3>1
    <3> QED BY <1>12, <2>1, <3>2 DEF shrink_buf
  <2>2. CASE snd_buf[p] = <<>> /\ m = 0
    <3>1. Len(both) = 0 /\ una = nxt
      BY <1>9, <1>10, <1>12, <2>2 DEF shrink_buf
    <3>2. both = <<>>
      BY <1>10, <3>1 DEF Buffer
    <3> QED BY <1>4, <2>2, <3>1, <3>2 DEF shrink_buf
  <2>3. CASE snd_buf[p] = <<>> /\ m > 0
    <3>1. una = nxt /\ Len(snd_buf[p]) = 0 /\ 1 \in 1..m
      BY <1>6, <1>12, <2>3 DEF shrink_buf
    <3>2. both[0 + 1] = new[1] /\ Len(both) = m
      BY <1>6, <1>9, <1>10, <3>1
    <3>3. both # <<>> /\ both[1].sn = nxt
      <4>1. new[1].sn = nxt + 1 - 1
        BY <1>9, <3>1
      <4>2. both # <<>>
        BY <2>3, <3>2
      <4> QED BY <1>4, <3>2, <4>1, <4>2
    <3> QED BY <3>1, <3>3 DEF shrink_buf
  <2> QED BY <1>6, <2>1, <2>2, <2>3
<1>15. nxt + m <= una + Wnd[p]
  <2>1. CASE m = 0
    BY <1>4, <1>12, <2>1
  <2>2. CASE m > 0
    <3>1. m \in 1..m /\ nxt + (m - 1) \in Nat /\ una + w \in Nat
      <4>1. m \in 1..m
        BY <1>6, <2>2
      <4>2. nxt + (m - 1) \in Nat
        BY <1>4, <1>6, <2>2
      <4>3. una + w \in Nat
        BY <1>4, <1>5
      <4> QED BY <4>1, <4>2, <4>3
    <3>2. Add32(nxt, m - 1) = nxt + (m - 1)
      BY <1>4, <1>8, <3>1
    <3>3. 2 * (nxt + (m - 1)) < SnMod /\ 2 * (una + w) < SnMod /\ una + w < SnMod
      <4>1. 2 * (nxt + (m - 1)) < SnMod
        BY <1>4, <1>6, <1>7
      <4>2. una + w <= nxt + Wnd[p]
        BY <1>4, <1>5
      <4> QED BY <1>4, <1>5, <4>1, <4>2
    <3>4. Add32(una, w) = una + w
      BY <1>4, <1>5, <3>3, NoWrapAdd
    <3>5. itimediff(nxt + (m - 1), una + w) = (nxt + (m - 1)) - (una + w)
      BY <3>1, <3>3, NoWrapDiff
    <3>6. (nxt + (m - 1)) - (una + w) < 0
      BY <1>6, <3>1, <3>2, <3>4, <3>5
    <3>7. \A a, b, c, d, e \in Nat : (a + (b - 1)) - (c + d) < 0 /\ d <= e => a + b <= c + e
      OBVIOUS
    <3> QED BY <1>4, <1>5, <1>6, <3>6, <3>7
  <2> QED BY <1>6, <2>1, <2>2
<1>16. ASSUME NEW q \in Peer
       PROVE  SndWin(q)'
  <2>1. CASE q = p
    <3>1. snd_una'[p] = una
      BY <1>2
    <3> QED BY <1>11, <1>13, <1>14, <1>15, <2>1, <3>1 DEF SndWin
  <2>2. CASE q # p
    <3>1. snd_buf'[q] = snd_buf[q] /\ snd_nxt'[q] = snd_nxt[q] /\ snd_una'[q] = snd_una[q]
      BY <1>2, <1>11, <2>2
    <3>2. SndWin(q)
      BY DEF WinInv
    <3> QED BY <3>1, <3>2 DEF SndWin
  <2> QED BY <2>1, <2>2
<1>17. \A q \in Peer : RcvWin(q)'
  BY <1>2, ReceiverIdle
<1> QED BY <1>16, <1>17 DEF WinInv

\* Every step keeps the windows.
LEMMA WindowsKept ==
    ASSUME NoWrap, IInv, WinInv, [Next]_vars
    PROVE  WinInv'
<1>1. ASSUME NEW p \in Peer, NEW n \in Frags, Send(p, n)
      PROVE  WinInv'
  <2>1. UNCHANGED <<snd_buf, snd_una, snd_nxt>> /\ UNCHANGED rcvVars
    BY <1>1 DEF Send
  <2> QED BY <2>1, SenderIdle, ReceiverIdle DEF WinInv
<1>2. ASSUME NEW p \in Peer, Receive(p) \/ InputEnd(p)
      PROVE  WinInv'
  <2>1. UNCHANGED <<snd_buf, snd_una, snd_nxt>> /\ UNCHANGED rcvVars
    BY <1>2 DEF Receive, InputEnd, sndVars
  <2> QED BY <2>1, SenderIdle, ReceiverIdle DEF WinInv
<1>3. ASSUME NEW p \in Peer, InputAck(p)
      PROVE  WinInv'
  <2>1. UNCHANGED rcvVars
    BY <1>3 DEF InputAck
  <2> QED BY <1>3, <2>1, InputAckWindow, ReceiverIdle DEF WinInv
<1>4. ASSUME NEW p \in Peer, InputRepeat(p) \/ InputBeyond(p) \/ InputWask(p) \/ InputWins(p)
      PROVE  WinInv'
  <2>1. PICK s : DropAcked(p, s) /\ snd_nxt' = snd_nxt /\ UNCHANGED rcvVars
    BY <1>4 DEF InputRepeat, InputBeyond, InputWask, InputWins, Take
  <2> QED BY <2>1, DropAckedWindow, ReceiverIdle DEF WinInv
<1>5. ASSUME UNCHANGED vars
      PROVE  WinInv'
  <2>1. UNCHANGED <<snd_buf, snd_una, snd_nxt>> /\ UNCHANGED rcvVars
    BY <1>5 DEF vars, sndVars
  <2> QED BY <2>1, SenderIdle, ReceiverIdle DEF WinInv
<1> QED BY <1>1, <1>2, <1>3, <1>4, <1>5, InputDataWindow, RecvWindow, FlushWindow DEF Next, Input

\* No sequence number of a short enough connection breaks the windows.
THEOREM WindowsKeep ==
    ASSUME NoWrap
    PROVE  Spec => []WinInv
<1>1. Init => WinInv
  <2>1. \A p \in Peer : Wnd[p] \in Nat /\ Wnd[p] > 0
    BY WndAssumption
  <2>2. ASSUME Init, NEW p \in Peer
        PROVE  SndWin(p) /\ RcvWin(p)
    <3>1. /\ snd_buf[p] = <<>> /\ rcv_buf[p] = <<>> /\ rcv_queue[p] = <<>>
          /\ snd_una[p] = 0 /\ snd_nxt[p] = 0
      BY <2>2 DEF Init
    <3> QED BY <2>1, <3>1 DEF SndWin, RcvWin, Spaced, Within, shrink_buf
  <2> QED BY <2>2 DEF WinInv
<1>2. NoWrap /\ IInv /\ WinInv /\ [Next]_vars => WinInv'
  BY WindowsKept
<1>3. Spec => []IInv
  BY Inductive
<1> QED BY <1>1, <1>2, <1>3, PTL DEF Spec

\* The receiver's buffers keep the bound that its two move loops leave them,
\* for any windows, messages and faults of the network.
THEOREM BuffersBounded ==
    ASSUME NoWrap
    PROVE  Spec => []RcvBounded
<1>1. IInv /\ WinInv => RcvBounded
  <2>1. ASSUME IInv, WinInv, NEW p \in Peer
        PROVE  Len(rcv_buf[p]) <= Wnd[p] /\ Len(rcv_queue[p]) <= 2 * Wnd[p] - 1
    <3>1. /\ rcv_buf[p] \in Buffer /\ rcv_nxt[p] \in Nat /\ Wnd[p] \in Nat
          /\ RcvWin(p)
      BY <2>1, WindowBounds DEF WinInv
    <3> QED BY <3>1, WindowHolds DEF RcvWin
  <2> QED BY <2>1 DEF RcvBounded
<1>2. Spec => []IInv /\ []WinInv
  BY Inductive, WindowsKeep
<1> QED BY <1>1, <1>2, PTL

\* What is before snd_una the peer has, in order or in its window: so an end
\* is never ahead of its peer by more than the two windows.
LEMMA LagOfWindows ==
    ASSUME NoWrap, IInv, WinInv, NEW p \in Peer
    PROVE  snd_una[p] <= rcv_nxt[Other(p)] + Wnd[Other(p)]
<1> DEFINE o == Other(p)
           n == snd_una[p] - 1
<1>1. /\ o \in Peer /\ snd_una[p] \in Nat /\ snd_nxt[p] \in Nat /\ snd_una[p] <= snd_nxt[p]
      /\ rcv_nxt[o] \in Nat /\ Wnd[o] \in Nat
  BY Peers, WindowBounds
<1>2. CASE snd_una[p] = 0
  BY <1>1, <1>2
<1>3. CASE snd_una[p] > 0
  <2>1. n \in 0..(snd_nxt[p] - 1) /\ n \in Nat
    BY <1>1, <1>3
  <2>2. ~ \E k \in 1..Len(snd_buf[p]) : snd_buf[p][k].sn = n
    <3>1. ASSUME NEW k \in 1..Len(snd_buf[p])
          PROVE  snd_buf[p][k].sn # n
      <4>1. snd_una[p] <= snd_buf[p][k].sn
        BY SendWindow DEF Above
      <4> QED BY <1>1, <4>1
    <3> QED BY <3>1
  <2>3. Has(o, n)
    <3>1. Covers(p, snd_buf[p])
      BY SendBuffer
    <3> QED BY <2>1, <2>2, <3>1 DEF Covers
  <2>4. Within(rcv_buf[o], rcv_nxt[o], Wnd[o])
    BY <1>1 DEF WinInv, RcvWin
  <2>5. n < rcv_nxt[o] + Wnd[o]
    <3>1. CASE n < rcv_nxt[o]
      BY <1>1, <2>1, <3>1
    <3>2. CASE \E k \in 1..Len(rcv_buf[o]) : rcv_buf[o][k].sn = n
      BY <2>4, <3>2 DEF Within
    <3> QED BY <2>3, <3>1, <3>2 DEF Has
  <2> QED BY <1>1, <2>5
<1> QED BY <1>1, <1>2, <1>3

\* An end has no more than its window unacknowledged, and is ahead of its peer
\* by no more than the two windows.
THEOREM LagBounded ==
    ASSUME NoWrap
    PROVE  Spec => []WindowLag
<1>1. IInv /\ WinInv => WindowLag
  <2>1. ASSUME IInv, WinInv, NEW p \in Peer
        PROVE  /\ itimediff(snd_nxt[p], snd_una[p]) \in 0..Wnd[p]
               /\ itimediff(snd_nxt[p], rcv_nxt[Other(p)]) \in 0..(Wnd[p] + Wnd[Other(p)])
    <3> DEFINE o == Other(p)
    <3>1. /\ o \in Peer /\ snd_una[p] \in Nat /\ snd_nxt[p] \in Nat /\ snd_una[p] <= snd_nxt[p]
          /\ rcv_nxt[o] \in Nat /\ Wnd[o] \in Nat /\ Wnd[p] \in Nat /\ SnMod \in Nat
          /\ 2 * (snd_nxt[p] + Wnd[p]) < SnMod /\ rcv_nxt[o] <= snd_nxt[p]
      BY <2>1, Peers, WindowBounds
    <3>2. 2 * snd_nxt[p] < SnMod /\ 2 * snd_una[p] < SnMod /\ 2 * rcv_nxt[o] < SnMod
      BY <3>1
    <3>3. /\ itimediff(snd_nxt[p], snd_una[p]) = snd_nxt[p] - snd_una[p]
          /\ itimediff(snd_nxt[p], rcv_nxt[o]) = snd_nxt[p] - rcv_nxt[o]
      BY <3>1, <3>2, NoWrapDiff
    <3>4. snd_nxt[p] <= snd_una[p] + Wnd[p]
      BY <2>1 DEF WinInv, SndWin
    <3>5. snd_una[p] <= rcv_nxt[o] + Wnd[o]
      BY <2>1, LagOfWindows
    <3>6. snd_nxt[p] - snd_una[p] \in 0..Wnd[p] /\ snd_nxt[p] - rcv_nxt[o] \in 0..(Wnd[p] + Wnd[o])
      BY <3>1, <3>4, <3>5
    <3> QED BY <3>3, <3>6
  <2> QED BY <2>1 DEF WindowLag
<1>2. Spec => []IInv /\ []WinInv
  BY Inductive, WindowsKeep
<1> QED BY <1>1, <1>2, PTL
=============================================================================
