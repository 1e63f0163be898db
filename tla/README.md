# toxtun in TLA+

toxtun tunnels TCP (and UDP) connections between two peers of the Tox network.
The client program accepts local connections, the server program dials the
backends. Each connection is a *channel* with a KCP object at either end: the
command packets (SYN, ACK, FIN) travel as Tox friend messages, the data as KCP
segments in Tox lossy packets. This directory models that protocol, checks it
with TLC and proves with TLAPS the safety properties that hold. Line numbers are those of this
commit's source.

## Inventory

| part | state | operations | what is hard | correct when |
|---|---|---|---|---|
| KCP engine, `kcp.go` | two queues, two buffers, `snd_una`, `snd_nxt`, `rcv_nxt`, windows, probe flags, `acklist`, timers, cwnd | `Send`, `Recv`, `Input`, `flush`/`Update`, `WaitSnd`, options | lost, repeated and reordered packets; stale acknowledgements and windows; closed windows; wrap of uint32 | messages arrive whole, once, in order; nothing is forgotten before it has arrived; nothing stays for ever |
| client, `tunnelc.go` | channels, their close flags, sockets | event loop: new connections, data and close events of readers, Tox and KCP polls, 15 s timer; goroutines: accept, read, wait | late ACK, FIN that cannot be sent, crossing FINs, packets that overtake messages | no panic, no socket or channel left behind |
| server, `tunneld.go` | the same | the same loop plus `kcpCheckClose` every second; `connectToBackend` in a goroutine | close while data is queued, failed dial, readers that wait for KCP | the same; the backend's data is sent before the FIN |
| pool, `channel.go` | `pool` by channel id, `pool2` by conv | put, remove | collisions, removal twice, restarts, access from goroutines | each program finds its live channels, and only them; no message reaches another's |
| packet codec, `channel.go`, `pkt.pb.go` | none | encode, parse | | lossless |
| UDP listener, `netx.go` | clients by address, one-slot channels | `Accept`, `Read`, `Close` | a full slot blocks the listener; close against send | a client's datagrams reach its one open connection in order; every connection is returned |
| statistics, `stats.go`, `snmp.go` | counters | events under a mutex | counters against reality | counters never hide a channel; the page is true |
| Tox node, `toxclient.go` | current and known nodes, friends and their file | bootstrap, switch of three nodes, friend requests | too few nodes, shared addresses, restarts | no friend of a finished callback is forgotten; the page is true |
| the rest | flags, logs, ping, stubs | | | |

The parts interact so: the reader goroutines of `tunnelc.go` and `tunneld.go`
call only `WaitSnd` of KCP and put events into channels of 256 places; the event
loop of each program takes them in any order and does everything else: `Send`,
`Update`, `Recv`, `Input`, all callbacks of Tox (from `iterate`), all pool
changes except `putServer`. KCP calls back `onKcpOutput`, which sends a lossy
packet.

There is one millisecond clock with two names, `iclock` (`utils.go:12`) and
`currentMs` (`kcp_buf.go:29`); the server's poll reads both (`tunneld.go:135`).

## Modules

| module | what it is |
|---|---|
| `ReliableStream` | abstract: what one KCP connection promises, two exact message streams |
| `KCP` | the two KCP objects of a channel and the network between them |
| `MCKCP` | instances of `KCP` for TLC |
| `KCPProofs` | theorems about `KCP` and their proofs |
| `KcpTimers` | the clock of one KCP object: poller, `Update`, `Check`, resend and probe timers, RTT, congestion window |
| `MCKcpTimers` | instances of `KcpTimers` for TLC |
| `KcpTimersProofs` | theorems about `KcpTimers` and their proofs: types, round trip, overtakings, congestion window |
| `KcpClockProofs` | the theorems about its times: regular flushes, timers ahead of the clock |
| `UdpListener` | `netx.go`: one UDP socket as a listener of connections |
| `UdpListenerProofs` | theorems about `UdpListener` and their proofs |
| `Tunnel` | channels from connect to close between the two programs, over an abstract KCP |
| `MCTunnel` | instances of `Tunnel` for TLC |
| `TunnelProofs` | theorems about `Tunnel` and their proofs |
| `Sessions` | the pools, the numbers and the convs, with restarts and clashes: which channel a message finds |
| `MCSessions` | instances of `Sessions` for TLC |
| `SessionsProofs` | theorems about `Sessions` and their proofs: types, isolation |
| `SessionsPoolsProofs` | the theorems about its maps and counters |
| `ToxNodes` | bootstrap nodes, server switch, friends and their file, the on-line state of the page |
| `MCToxNodes` | instances of `ToxNodes` for TLC |
| `ToxNodesProofs` | theorems about `ToxNodes` and their proofs |

### KCP

The variables are the fields of the Go struct, one function over the two ends
each; `net[p]` holds the packets on their way to `p`; `sent` and `got` are
histories. An item is one fragment: its number of following fragments and its
place in the stream, so the payload is distinct for every item. `Send`, `Recv`
and `Flush` are one action per call. `Input` handles a packet segment by segment
(`Receive`, one `Input...` action per segment, `InputEnd` with its immediate
flush of acknowledgements); the end stays `busy` meanwhile, and `Idle` keeps
everything else out. That loses no interleaving: the steps change only that end,
and in the program nothing runs inside `Input` either.

* A packet is a *set* of segments in the order the receiver happens to take them;
  all orders within a packet are explored. What a flush sends is lost or
  distributed over at most `NetCap` packets in every way, which includes how the
  code packs it by mtu.
* Packets leave `net` when received for the last time, so they repeat, reorder and
  vanish at will.
* Time: a flush resends any subset of `snd_buf` and, when the window is closed, may
  find the probe due. RTO, fast and early retransmission are special cases. The
  congestion window of an end with `nc = 0` is any number up to the window.
* The sequence numbers count modulo `SnMod` with `_itimediff` as the signed
  distance, and the plain comparison at `kcp.go:647` stays plain.
* Left out: stream mode (`stream` is never set); `Recv` returning -3 (the caller
  asks `PeekSize` first); messages of more than 255 fragments, which `Send`
  refuses (`FragAssumption`); `dead_link`, whose `state` nobody reads.

### KcpTimers

What `KCP` leaves to choice is computed here, for one KCP object and without its
peer: when the poller goroutine wakes the loop and how long it then sleeps (`Poll`,
`Doze`), when `serveKcp` of the client or the server calls `Update`, when `Update` flushes, which segments a flush
sends again and when their next time is, how `Input` sets the smoothed round trip,
the timeout and the congestion window. `end` is the kind of the end, with the
parameters of its speed mode; `snd_buf` maps the number of an unacknowledged
segment to its timeout, next time and count of overtakings.

* Acknowledgements are any the segments sent allow: all below some `una`, and any
  set above it in one packet. Which of them the network can really produce is the
  matter of `KCP`. Since a segment's number only serves to order the segments
  here, it does not wrap; times do, modulo `TsMod`.
* A sample of the round trip is any of `Rtts` no longer than the time that has
  passed. An acknowledgement gives one unless the clock has been set back.
* The poller posts its event and then reads `kcpNextUpdateWait` for its nap
  (`tunneld.go:76`, `82`), while the loop may or may not have handled the event:
  `Doze` comes before or after the loop's steps.
* The server's poll reads the clock twice, with `iclock` before `Check` and inside it
  (`tunneld.go:135`, `136`): `ServerIclock` and `ServerServeKcp`. When the clock goes on
  between the two, a due flush is taken for one in a millisecond and missed until the next
  poll (`missed` counts them). `MaxMissed` bounds how often in a row; the code has no
  such bound, only the odds. When the clock is *set* between the two (`torn`), the difference
  may wrap and the poller sleep for up to 49 days; `FlushRegular` and `TimersArmed` say
  nothing of a run after that.
* `Tick` is time passing, which both the wall clock of `currentMs` and the
  monotonic clock of `time.Sleep` show; `ClockSet` is the wall clock alone.
  Except between the two reads `Tick` waits for the poller and the loop: `FlushRegular`
  is what the code owes when both keep up, and a busy loop adds its own delay to it. What
  it owes is a flush every interval and one nap, one nap more for each flush missed, and
  for each time the clock is set back no more than it was set, or `SlapMax` and a nap: `Update`
  starts anew when the flush is more than `SlapMax` off (`kcp.go:867`), but only the first
  `Update` after the nap can see that. A nap is the mode's, or what `Check` said, which is
  an interval at most.
* The assumptions say what the code's parameters keep: no interval is longer than
  `SlapMax` and no nap of the event loop shorter than `MinNap`, windows fit in
  32 bits in bytes too, and flushes are much less than half a turn of the clock apart.
* One channel is modelled; of the server's other channels only the naps matter
  that `kcp_poll` collects from them (`Naps`).
* From `Check`'s read on the clock stands still (`Update` and, at `kcp.go:788`, `flush`
  read it again).

### UdpListener

`conns` holds the `UDPConn2` objects, `clients` the listener's map, `accept` the
place of the `Accept` goroutine and its local variables. Accept's look into the map
(`ReadFrom`, the part under the mutex, which no other goroutine takes) and its send
(`SendIn`, which waits for the slot, or `Recovered`, when the connection was closed
before or during the wait) are two steps, between which readers read and the event
loop closes. A connection is closed once: each of the three calls in `tunnelc.go`
happens to a channel that has no other. A reader that has read waits for room in its
KCP before it reads again (`tunnelc.go:338`): `Room` is when it has found it, and no
fairness makes it come. What lies in the slot of a connection that was closed before it had
a reader is never read (`Stranded`), and counts as lost. Datagrams are numbered per client. Left out:
an error of `ReadFrom`, after which `serveTunnelUdp` calls a method of a nil
connection, and empty datagrams. `newConnChan` is taken to have room.

### Tunnel

`cli[c]` and `srv[c]` hold what the Go `Channel` of a connection holds at either
end, its socket (`conn`), its reader goroutine and the events it has put into the
loop's channels but the loop has not taken; since a select takes ready channels
in any order, and events of one channel are alike, counters do. Each handler of
a loop is one action with the whole `promiseChannelClose` in it; goroutines have
actions of their own between which the loop can run. Setting the close flag and
queueing the close event is one step (`CliReadFails`, `SrvReadFails`): between
the two nothing new can happen than when the event is already queued but not
taken.

Tox messages are FIFO queues with two possible faults, a send that returns an
error and a message lost with the connection; lossy packets are per channel the
union of what is under way. KCP is reduced to counts per stream (`made`, `sub`,
`rcvd`, `acked`, `read`): that received data is a prefix and acknowledgements
are truthful is what module `KCP` shows. A connection names its channel at both
ends and its conv; what collides is the matter of `Sessions`. `Faults` chooses which faults a
run has, `MaxFaults` bounds the failed and lost messages.

### Sessions

`Tunnel` takes the three numbers of a channel for one name. `Sessions` asks whether
that is right. `cch[k]` is the client's `Channel` object `k` and `sch[k]` the server's
for the SYN of `k`; the pools are the two Go maps of each program with their keys.
`chidcli` and `chidsrv` are counted from `Chanid0` in every life of a program, `conv`
is any member of `Convs`, so that two channels may get the same. `Restart` empties
a program and the messages under way, and keeps of its channels only what the
properties compare (histories: `life`, `chid`, `conv`, at the server also `chidcli`). The handlers are those of
`Tunnel`, reduced to what they look up, write and remove; `putServer` runs in a
goroutine, and its two writes are two steps. Data needs no queue: `Downward(h, k)` and
`Upward(i, k)` say when data of `k` can come to be written. A read of 8192 bytes goes
out as fragments of 1300, so where two channels have one conv the KCP object at the other end
may put a message together from both: its head, with the number that the receiver looks
up, is of `h` (`i`), the data behind it of `k`. `DownNil` and `UpNil` are the cases in
which there is no such channel, or no message to be read from the mixture. Fragments that
a client sent in an earlier life are left out of `Upward`.

`Isolation` has two exceptions, which the code really has. The client counts from
10000 again after a restart, so the ACK for a channel of its earlier life opens a
new channel that happens to have the number (`tunnelc.go:481`). And once a conv has
been given out twice, the messages of its channels mix: downwards only by a message
of both channels' fragments, upwards already by whole ones, which come out of the KCP object of
the other channel. A shared conv is also the only way to the nil dereferences
(`NilOnlyByClash`). `Counters` states how the statistics drift. The channels of the
pools are never counted too many, but too few, for a channel that is removed twice is counted
off twice; that is the gap in the numbers of `docs/stats.md`. The server's connections miss
one for each failed dial, which is counted off without having been counted on. The
client's are never too few; they are too many while a reader has not seen its
close, or after the ACK for a channel of an earlier life started a second reader on one
connection (`tunnelc.go:492`).

### ToxNodes

One program, of either kind (`appmode`), with its friends. A node is a row of
`allNodes`; two rows may have one address, since three of the built-in servers are
also in `toxnodes.json`. `get3nodes` yields any set of at most three rows at other
addresses than `currNodes` - fewer when its bounded draw fails - and the entries that
are missing are blank. The comment on `switchServer` (`toxclient.go:180`) speaks of *other*
nodes. The code does not keep that: `currNodes` is not what Tox has been given - at the
start it holds rows of the file while Tox has the built-in servers (`toxclient.go:74`), and
after a draw that found too few rows it has blanks while Tox goes on with what it had -
so that a switch may go back to an address in use. No property says otherwise, and what
Tox has been given is therefore not in the model.

The callbacks of both programs are cut at every call that changes something, so that
the program can die in between (`Restart`, which loads the friends that were last
saved): the callback for Tox's own state is `SelfConnectionStatus`, `AddTunnel` and
`SaveTunnel` for each tunnel of the client, then `SelfOffline`, or `SelfOnline` and
`SaveBots`; a friend request is `FriendRequest` and `SaveRequest`. Who was added and not yet
saved is forgotten when the program dies; `FriendsKept` therefore speaks of the friends
at the end of a callback (`kept`, a history). `FriendConnectionStatus` changes nothing
that lasts and is one step.

`PeerOnlineTrue` says of the page's `peerOnline` only what the code
gives it: some friend is on line, which may be a bot.

Left out: errors when the file is written, which the code ignores, and a write cut short, so
that the file is the old one or the new one; the message to a bot
(`/mute on`), and `useFixedBSs`, which is off.

## Runs

| run | bounds | shows |
|---|---|---|
| `KcpMessages` | windows 2, 3 segments one way in messages of 1 or 2, 1 data packet and 2 acknowledgement packets in flight | `Retained`, `DrainedMeansReceived`, `WholeMessages`, `ImplementsStream` |
| `KcpWrap` | windows 2 and 1, 6 segments one way and 1 the other, numbers modulo 6; segments beyond the window and acknowledgements on data occur | `TypeOK`, `InOrder`, `Retained`, `WindowLag`, `RcvBounded` |
| `KcpLive` | windows 2 and 1, 3 segments one way, fairness; segments beyond the window occur | `EventuallyDone` |
| `KcpTimers` | the server's end and a `fast2` client's; with 2 segments 9 ticks, 1 setting back of the clock and 1 missed flush in a row, without segments 22 ticks, 2 settings back or forward and 2 missed flushes; the clock wraps | `RttBounded`, `CwndBounded`, `OvertakenTruthful`, `TimersArmed`, `FlushRegular`, `TypeOK` |
| `UdpListener` | 2 clients, 3 datagrams each, fairness | `TypeOK`, `OneOpenPerClient`, `NoneForgotten`, `NoGap`, `LostOnlyByClose`, `ListenerServes` |
| `TunFaults` | 1 connection, 2 faults of any kind, 1 chunk each way | `TypeOK`, `ServerNeverPanics`, `ClientReasons`, `NoSocketLeft` |
| `TunPairs` | 1 connection, no faults, send limit 1, up to 2 chunks each way and 3 in all, fairness | `ClientHasServer`, `ServerHasClient`, `ClientNeverOoops`, `ClosedMeansGone` |
| `Sessions` | 2 channels, 2 convs, 1 restart of either program, 2 messages under way each way | `TypeOK`, `Isolation`, `NilOnlyByClash`, `FoundByConv`, `NoGhost`, `Counters` |
| `ToxNodes` | 1 row of a built-in server and 5 of the file, 4 other addresses of use, 3 friends, 2 losses of each kind | `TypeOK`, `FriendsKept`, `PeerOnlineTrue` |
| `TunOoops` | failed dials | **violated**: `ClientNeverOoops` |
| `TunData` | no faults | **violated**: `FinishedMeansNoData` |
| `TunSpin` | send limit 1, 2 chunks down, fairness | **violated**: `ClientCloseIsEnough` |

Why the bounds are enough. Three segments over windows of two, and six over two
and one, give the positions that matter to `Input`: before the window, first of it,
inside it, each with a gap or without; beyond it a segment can only be when the
sender's window is the larger (`KcpWrap`, `KcpLive`). A flush may lose any of its
segments and those that arrive are taken in any order, so one packet under way
already reorders data across flushes; a repeat is a packet received again, or the
segment sent again. Two acknowledgement packets let an old one arrive after a newer
one (`KcpMessages`). A window of one closes at every message. Modulo six is the least
circle in which half of it holds the lag of windows of two and one; with six segments
the numbers wrap. Only one packet each way is under way there, because a packet
must not outlive a whole circle, which 2^32 numbers rule out in the program. In
`KcpTimers` a tick is about 50 ms. Nine ticks hold four intervals of the server's
flush, the first timeout of a segment and its backed-off second, and two probes; a
segment is overtaken by the other, and again when the acknowledgement is repeated.
The clock starts four ticks before its wrap and may go back once, by 2 ticks or by more
than `SlapMax`, the 10 s (here 3 ticks) after which `Update` starts anew. What is owed after
two settings and two missed flushes takes longer to tell, but no segment delays a flush: for that
the run goes on to 22 ticks where the channel is quiet (the constraint `MCBounds`), with the client's
end and with a server's whose interval and poll are three ticks of 30 ms. A circle of 256 is the
least power of two that meets the hypotheses of the theorems below, so that TLC checks an
instance of what is proved. In `UdpListener` three datagrams of a client
fill a slot, wait for it and follow a close, or meet two closes; the second client
is the one that is held up. In `Tunnel` channels share
nothing but the message queues and the pools, so one connection has all
interleavings of its own handlers; one chunk each way distinguishes a stream with
data in each of its places; with room for one chunk and a second to send, the reader
of that side has to wait (`TunPairs`); two faults cover a lost or failed message
answered by another. In `Sessions` two channels are the fewest that can clash, and one restart
lets the second have the number of the first; a run with three channels explored
4.7 million states without a counterexample. In `ToxNodes` five usable rows of four
addresses let a switch find three, two, one or none, and one row without TCP is
never chosen. `CHECK_DEADLOCK FALSE` in the Tunnel, Sessions and UdpListener
configurations: when every connection has closed and no datagram comes, nothing is
left to do. In `KCP` a flush
and in `KcpTimers` an acknowledgement is always possible, so deadlock is checked.

### Fairness

`KCP!Fairness`: each loop polls its KCP objects for ever (`serveKcp`,
`tunnelc.go:262`, `tunneld.go:148`) and runs `iterate`, so messages are read,
flushes run and arriving packets are handled (weakly, and strongly where the
other calls of the loop disable them in between). The network may lose and
repeat, but what is sent again and again arrives: strong fairness of a flush
whose segment gets through, and of the last receipt of a packet. Without data of
its own an end needs no fairness for sending it.

`Tunnel!Fairness`: loops and goroutines run, timers expire, the Tox library
delivers a message it has accepted, and an acknowledgement or chunk sent for ever
arrives. Applications and backends owe nothing: they may never close. A reader that
waits for room may wait for ever although nothing is lost, since the other program may have
forgotten the channel (`TunSpin`); `ClosedMeansGone` excepts exactly that (`Stuck`).

`UdpListener!Fairness`: `Accept` goes on when it can, a connection gets its reader or
is closed (the ACK, or the 15 s timer), and a reader that does not wait for room reads
what is there. Nobody owes it room: when the server is gone it waits for ever
(`tunnelc.go:338`), the slot stays full and `Accept` blocks for all clients. So
`ListenerServes` has two outcomes: `Accept` comes back to the socket again and again, or
it is in the end behind one full KCP whose connection nobody closes.

### What the violations say

* `TunOoops`: a failed dial kills the client (`tunnelc.go:388`; the comment at
  `tunneld.go:260` knows).
* `TunData`: `kcpCheckClose` (`tunneld.go:188`) does not see data that waits in
  `serverReadyReadChan`; the end of a response can be cut off.
* `TunSpin`: a reader that waits for room in KCP never notices that its channel is
  closed (`tunneld.go:309`); channel, socket and goroutine leak.

Two more limits of the code are among the faults `TunFaults` explores; no document
denies them. The client answers packets that overtake the ACK with a FIN
(`tunnelc.go:538`), and the server takes the fresh connection down. And a FIN that
cannot be sent is never tried again (`tunnelc.go:364`, `tunneld.go:342`), so that the
channel stays in the pool, though without an open socket. Nor does either program
close a socket whose other side has ended it ("eof"): it is left to Go's garbage collector,
and neither `NoSocketLeft` nor `Gone` speaks of it.

A smaller divergence shows in a property that holds: `WndSize` "sets maximum
window size" (`kcp.go:978`), but the move loops test a length that does not change
in them (`kcp.go:258`, `kcp.go:477`), so `rcv_queue` grows to twice the window less
one. `RcvBounded` states the bound the code keeps.

## Proofs

### KCP

`KCPProofs` proves about `KCP`, for all windows, initial remote windows, message
sizes, congestion settings, network capacities and numbers of segments:

| theorem | property |
|---|---|
| `TypeCorrect` | `TypeOK` |
| `DeliveredInOrder` | `InOrder` |
| `RetainedTillReceived` | `Retained` |
| `DrainedIsReceived` | `DrainedMeansReceived` |
| `MessagesWhole` | `WholeMessages` |
| `BuffersBounded` | `RcvBounded` |
| `LagBounded` | `WindowLag` |
| `Refinement` | `ImplementsStream`: `KCP` implements `ReliableStream` |

All are under `NoWrap`: a channel submits few enough segments for its numbers
to stay within half of the circle, `2 * (MaxSegs + Wnd + Wnd') < SnMod`. With
`SnMod` = 2^32 that is about 2^31 segments, or 2.7 TB, per connection. Beyond
it the property is model-checked (`KcpWrap`). It also rests on the named
assumptions of the constants.

The argument. None of the properties is inductive, because a packet on its way
may say anything in them. `IInv` adds what every segment in flight claims and
that it stays true:

* `QueueInv`, `BufInv`: numbers are given in the order of submission, and buffered
  segments carry the item of their number;
* `WireInv`: a segment under way says `una <= rcv_nxt` of its sender; a PUSH carries
  the item of its number, an ACK is for a segment its sender has (`SegOK`) - all
  stable, since `rcv_nxt` grows and what has been received stays received;
* `RcvInv`: what was handed over, and after it what waits in `rcv_queue`, is a prefix
  of what the peer submitted, `rcv_nxt` long; `rcv_buf` holds true segments;
* `AckInv`: `acklist` names received segments;
* `KeptInv`: every number given out is in `snd_buf` or has been received.

`Inductive` is the theorem that `IInv` is an invariant; each action has a lemma
(`...Keeps`), and the lemmas on the operators (`ParseUna`, `ParseAck`,
`InsertedSegment`, `ReadySegments`, `Movable`'s bounds) say what the loops of
`kcp.go` do to a sorted or unsorted buffer. Note that `IInv` does not need
`rcv_buf` to be sorted: correct order follows from `rcv_nxt` alone.
For whole messages, `MsgInv` states in closed form that fragment numbers count
down to 0 in everything submitted, and `RecvIsMessage` that the next `MessageLen`
items are then one message.

The bounds of the buffers do need their order. `WinInv` (theorem `WindowsKeep`) says
that the numbers in either buffer increase (`Spaced`), that `snd_una` is the first
number in `snd_buf`, or `snd_nxt` when there is none (`shrink_buf`), that `snd_nxt` is
at most a window past it, and that `rcv_buf` lies in the window from `rcv_nxt`. A
spaced buffer between two numbers is no longer than their distance, which gives
`RcvBounded`; and what is below `snd_una` the peer has, by `KeptInv`, in `rcv_queue`
or in a `rcv_buf` that lies in its window, which gives `WindowLag`. The lemmas
`Spaced...` say that the loops of `kcp.go` keep a buffer spaced; insertion
in the right place is the hard one (`SpacedInserted`, `kcp.go:462`).

### KcpTimers

All six properties of the run are theorems, for every set of ends, samples, windows,
naps and clock changes that the assumptions of the module allow.

`RttCorrect` is `Spec => []RttBounded`, for every set of samples and every speed
mode. `RttBounded` needs only its types to be inductive (`RttInv`), since nothing
but `update_ack` touches the estimate. The heart is lemma `Step`: `x += (b - x) >> k`
moves a non-negative `x` towards `b` without leaving the interval of the two,
although the shift rounds down. Its instances are the shifts by 2, 3 and 5 of the
code; `RttSample` adds the cases of `update_ack`.

`TimersTyped` is `TypeOK`. That no `uint32` leaves its range needs that segments in flight
are within the window (`InFlight`). `OvertakenTrue` is `OvertakenTruthful`, inductive
with the types. `WindowBounded` is `CwndBounded`: `WindowInv` follows `cwnd` and `incr`
through slow start, `cwnd`'s growth by fractions of a segment, fast retransmission and
timeout, each of which has a lemma; `WindowAssumption` is there so that products
of them do not wrap.

The two theorems of `KcpClockProofs` speak of how far off a time is on a
clock that counts modulo `TsMod` and is set now and then.

* `FlushesRegular` is `FlushRegular`. `Settable(J)` bounds what the clock can be set by:
  each change is at most `J` either way, and all together stay, with `SlapMax` and a nap for
  each flush that can be missed in a row and one more, within half the circle. In the program
  that is 24 days in all; beyond it the signed difference of two times has no meaning. The
  length of the run is not bounded: time may pass and the clock wrap for ever. `Paced` and
  `OnTime` bound the time since the last flush plus the time to the next, the one by the number
  of the changes and the other by their size; both allow a nap for each flush
  missed. All of it ends when the clock is set between the server's two reads
  (`torn`), which both properties except.
* `TimersAhead` is `TimersArmed`. A timeout grows with every loss (`kcp.go:754`) and is not
  capped, so in a run without end it would outgrow half the circle and the
  segment would never be sent again. The invariant `Sustained` says how slowly: each
  retransmission waits at most `RtoMax` longer than the one before, so the square of a timeout
  is at most `2 * RtoMax` times the time it took. `Countable(J, L)` is `Settable(J)` and that
  no timeout the run has time for exceeds `L`, which with the probe and the naps stays within
  half the circle. With `RtoMax` 60 s and a clock of 2^32 ms that holds for
  `L` = 2^30 ms and 300 years. The run's own instance satisfies it with `J` = 8 and `L` = 39.

### UdpListener

`OneOpen` and `AllReturned` are `OneOpenPerClient` and `NoneForgotten` for any number
of clients and datagrams. They are proved together: `MapInv` adds that a send under
way is for the connection in the map (`Current`), that the map is true (`MapTrue`)
and that what is closed has been returned (`ClosedAfterReturn`). The last makes the
recovery safe: it drops `accept.newc` for a new connection, which would forget it
were it not returned before. `InPlace` and `OneChanged` serve the steps that change
one connection; `ReadFromKeeps` and `RecoveredKeeps` the two that make one.

`ListenerTypes`, `InOrder` and `OneLostPerClose` are `TypeOK`, `NoGap` and `LostOnlyByClose`.
They follow what a connection was given: what its reader got, what is in its slot and
what `Accept` holds for it (`Given`). `FlowInv` says that it is consecutive within a connection and
grows from one connection of a client to the next, and that of the newest connection
it ends at the last datagram that came (`Latest`), which a step from one datagram to
the next needs to leave no gap. `Counted` adds up the numbers given to all connections of
a client; only a new connection for a client that had one (`Recovered`, or the next
`ReadFrom` after a close) leaves one out. What is `Stranded` in a slot was given but reaches
nobody, so `LostOnlyByClose` counts it as a second loss of its connection.

### Sessions

`SessionsTyped` is `TypeOK` and `ChannelsIsolated` is `Isolation`, for any channels and
convs and any number of restarts. `TypeOK` needs that an ACK under way has a conv and
a channel of the server's present life a number (`Typed`). Isolation is not
inductive: it speaks of numbers that two programs have counted, sent to each
other and forgotten in restarts. `IdInv` says what each of them knows:

* `CliNumbers`, `SrvNumbers`: within one life no number is given twice, all are below
  the counter, and the pools hold each channel of this life under its own number
  (the server also under its own conv); the server's channels of this life have the
  client's number right;
* `SynTrue`, `AckTrue`: a SYN under way is the only one of its channel and the server
  does not know the channel yet; an ACK repeats what the server's channel has;
* `Answered`: an acknowledged channel `k` has its conv from the server's channel for
  `k`, or for a channel that had the number of `k` in an earlier life of the client,
  and, if the server has not been restarted since, its number too.

Most actions are quiet: they neither give a number nor spread one (`QuietCli`,
`QuietSrv`, `QuietToServer`, `QuietToClient`), and one lemma, `QuietKeeps`, serves them
all. The others (`CliConnects`, `CliAck`, `SrvSyn`, `SrvPut`, `SrvDialed`, `Restart`) have
a lemma each. `DownIsolated` and `UpIsolated` then derive the two halves, for a message
of one channel and for one put together from two.

`SessionsPoolsProofs` adds `FoundByTheirConv` (`FoundByConv`), `NoGhosts` (`NoGhost`) and
`NilNeedsClash` (`NilOnlyByClash`), from the same assumptions, and `CountersDrift` (`Counters`).
`PoolsInv` relates the two maps of each program: what `pool2` names is in `pool`
(`Spool2True`, `Pool2True`), and what is in `pool` and has its conv is found in `pool2` unless
the conv is shared (`SrvFound`, `CliFound`). A conv is shared only when two channels have been
told of it, so that the invariant must know that an ACK, an answered channel and a FIN with
a conv show that the server has sent the conv (`SpokenInv`). `Tasks` orders `putServer`'s two
writes before everything that can remove the channel. `CountersDrift` assumes finitely
many channels, because `Counters` counts them; its invariant has one part per counter. The hard
one is the client's: `FewReaders` bounds the readers a channel can get by the ACKs that have been
taken, so that the sum of all readers can be counted, and that sum exceeds the live
connections only by a closed one's reader or by a second one.

### ToxNodes

`NodesTyped`, `FriendsSurvive` and `PageTrue` are all three properties of the run, for
any list of nodes, any friends and any number of restarts, from one inductive
invariant. Its heart is `Agreed`: the friends kept are in the file and those in the file are
friends at every point of a callback, and where nothing waits to be saved the
file has them all.

### Tunnel

`TunnelTyped`, `ServerSafe`, `ReasonsFew` and `SocketsClosed` prove `TypeOK`,
`ServerNeverPanics`, `ClientReasons` and `NoSocketLeft` for any number of connections,
any `Faults` and any number of them, from `TunnelAssumption` alone. None of the last three is
inductive. The invariant `IInv` has four parts for each channel:

- `MailInv`: a channel has one SYN and one ACK, each before what follows from it, and a
  FIN is sent to the server only when the backend is connected. Without it a second
  SYN could restart a closed channel, and a FIN close a connection not yet made.
- `KnowInv`: what the client has only from an ACK (its reader, its KCP object, packets
  in the air) exists only after the dial, so nothing is written to a nil conn.
- `CliInv`, `SrvInv`: the flags agree with the socket and the pools, and an account of
  the close reasons: reasons given, closes still queued and the reader's end to come
  are at most one, plus one for the peer's FIN, plus one for the removal. `Paid`
  is the arithmetic of one `promiseChannelClose`, which is called when a queued close is
  taken or while the channel is in the pool. So there are at most three
  reasons, where the code has room for five.

A step touches one channel and the ends of the queues (`StepOf`, `StepKeeps`);
`CliStep`, `SrvStep` and `MoveStep` serve the steps of the client, of the server
and of messages and packets that neither bring a SYN nor an ACK. Each action has a lemma.

In the second half, `ClientPaired`, `ServerPaired` and `ClientSafe` are the three safety
properties of `TunPairs` for any number of connections and for more than that run's empty
`Faults`:

| theorem | property | holds without | TLC refutes it with |
|---|---|---|---|
| `ClientPaired` | `ClientHasServer` | lost messages, packets that overtake | either of them |
| `ServerPaired` | `ServerHasClient` | lost messages, failed sends | either of them |
| `ClientSafe` | `ClientNeverOoops` | lost messages, failed sends, failed dials | any of them |

The last column is from `TunPairs` with one fault of the kind: no hypothesis can be
dropped. `PairInv` says for each channel what an end may conclude from what it has or
what is on its way: a FIN of the server is true and behind the ACK (`FinTrue`), a
FIN of the client is true unless a packet has overtaken the ACK (`CloseTrue`), a client
channel that has its ACK has its server channel (`HasServer`), what has been dialed has been
announced (`HasClient`), and only a failed dial closes what was never dialed (`ClosedDialed`).
So where the client finds a FIN but no conv (`CliFinNoConv`) the ACK must be on its way
still, but behind a FIN it cannot be. `TailMail` and `AppendMail` say what taking
and sending do to the order of messages; `OthersKeep` deals with all other channels,
`CalmKeeps` with the steps in which nothing of this happens, and `LeftPairs`, `KeptPairs` and
`SrvPromisePairs` with the outcomes of the two `promiseChannelClose`.

### Only model-checked

Every invariant and action property of the passing runs is a theorem, and so is the
refinement. What is left to TLC: the progress properties (`EventuallyDone`, `ListenerServes`,
`ClosedMeansGone`), since fairness and ENABLED are out of the prover's reach; and `KCP`
beyond `NoWrap`, where the numbers wrap (`KcpWrap`). The three violations are runs.

## Plan

Written: all modules of the table above. What could come next:

1. `KcpPacking`: flush's packing never exceeds the mtu and loses no segment.
2. `Tunnel` with two connections, and with the server's unsent FIN tried again.
3. Proofs: `KCP` past `NoWrap`, from a bound on how long a packet lives instead of one
   on the number of segments.

## Not modelled

The packet codec, Tox itself (modelled as what its users rely on), logging,
configuration, ping (its caller is never started, `toxclient.go:234`), the HTTP page
and the stubs of `toxmux.go`: pure I/O, data conversion, or nothing at all. Accesses
of a Go map by two goroutines at once (`putServer` and the 15 s timer against the
loop, against what `readme.md:116` asks for) are taken as atomic: what a
race does to the map itself has no model. An `Accept` that fails ends the client
(`tunnelc.go:183`, `196`), a single outcome with nothing to explore. So does a tunnel of
an unknown protocol end the server when its SYN comes (`log.Panicln` at `tunneld.go:266`), a
mistake in the configuration. The lossless-packet handlers have
no sender. `channelGC` is empty.
