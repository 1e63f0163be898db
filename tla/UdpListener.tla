----------------------------- MODULE UdpListener -----------------------------
(***************************************************************************)
(* netx.go: one UDP socket served as a listener of connections.  The       *)
(* goroutine of serveTunnelUdp calls Accept for ever; Accept reads the     *)
(* datagrams of all clients and puts each into the one-slot Go channel of  *)
(* its client's connection.  A goroutine per connection reads from there,  *)
(* and the event loop closes connections at any time: also between         *)
(* Accept's look into the map and its send, which then panics and is       *)
(* recovered.                                                              *)
(*                                                                         *)
(* The datagrams of a client are numbered as the socket returns them.      *)
(*                                                                         *)
(* The definitions named Bad... are seeded faults for the mutation runs.   *)
(***************************************************************************)
EXTENDS Integers, Sequences, FiniteSets

CONSTANTS
    Addrs,        \* the clients' addresses
    MaxDatagrams  \* bound: how many datagrams arrive in all

ASSUME UdpAssumption == IsFiniteSet(Addrs) /\ Addrs # {} /\ MaxDatagrams \in Nat

VARIABLES
    conns,    \* the UDPConn2 objects in the order they were made
    clients,  \* the listener's map: the number of a connection, 0 for none
    accept,   \* Accept: where it is, and its addr, kbuf, newc and hasnew
    came      \* how many datagrams of each client the socket has returned

vars == <<conns, clients, accept, came>>

\* Besides addr and InChan: has Accept returned it, what its reader does (there
\* is none, it reads, or it waits for room in its KCP), has the loop not closed
\* it, and what its reader has got.
NewUDPConn2(a) == [addr |-> a, InChan |-> <<>>, accepted |-> FALSE, reader |-> "none",
                   open |-> TRUE, got |-> <<>>]

Init ==
    /\ conns = <<>>
    /\ clients = [a \in Addrs |-> 0]
    /\ accept = [at |-> "read"]
    /\ came = [a \in Addrs |-> 0]
-----------------------------------------------------------------------------
(* Accept *)

\* kbuf is made once, not for each datagram: InChan holds what comes later.
BadReadFrom(a) ==
    /\ accept.at = "read" /\ came[a] < MaxDatagrams
    /\ came' = [came EXCEPT ![a] = @ + 1]
    /\ LET known == clients[a] # 0
           c     == IF known THEN clients[a] ELSE Len(conns) + 1
       IN  /\ accept' = [at |-> "send", addr |-> a, kbuf |-> came'[a], newc |-> c,
                         hasnew |-> ~known]
           /\ conns' = LET now == IF known THEN conns ELSE Append(conns, NewUDPConn2(a))
                       IN  [i \in DOMAIN now |->
                              IF now[i].addr = a /\ now[i].InChan # <<>>
                              THEN [now[i] EXCEPT !.InChan = <<came'[a]>>] ELSE now[i]]
           /\ clients' = [clients EXCEPT ![a] = c]

\* The map does not learn of the new connection.
BadLookUp(a) ==
    /\ accept.at = "read" /\ came[a] < MaxDatagrams
    /\ came' = [came EXCEPT ![a] = @ + 1]
    /\ accept' = [at |-> "send", addr |-> a, kbuf |-> came'[a], newc |-> Len(conns) + 1,
                  hasnew |-> TRUE]
    /\ conns' = Append(conns, NewUDPConn2(a))
    /\ clients' = [clients EXCEPT ![a] = IF @ = 0 THEN Len(conns) + 1 ELSE @]

\* A datagram of a arrives; Accept looks for its connection or makes one.
ReadFrom(a) ==
    /\ accept.at = "read" /\ came[a] < MaxDatagrams
    /\ came' = [came EXCEPT ![a] = @ + 1]
    /\ LET known == clients[a] # 0
           c     == IF known THEN clients[a] ELSE Len(conns) + 1
       IN  /\ accept' = [at |-> "send", addr |-> a, kbuf |-> came'[a], newc |-> c,
                         hasnew |-> ~known]
           /\ conns' = IF known THEN conns ELSE Append(conns, NewUDPConn2(a))
           /\ clients' = [clients EXCEPT ![a] = c]

\* After the send: a new connection is returned, else the next datagram read.
Sent(hasnew) ==
    accept' = IF hasnew THEN [at |-> "return", newc |-> accept.newc] ELSE [at |-> "read"]

\* The send does not wait for the slot.
BadSendIn ==
    /\ accept.at = "send" /\ conns[accept.newc].open
    /\ conns' = IF conns[accept.newc].InChan # <<>> THEN conns
                ELSE [conns EXCEPT ![accept.newc].InChan = <<accept.kbuf>>]
    /\ Sent(accept.hasnew)
    /\ UNCHANGED <<clients, came>>

\* The slot is two wide.
BadWideSlot ==
    /\ accept.at = "send" /\ conns[accept.newc].open
    /\ Len(conns[accept.newc].InChan) < 2
    /\ conns' = [conns EXCEPT ![accept.newc].InChan = Append(@, accept.kbuf)]
    /\ Sent(accept.hasnew)
    /\ UNCHANGED <<clients, came>>

\* newc.InChan <- kbuf: waits while the slot is full.
SendIn ==
    /\ accept.at = "send" /\ conns[accept.newc].open
    /\ conns[accept.newc].InChan = <<>>
    /\ conns' = [conns EXCEPT ![accept.newc].InChan = <<accept.kbuf>>]
    /\ Sent(accept.hasnew)
    /\ UNCHANGED <<clients, came>>

\* hasnew stays what it was.
BadRecovered ==
    /\ accept.at = "send" /\ ~conns[accept.newc].open
    /\ conns' = Append(conns, NewUDPConn2(accept.addr))
    /\ clients' = [clients EXCEPT ![accept.addr] = Len(conns) + 1]
    /\ accept' = IF accept.hasnew THEN [at |-> "return", newc |-> Len(conns) + 1]
                                  ELSE [at |-> "read"]
    /\ UNCHANGED came

\* The send is tried again, on the closed connection.
BadRetried ==
    /\ accept.at = "send" /\ ~conns[accept.newc].open
    /\ UNCHANGED vars

\* The connection was closed before the send or while it waited: the send
\* panics and is recovered, a new connection takes the place of the closed one,
\* and the datagram is lost.
Recovered ==
    /\ accept.at = "send" /\ ~conns[accept.newc].open
    /\ conns' = Append(conns, NewUDPConn2(accept.addr))
    /\ clients' = [clients EXCEPT ![accept.addr] = Len(conns) + 1]
    /\ accept' = [at |-> "return", newc |-> Len(conns) + 1]
    /\ UNCHANGED came

\* serveTunnelUdp passes the connection to the event loop and calls Accept again.
Return ==
    /\ accept.at = "return"
    /\ conns' = [conns EXCEPT ![accept.newc].accepted = TRUE]
    /\ accept' = [at |-> "read"]
    /\ UNCHANGED <<clients, came>>
-----------------------------------------------------------------------------
(* The users of a connection *)

\* The ACK has come: pollClientReadyRead starts.
StartReader(c) ==
    /\ conns[c].accepted /\ conns[c].open /\ conns[c].reader = "none"
    /\ conns' = [conns EXCEPT ![c].reader = "read"]
    /\ UNCHANGED <<clients, accept, came>>

\* The loop closes a connection once: the connect failed, or the server closed.
\* What is in the slot stays there.
Close(c) ==
    /\ conns[c].accepted /\ conns[c].open
    /\ conns' = [conns EXCEPT ![c].open = FALSE]
    /\ UNCHANGED <<clients, accept, came>>

Read(c) ==
    /\ conns[c].reader = "read" /\ conns[c].InChan # <<>>
    /\ conns' = [conns EXCEPT ![c].got = @ \o conns[c].InChan, ![c].InChan = <<>>,
                              ![c].reader = "wait"]
    /\ UNCHANGED <<clients, accept, came>>

\* From a closed channel: 0 bytes and no error, for ever.
ReadClosed(c) ==
    /\ conns[c].reader = "read" /\ ~conns[c].open /\ conns[c].InChan = <<>>
    /\ conns' = [conns EXCEPT ![c].reader = "wait"]
    /\ UNCHANGED <<clients, accept, came>>

\* The reader reads again when what it has read has gone to KCP, which may be
\* full for as long as the server does not answer.
Room(c) ==
    /\ conns[c].reader = "wait"
    /\ conns' = [conns EXCEPT ![c].reader = "read"]
    /\ UNCHANGED <<clients, accept, came>>

AcceptStep == SendIn \/ Recovered \/ Return
Settled(c) == conns[c].reader = "none" /\ (StartReader(c) \/ Close(c))

Next ==
    \/ \E a \in Addrs : ReadFrom(a)
    \/ SendIn \/ Recovered \/ Return
    \/ \E c \in DOMAIN conns : StartReader(c) \/ Close(c) \/ Read(c) \/ ReadClosed(c) \/ Room(c)

Spec == Init /\ [][Next]_vars

\* The listener runs; every connection is opened or closed in the end (the
\* ACK, or the 15 s timer); a reader that does not wait for room reads what is
\* there.  Nobody owes room in KCP, a close after the start, or a datagram.
Fairness ==
    /\ WF_vars(AcceptStep)
    /\ \A c \in 1..(Cardinality(Addrs) * MaxDatagrams) :
          /\ WF_vars(c \in DOMAIN conns /\ Settled(c))
          /\ WF_vars(c \in DOMAIN conns /\ Read(c))

FairSpec == Spec /\ Fairness
-----------------------------------------------------------------------------
(* Properties *)

Conn == [addr : Addrs, InChan : Seq(Nat), accepted : BOOLEAN,
         reader : {"none", "read", "wait"}, open : BOOLEAN, got : Seq(Nat)]

\* The types of UDPServer and UDPConn2 (netx.go:10, netx.go:99): the Go
\* channel holds one datagram (netx.go:111).
TypeOK ==
    /\ conns \in Seq(Conn)
    /\ \A c \in DOMAIN conns : Len(conns[c].InChan) <= 1
    /\ clients \in [Addrs -> 0..Len(conns)]
    /\ came \in [Addrs -> Nat]
    /\ \/ accept = [at |-> "read"]
       \/ accept.at = "return" /\ accept.newc \in DOMAIN conns
       \/ /\ accept.at = "send" /\ accept.newc \in DOMAIN conns /\ accept.addr \in Addrs
          /\ accept.kbuf \in Nat /\ accept.hasnew \in BOOLEAN

ConnsOf(a) == {c \in DOMAIN conns : conns[c].addr = a}

\* What Accept holds for a connection, until the send succeeds or panics.
Held(c) == IF accept.at = "send" /\ accept.newc = c THEN <<accept.kbuf>> ELSE <<>>

\* What Accept has directed to a connection: what was read, what is in the slot,
\* whether anybody reads it or not, and what Accept holds.
Given(c) == conns[c].got \o conns[c].InChan \o Held(c)

\* A client's datagrams reach its connections in order and without a gap
\* inside of one connection, however reads, sends and closes interleave
\* (Accept, netx.go:28; Read, netx.go:115).
NoGap ==
    \A c \in DOMAIN conns :
        /\ \A i \in DOMAIN Given(c) : Given(c)[i] = Given(c)[1] + i - 1
        /\ \A d \in ConnsOf(conns[c].addr) : d < c =>
              \A i \in DOMAIN Given(c), j \in DOMAIN Given(d) : Given(d)[j] < Given(c)[i]

\* Closed before its reader started, by the 15 s timer or a FIN: nobody reads
\* what is in the slot.
Stranded(c) == ~conns[c].open /\ conns[c].reader = "none" /\ conns[c].InChan # <<>>

\* What a reader has got or can still get.
Reaching(c) == conns[c].got \o (IF Stranded(c) THEN <<>> ELSE conns[c].InChan) \o Held(c)

Lost(a) == (1..came[a]) \ UNION {{Reaching(c)[i] : i \in DOMAIN Reaching(c)} : c \in ConnsOf(a)}

\* A change to a new connection costs the datagram whose send panicked, and one
\* more if the connection was closed before it had a reader, with a datagram in
\* its slot.  Accept loses no other (netx.go:53, netx.go:66, tunnelc.go:247).
LostOnlyByClose ==
    \A a \in Addrs : ConnsOf(a) # {} =>
        Cardinality(Lost(a)) = Cardinality(ConnsOf(a)) - 1
                               + Cardinality({c \in ConnsOf(a) : Stranded(c)})

\* A client has at most one open connection, and that is the one in the map:
\* no datagram goes to a connection the program has replaced (netx.go:40).
OneOpenPerClient ==
    \A c \in DOMAIN conns : conns[c].open => clients[conns[c].addr] = c

\* Every connection is with the program or about to be returned by this call
\* of Accept: one that was never returned would get its client's datagrams
\* with nobody to read them (netx.go:69).
NoneForgotten ==
    \A c \in DOMAIN conns : conns[c].accepted \/ (accept.at # "read" /\ accept.newc = c)

\* Accept is stuck behind a connection that nobody closes, with its slot full
\* and its reader waiting for room in KCP.
BehindFullKcp ==
    /\ accept.at = "send" /\ conns[accept.newc].open
    /\ conns[accept.newc].InChan # <<>> /\ conns[accept.newc].reader = "wait"

\* Accept comes back to the socket again and again, or is stuck behind one full
\* KCP: neither a full slot as such, nor a connection that is still unanswered,
\* nor one closed while Accept waits for it stops the listener of all clients
\* for good (netx.go:66).
ListenerServes == []<>(accept.at = "read") \/ <>[]BehindFullKcp
=============================================================================
