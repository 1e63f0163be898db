-------------------------- MODULE UdpListenerProofs --------------------------
(* Proofs about UdpListener: the listener's map and its connections. *)
EXTENDS UdpListener, FiniteSetTheorems, SequenceTheorems, TLAPS

\* The types the argument needs.
Types ==
    /\ conns \in Seq(Conn)
    /\ clients \in [Addrs -> Nat]
    /\ accept.at # "read" => accept.newc \in DOMAIN conns
    /\ accept.at = "send" => /\ accept.addr \in Addrs /\ accept.kbuf \in Nat
                             /\ ~accept.hasnew => conns[accept.newc].accepted
    /\ came \in [Addrs -> Nat]

\* The connection a send is for is the one in the map.
Current ==
    accept.at = "send" => /\ clients[accept.addr] = accept.newc
                          /\ conns[accept.newc].addr = accept.addr

\* The map names a connection of the client, or none.
MapTrue ==
    \A a \in Addrs : clients[a] # 0 => /\ clients[a] \in DOMAIN conns
                                       /\ conns[clients[a]].addr = a

\* Only the program closes a connection, and it has it from Accept.
ClosedAfterReturn == \A c \in DOMAIN conns : ~conns[c].open => conns[c].accepted

MapInv ==
    /\ Types
    /\ Current
    /\ MapTrue
    /\ ClosedAfterReturn
    /\ OneOpenPerClient
    /\ NoneForgotten

LEMMA Datagrams ==
    /\ <<>> \in Seq(Nat) /\ \A k \in Nat : <<k>> \in Seq(Nat)
    /\ \A p, q \in Seq(Nat) : p \o q \in Seq(Nat)
OBVIOUS

LEMMA MapInit == Init => MapInv
<1> SUFFICES ASSUME Init PROVE MapInv
  OBVIOUS
<1>1. conns = <<>> /\ clients = [a \in Addrs |-> 0] /\ accept.at = "read"
  BY DEF Init
<1>2. conns \in Seq(Conn) /\ DOMAIN conns = {}
  BY <1>1
<1>3. came \in [Addrs -> Nat]
  BY DEF Init
<1> QED BY <1>1, <1>2, <1>3 DEF MapInv, Types, Current, MapTrue, ClosedAfterReturn,
                          OneOpenPerClient, NoneForgotten

\* A connection made for a client, after the last.
LEMMA Made ==
    ASSUME conns \in Seq(Conn), NEW a \in Addrs
    PROVE  LET now == Append(conns, NewUDPConn2(a))
               c   == Len(conns) + 1
           IN  /\ now \in Seq(Conn)
               /\ DOMAIN now = DOMAIN conns \cup {c} /\ c \notin DOMAIN conns /\ c # 0
               /\ now[c].addr = a /\ now[c].open /\ ~now[c].accepted
               /\ \A i \in DOMAIN conns : now[i] = conns[i]
<1>1. NewUDPConn2(a) \in Conn
  BY DEF NewUDPConn2, Conn
<1> QED BY <1>1 DEF NewUDPConn2

\* A step that changes connections in place, keeps their clients, opens none
\* and takes none back.
LEMMA InPlace ==
    ASSUME MapInv, conns' \in Seq(Conn), DOMAIN conns' = DOMAIN conns,
           \A c \in DOMAIN conns : /\ conns'[c].addr = conns[c].addr
                                   /\ conns'[c].open => conns[c].open
                                   /\ ~conns'[c].open => conns'[c].accepted
                                   /\ conns[c].accepted => conns'[c].accepted,
           clients' = clients, came' = came,
           \/ accept' = accept
           \/ /\ accept'.at = "read"
              /\ conns'[accept.newc].accepted
           \/ /\ accept.at = "send" /\ accept'.at = "return"
              /\ accept'.newc = accept.newc
    PROVE  MapInv'
<1> USE DEF MapInv
<1>1. Types'
  <2>1. /\ accept'.at # "read" => accept'.newc \in DOMAIN conns'
        /\ accept'.at = "send" => accept' = accept
    BY DEF Types
  <2>2. conns' \in Seq(Conn) /\ clients' \in [Addrs -> Nat] /\ came' \in [Addrs -> Nat]
    BY DEF Types
  <2>3. accept'.at = "send" => /\ accept'.addr \in Addrs /\ accept'.kbuf \in Nat
                               /\ ~accept'.hasnew => conns'[accept'.newc].accepted
    BY <2>1 DEF Types
  <2> QED BY <2>1, <2>2, <2>3 DEF Types
<1>2. Current'
  BY DEF Types, Current
<1>3. MapTrue'
  BY DEF MapTrue
<1>4. ClosedAfterReturn'
  BY DEF ClosedAfterReturn
<1>5. OneOpenPerClient'
  BY DEF OneOpenPerClient
<1>6. NoneForgotten'
  BY DEF NoneForgotten, Types
<1> QED BY <1>1, <1>2, <1>3, <1>4, <1>5, <1>6

\* The same for a step that changes the one connection c to r.
LEMMA OneChanged ==
    ASSUME MapInv, NEW c \in DOMAIN conns, NEW r \in Conn,
           conns' = [conns EXCEPT ![c] = r],
           r.addr = conns[c].addr, r.open => conns[c].open,
           ~r.open => r.accepted, conns[c].accepted => r.accepted,
           clients' = clients, came' = came,
           \/ accept' = accept
           \/ accept'.at = "read" /\ accept.newc = c /\ r.accepted
           \/ /\ accept.at = "send" /\ accept'.at = "return"
              /\ accept'.newc = accept.newc
    PROVE  MapInv'
<1>1. conns \in Seq(Conn)
  BY DEF MapInv, Types
<1>2. conns' \in Seq(Conn) /\ DOMAIN conns' = DOMAIN conns
  BY <1>1
<1>3. conns'[c] = r /\ \A i \in DOMAIN conns : i # c => conns'[i] = conns[i]
  BY <1>1
<1>4. \A i \in DOMAIN conns : /\ conns'[i].addr = conns[i].addr
                              /\ conns'[i].open => conns[i].open
                              /\ ~conns'[i].open => conns'[i].accepted
                              /\ conns[i].accepted => conns'[i].accepted
  BY <1>3 DEF MapInv, ClosedAfterReturn
<1> QED BY <1>2, <1>3, <1>4, InPlace

LEMMA ReadFromKeeps == ASSUME MapInv, NEW a \in Addrs, ReadFrom(a) PROVE MapInv'
<1> USE DEF MapInv
<1>1. /\ accept.at = "read" /\ accept'.at = "send" /\ accept'.addr = a
      /\ accept'.newc = clients'[a] /\ accept'.hasnew = (clients[a] = 0)
      /\ accept'.kbuf \in Nat /\ came' \in [Addrs -> Nat]
  BY DEF ReadFrom, Types
<1>2. CASE clients[a] # 0
  <2>1. conns' = conns /\ clients' = clients
    BY <1>2 DEF ReadFrom, Types
  <2>2. clients[a] \in DOMAIN conns /\ conns[clients[a]].addr = a
    BY <1>2 DEF MapTrue
  <2>3. NoneForgotten'
    BY <1>1, <2>1 DEF NoneForgotten
  <2>4. conns[clients[a]].accepted
    BY <1>1, <2>2 DEF NoneForgotten
  <2>5. Types' /\ Current'
    BY <1>1, <2>1, <2>2, <2>4 DEF Types, Current
  <2>6. MapTrue' /\ ClosedAfterReturn' /\ OneOpenPerClient'
    BY <2>1 DEF MapTrue, ClosedAfterReturn, OneOpenPerClient
  <2> QED BY <2>3, <2>5, <2>6
<1>3. CASE clients[a] = 0
  <2> DEFINE n == Len(conns) + 1
  <2>1. /\ conns' = Append(conns, NewUDPConn2(a))
        /\ clients' = [clients EXCEPT ![a] = n]
    BY <1>3 DEF ReadFrom
  <2>2. /\ conns' \in Seq(Conn) /\ n \in Nat
        /\ DOMAIN conns' = DOMAIN conns \cup {n} /\ n \notin DOMAIN conns /\ n # 0
        /\ conns'[n].addr = a /\ conns'[n].open
        /\ \A i \in DOMAIN conns : conns'[i] = conns[i]
    BY <2>1, Made DEF Types
  <2> HIDE DEF n
  <2>3. Types' /\ Current'
    BY <1>1, <1>3, <2>1, <2>2 DEF Types, Current
  <2>4. MapTrue' /\ ClosedAfterReturn'
    BY <2>1, <2>2 DEF Types, MapTrue, ClosedAfterReturn
  <2>5. OneOpenPerClient'
    BY <1>3, <2>1, <2>2 DEF Types, OneOpenPerClient, MapTrue
  <2>6. NoneForgotten'
    BY <1>1, <2>1, <2>2 DEF Types, NoneForgotten
  <2> QED BY <2>3, <2>4, <2>5, <2>6
<1> QED BY <1>2, <1>3

LEMMA RecoveredKeeps == ASSUME MapInv, Recovered PROVE MapInv'
<1> USE DEF MapInv
<1> DEFINE a == accept.addr
           n == Len(conns) + 1
<1>1. /\ accept.at = "send" /\ a \in Addrs /\ accept'.at = "return" /\ accept'.newc = n
      /\ ~conns[accept.newc].open
      /\ conns' = Append(conns, NewUDPConn2(a))
      /\ clients' = [clients EXCEPT ![a] = n] /\ came' = came
  BY DEF Recovered, Types
<1>2. /\ conns' \in Seq(Conn) /\ n \in Nat
      /\ DOMAIN conns' = DOMAIN conns \cup {n} /\ n \notin DOMAIN conns /\ n # 0
      /\ conns'[n].addr = a /\ conns'[n].open
      /\ \A i \in DOMAIN conns : conns'[i] = conns[i]
  BY <1>1, Made DEF Types
<1>3. accept.newc \in DOMAIN conns /\ clients[a] = accept.newc
  BY <1>1 DEF Types, Current
<1> HIDE DEF n
<1>4. Types' /\ Current'
  BY <1>1, <1>2 DEF Types, Current
<1>5. MapTrue' /\ ClosedAfterReturn'
  BY <1>1, <1>2 DEF Types, MapTrue, ClosedAfterReturn
<1>6. OneOpenPerClient'
  BY <1>1, <1>2, <1>3 DEF Types, OneOpenPerClient
<1>7. NoneForgotten'
  BY <1>1, <1>2, <1>3 DEF NoneForgotten, ClosedAfterReturn
<1> QED BY <1>4, <1>5, <1>6, <1>7

LEMMA MapStep == MapInv /\ [Next]_vars => MapInv'
<1> SUFFICES ASSUME MapInv, [Next]_vars PROVE MapInv'
  OBVIOUS
<1> USE DEF MapInv
<1>1. ASSUME NEW a \in Addrs, ReadFrom(a) PROVE MapInv'
  BY <1>1, ReadFromKeeps
<1>2. CASE SendIn
  <2> DEFINE c == accept.newc
             r == [conns[c] EXCEPT !.InChan = <<accept.kbuf>>]
  <2>1. /\ c \in DOMAIN conns /\ conns[c] \in Conn /\ conns[c].open
        /\ accept.kbuf \in Nat
    BY <1>2 DEF SendIn, Types
  <2>2. /\ conns' = [conns EXCEPT ![c] = r] /\ clients' = clients
        /\ accept.at = "send" /\ came' = came
        /\ accept' = IF accept.hasnew THEN [at |-> "return", newc |-> c] ELSE [at |-> "read"]
    BY <1>2 DEF SendIn, Sent
  <2>3. /\ r \in Conn /\ r.addr = conns[c].addr /\ r.open
        /\ r.accepted = conns[c].accepted
    BY <2>1, Datagrams DEF Conn
  <2>4. ~accept.hasnew => conns[c].accepted
    BY <2>1, <2>2 DEF Types
  <2> HIDE DEF r
  <2> QED BY <2>1, <2>2, <2>3, <2>4, OneChanged
<1>3. CASE Recovered
  BY <1>3, RecoveredKeeps
<1>4. CASE Return
  <2> DEFINE c == accept.newc
             r == [conns[c] EXCEPT !.accepted = TRUE]
  <2>1. c \in DOMAIN conns /\ conns[c] \in Conn
    BY <1>4 DEF Return, Types
  <2>2. /\ conns' = [conns EXCEPT ![c] = r]
        /\ clients' = clients /\ accept'.at = "read" /\ came' = came
    BY <1>4 DEF Return
  <2>3. r \in Conn /\ r.addr = conns[c].addr /\ r.open = conns[c].open /\ r.accepted
    BY <2>1 DEF Conn
  <2> HIDE DEF r
  <2> QED BY <2>1, <2>2, <2>3, OneChanged
<1>5. ASSUME NEW c \in DOMAIN conns, StartReader(c) PROVE MapInv'
  <2> DEFINE r == [conns[c] EXCEPT !.reader = "read"]
  <2>1. conns[c] \in Conn /\ (~conns[c].open => conns[c].accepted)
    BY DEF Types, ClosedAfterReturn
  <2>2. /\ conns' = [conns EXCEPT ![c] = r]
        /\ clients' = clients /\ accept' = accept /\ came' = came
    BY <1>5 DEF StartReader
  <2>3. /\ r \in Conn /\ r.addr = conns[c].addr /\ (r.open => conns[c].open)
        /\ (~r.open => r.accepted) /\ (conns[c].accepted => r.accepted)
    BY <1>5, <2>1 DEF Conn, StartReader
  <2> HIDE DEF r
  <2> QED BY <2>2, <2>3, OneChanged
<1>6. ASSUME NEW c \in DOMAIN conns, Close(c) PROVE MapInv'
  <2> DEFINE r == [conns[c] EXCEPT !.open = FALSE]
  <2>1. conns[c] \in Conn /\ (~conns[c].open => conns[c].accepted)
    BY DEF Types, ClosedAfterReturn
  <2>2. /\ conns' = [conns EXCEPT ![c] = r]
        /\ clients' = clients /\ accept' = accept /\ came' = came
    BY <1>6 DEF Close
  <2>3. /\ r \in Conn /\ r.addr = conns[c].addr /\ (r.open => conns[c].open)
        /\ (~r.open => r.accepted) /\ (conns[c].accepted => r.accepted)
    BY <1>6, <2>1 DEF Conn, Close
  <2> HIDE DEF r
  <2> QED BY <2>2, <2>3, OneChanged
<1>7. ASSUME NEW c \in DOMAIN conns, Read(c) PROVE MapInv'
  <2> DEFINE r == [conns[c] EXCEPT !.got = @ \o conns[c].InChan, !.InChan = <<>>,
                               !.reader = "wait"]
  <2>1. conns[c] \in Conn /\ (~conns[c].open => conns[c].accepted)
    BY DEF Types, ClosedAfterReturn
  <2>2. /\ conns' = [conns EXCEPT ![c] = r]
        /\ clients' = clients /\ accept' = accept /\ came' = came
    BY <1>7 DEF Read
  <2>3. /\ r \in Conn /\ r.addr = conns[c].addr /\ (r.open => conns[c].open)
        /\ (~r.open => r.accepted) /\ (conns[c].accepted => r.accepted)
    BY <1>7, <2>1, Datagrams DEF Conn, Read
  <2> HIDE DEF r
  <2> QED BY <2>2, <2>3, OneChanged
<1>8. ASSUME NEW c \in DOMAIN conns, ReadClosed(c) PROVE MapInv'
  <2> DEFINE r == [conns[c] EXCEPT !.reader = "wait"]
  <2>1. conns[c] \in Conn /\ (~conns[c].open => conns[c].accepted)
    BY DEF Types, ClosedAfterReturn
  <2>2. /\ conns' = [conns EXCEPT ![c] = r]
        /\ clients' = clients /\ accept' = accept /\ came' = came
    BY <1>8 DEF ReadClosed
  <2>3. /\ r \in Conn /\ r.addr = conns[c].addr /\ (r.open => conns[c].open)
        /\ (~r.open => r.accepted) /\ (conns[c].accepted => r.accepted)
    BY <1>8, <2>1 DEF Conn, ReadClosed
  <2> HIDE DEF r
  <2> QED BY <2>2, <2>3, OneChanged
<1>9. ASSUME NEW c \in DOMAIN conns, Room(c) PROVE MapInv'
  <2> DEFINE r == [conns[c] EXCEPT !.reader = "read"]
  <2>1. conns[c] \in Conn /\ (~conns[c].open => conns[c].accepted)
    BY DEF Types, ClosedAfterReturn
  <2>2. /\ conns' = [conns EXCEPT ![c] = r]
        /\ clients' = clients /\ accept' = accept /\ came' = came
    BY <1>9 DEF Room
  <2>3. /\ r \in Conn /\ r.addr = conns[c].addr /\ (r.open => conns[c].open)
        /\ (~r.open => r.accepted) /\ (conns[c].accepted => r.accepted)
    BY <1>9, <2>1 DEF Conn, Room
  <2> HIDE DEF r
  <2> QED BY <2>2, <2>3, OneChanged
<1>10. CASE UNCHANGED vars
  BY <1>10 DEF vars, Types, Current, MapTrue, ClosedAfterReturn, OneOpenPerClient,
              NoneForgotten
<1> QED BY <1>1, <1>2, <1>3, <1>4, <1>5, <1>6, <1>7, <1>8, <1>9, <1>10 DEF Next

LEMMA MapCorrect == Spec => []MapInv
BY MapInit, MapStep, PTL DEF Spec

\* For any clients and any number of datagrams: the map names the one open
\* connection of each client, whenever the program closes connections.
THEOREM OneOpen == Spec => []OneOpenPerClient
<1>1. MapInv => OneOpenPerClient
  BY DEF MapInv
<1> QED BY <1>1, MapCorrect, PTL

\* And no connection is ever left that Accept has not returned: the one case in
\* doubt, a connection closed under Accept's hands, had been returned before it
\* could be closed.
THEOREM AllReturned == Spec => []NoneForgotten
<1>1. MapInv => NoneForgotten
  BY DEF MapInv
<1> QED BY <1>1, MapCorrect, PTL
-----------------------------------------------------------------------------
(* The datagrams: which connections have been given what. *)

\* The Go channel of a connection has one slot.
Slots == \A c \in DOMAIN conns : Len(conns[c].InChan) <= 1

\* What Accept holds, when it holds anything.
AcceptTypes ==
    /\ accept.at \in {"read", "send", "return"}
    /\ accept.at = "read" => accept = [at |-> "read"]
    /\ accept.at = "send" => accept.hasnew \in BOOLEAN

\* The connection in the map is its client's last; a client that is not in the
\* map has sent nothing.
Newest ==
    /\ \A c \in DOMAIN conns : /\ clients[conns[c].addr] \in DOMAIN conns
                               /\ c <= clients[conns[c].addr]
    /\ \A a \in Addrs : clients[a] = 0 => came[a] = 0 /\ ConnsOf(a) = {}

\* What a connection has been given is a run of consecutive datagrams,
Consecutive ==
    \A c \in DOMAIN conns : \A i \in DOMAIN Given(c) : Given(c)[i] = Given(c)[1] + i - 1

\* none of which is still to come,
Behind ==
    \A c \in DOMAIN conns : \A i \in DOMAIN Given(c) : Given(c)[i] \in 1..came[conns[c].addr]

\* all before those of the client's next connection,
Growing ==
    \A c, d \in DOMAIN conns : conns[d].addr = conns[c].addr /\ d < c =>
        \A i \in DOMAIN Given(c), j \in DOMAIN Given(d) : Given(d)[j] < Given(c)[i]

\* and the run of the connection in the map reaches to the last that came.
Latest ==
    \A c \in DOMAIN conns : clients[conns[c].addr] = c /\ Given(c) # <<>> =>
        Given(c)[Len(Given(c))] = came[conns[c].addr]

Elems(s) == {s[i] : i \in DOMAIN s}
GivenTo(a) == UNION {{Given(c)[i] : i \in DOMAIN Given(c)} : c \in ConnsOf(a)}

\* What a client's connections have been given can be counted, and the count is
\* what came, less one for each connection but the first.
Counted ==
    \A a \in Addrs :
        /\ IsFiniteSet(GivenTo(a)) /\ IsFiniteSet(ConnsOf(a))
        /\ ConnsOf(a) # {} => came[a] = Cardinality(GivenTo(a)) + Cardinality(ConnsOf(a)) - 1

FlowInv ==
    /\ Slots
    /\ AcceptTypes
    /\ Newest
    /\ Consecutive
    /\ Behind
    /\ Growing
    /\ Latest
    /\ Counted

LEMMA Joined ==
    ASSUME NEW p \in Seq(Nat), NEW k \in Nat
    PROVE  /\ p \o <<>> = p /\ <<>> \o p = p
           /\ (p \o <<>>) \o <<k>> = (p \o <<k>>) \o <<>>
           /\ p \o <<k>> = Append(p, k)
<1>1. p \o <<>> = p /\ <<>> \o p = p /\ p \o <<k>> = Append(p, k)
  BY ConcatEmptySeq, AppendIsConcat
<1>2. p \o <<k>> \in Seq(Nat)
  BY Datagrams
<1>3. \A s \in Seq(Nat) : s \o <<>> = s
  BY ConcatEmptySeq
<1> QED BY <1>1, <1>2, <1>3

LEMMA Appended ==
    ASSUME NEW p \in Seq(Nat), NEW k \in Nat, NEW s, s = Append(p, k)
    PROVE  /\ DOMAIN p = 1..Len(p) /\ Len(p) \in Nat
           /\ DOMAIN s = 1..(Len(p) + 1) /\ DOMAIN s = DOMAIN p \cup {Len(p) + 1}
           /\ Len(s) = Len(p) + 1 /\ s[Len(p) + 1] = k
           /\ \A i \in DOMAIN p : i \in DOMAIN s /\ s[i] = p[i] /\ p[i] \in Nat
<1>1. /\ DOMAIN p = 1..Len(p) /\ Len(p) \in Nat /\ \A i \in DOMAIN p : p[i] \in Nat
  OBVIOUS
<1>2. /\ s \in Seq(Nat) /\ Len(s) = Len(p) + 1 /\ s[Len(p) + 1] = k
      /\ \A i \in 1..Len(p) : s[i] = p[i]
  BY AppendProperties
<1>3. DOMAIN s = 1..(Len(p) + 1)
  BY <1>2, LenProperties
<1> QED BY <1>1, <1>2, <1>3

LEMMA ConnTypes ==
    MapInv => \A c \in DOMAIN conns : /\ c \in Nat \ {0} /\ conns[c].addr \in Addrs
                                      /\ conns[c].got \in Seq(Nat)
                                      /\ conns[c].InChan \in Seq(Nat)
<1> SUFFICES ASSUME MapInv, NEW c \in DOMAIN conns
             PROVE  /\ c \in Nat \ {0} /\ conns[c].addr \in Addrs
                    /\ conns[c].got \in Seq(Nat) /\ conns[c].InChan \in Seq(Nat)
  OBVIOUS
<1>1. c \in Nat \ {0} /\ conns[c] \in Conn
  BY DEF MapInv, Types
<1> QED BY <1>1 DEF Conn

LEMMA GivenType == MapInv => \A c \in DOMAIN conns : Given(c) \in Seq(Nat)
<1> SUFFICES ASSUME MapInv, NEW c \in DOMAIN conns PROVE Given(c) \in Seq(Nat)
  OBVIOUS
<1> DEFINE held == IF accept.at = "send" /\ accept.newc = c THEN <<accept.kbuf>> ELSE <<>>
<1>1. conns[c].got \in Seq(Nat) /\ conns[c].InChan \in Seq(Nat)
  BY ConnTypes
<1>2. held \in Seq(Nat)
  BY Datagrams DEF MapInv, Types
<1>3. Given(c) = (conns[c].got \o conns[c].InChan) \o held
  BY DEF Given, Held
<1> HIDE DEF held
<1> QED BY <1>1, <1>2, <1>3, Datagrams

\* A step that gives nothing to a connection and takes nothing from one.
LEMMA NothingGiven ==
    ASSUME MapInv, FlowInv, DOMAIN conns' = DOMAIN conns,
           \A c \in DOMAIN conns : conns'[c].addr = conns[c].addr /\ Given(c)' = Given(c),
           clients' = clients, came' = came, Slots', AcceptTypes'
    PROVE  FlowInv'
<1> USE DEF FlowInv
<1>1. \A a \in Addrs : ConnsOf(a)' = ConnsOf(a)
  BY DEF ConnsOf
<1>2. \A a \in Addrs : GivenTo(a)' = GivenTo(a)
  <2> SUFFICES ASSUME NEW a \in Addrs PROVE GivenTo(a)' = GivenTo(a)
    OBVIOUS
  <2>1. \A c \in ConnsOf(a) : Given(c)' = Given(c)
    BY DEF ConnsOf
  <2> QED BY <1>1, <2>1 DEF GivenTo
<1>3. Newest'
  BY <1>1 DEF Newest
<1>4. Consecutive' /\ Behind' /\ Growing' /\ Latest'
  BY DEF Consecutive, Behind, Growing, Latest
<1>5. Counted'
  BY <1>1, <1>2 DEF Counted
<1> QED BY <1>3, <1>4, <1>5

LEMMA FlowInit == Init => FlowInv
<1> SUFFICES ASSUME Init PROVE FlowInv
  OBVIOUS
<1>1. /\ conns = <<>> /\ DOMAIN conns = {} /\ accept = [at |-> "read"]
      /\ came = [a \in Addrs |-> 0]
  BY DEF Init
<1>2. \A a \in Addrs : ConnsOf(a) = {} /\ GivenTo(a) = {}
  BY <1>1 DEF ConnsOf, GivenTo
<1>3. Counted
  BY <1>2, FS_EmptySet DEF Counted
<1> QED BY <1>1, <1>2, <1>3 DEF FlowInv, Slots, AcceptTypes, Newest, Consecutive, Behind,
                               Growing, Latest

\* The connection c is the one of a in the map, and has been given g; or a has no
\* connection, and c is to be made.
Takes(a, c, g) ==
    \/ c = clients[a] /\ c \in DOMAIN conns /\ g = Given(c)
    \/ clients[a] = 0 /\ c \in Nat \ {0} /\ c \notin DOMAIN conns /\ g = <<>>

\* The connection c of a is given k, the datagram of a that has just come.
LEMMA OneGiven ==
    ASSUME MapInv, FlowInv, NEW a \in Addrs, NEW c,
           NEW g \in Seq(Nat), NEW k \in Nat, k = came[a] + 1,
           Takes(a, c, g),
           DOMAIN conns' = DOMAIN conns \cup {c},
           conns'[c].addr = a, Given(c)' = Append(g, k),
           \A d \in DOMAIN conns : conns'[d].addr = conns[d].addr,
           \A d \in DOMAIN conns \ {c} : Given(d)' = Given(d),
           clients' = [clients EXCEPT ![a] = c], came' = [came EXCEPT ![a] = k],
           Slots', AcceptTypes'
    PROVE  FlowInv'
<1> USE DEF FlowInv, Takes
<1>1. /\ clients \in [Addrs -> Nat] /\ came \in [Addrs -> Nat]
      /\ \A d \in DOMAIN conns : d \in Nat \ {0} /\ conns[d].addr \in Addrs
      /\ \A d \in DOMAIN conns : Given(d) \in Seq(Nat)
  BY GivenType, ConnTypes DEF MapInv, Types
<1>2. /\ DOMAIN Given(c)' = DOMAIN g \cup {Len(g) + 1}
      /\ Len(Given(c)') = Len(g) + 1 /\ Given(c)'[Len(g) + 1] = k
      /\ DOMAIN g = 1..Len(g) /\ Len(g) \in Nat
      /\ \A i \in DOMAIN g : Given(c)'[i] = g[i] /\ g[i] \in Nat
  BY Appended
<1>3. \A d \in DOMAIN conns : conns[d].addr = a => clients[a] = c /\ g = Given(c)
  BY DEF Newest, ConnsOf
<1>4. \A i \in DOMAIN g : g[i] >= 1 /\ g[i] < k
  <2>1. CASE clients[a] = 0
    <3>1. g = <<>>
      BY <1>1, <2>1
    <3>2. Len(g) = 0
      BY <3>1
    <3> QED BY <1>2, <3>2
  <2>2. CASE clients[a] # 0
    <3>1. c \in DOMAIN conns /\ g = Given(c) /\ conns[c].addr = a
      BY <2>2 DEF MapInv, MapTrue
    <3>2. \A i \in DOMAIN g : g[i] \in 1..came[a]
      BY <3>1 DEF Behind
    <3> QED BY <1>1, <3>2
  <2> QED BY <2>1, <2>2
<1>5. c \in Nat \ {0} /\ \A d \in DOMAIN conns' : d # c => d \in DOMAIN conns
  BY <1>1
<1>6. Newest'
  <2>1. \A d \in DOMAIN conns' : /\ clients'[conns'[d].addr] \in DOMAIN conns'
                                 /\ d <= clients'[conns'[d].addr]
    <3> TAKE d \in DOMAIN conns'
    <3>1. CASE conns'[d].addr = a
      <4>1. CASE d = c
        BY <1>1, <1>5, <3>1, <4>1
      <4>2. CASE d # c
        <5>1. d \in DOMAIN conns /\ conns[d].addr = a
          BY <1>5, <3>1, <4>2
        <5>2. clients[a] = c /\ d <= clients[a]
          BY <1>3, <5>1 DEF Newest
        <5> QED BY <1>1, <1>5, <3>1, <5>2
      <4> QED BY <4>1, <4>2
    <3>2. CASE conns'[d].addr # a
      <4>1. d \in DOMAIN conns /\ conns'[d].addr = conns[d].addr
        BY <1>5, <3>2
      <4> QED BY <1>1, <3>2, <4>1 DEF Newest
    <3> QED BY <3>1, <3>2
  <2>2. \A b \in Addrs : clients'[b] = 0 => came'[b] = 0 /\ ConnsOf(b)' = {}
    <3> SUFFICES ASSUME NEW b \in Addrs, clients'[b] = 0
                 PROVE  came'[b] = 0 /\ ConnsOf(b)' = {}
      OBVIOUS
    <3>1. b # a /\ clients[b] = 0
      BY <1>1, <1>5
    <3>2. came'[b] = 0 /\ ConnsOf(b) = {}
      BY <1>1, <3>1 DEF Newest
    <3> QED BY <1>5, <3>1, <3>2 DEF ConnsOf
  <2> QED BY <2>1, <2>2 DEF Newest
<1>7. Consecutive'
  <2> SUFFICES ASSUME NEW d \in DOMAIN conns', NEW i \in DOMAIN Given(d)'
               PROVE  Given(d)'[i] = Given(d)'[1] + i - 1
    BY DEF Consecutive
  <2>1. CASE d # c
    BY <1>5, <2>1 DEF Consecutive
  <2>2. CASE d = c /\ g = <<>>
    BY <1>2, <2>2
  <2>3. CASE d = c /\ g # <<>>
    <3>1. g = Given(c) /\ c \in DOMAIN conns /\ conns[c].addr = a /\ clients[a] = c
      BY <1>5, <2>3 DEF MapInv, MapTrue
    <3>2. g[Len(g)] = came[a] /\ \A x \in DOMAIN g : g[x] = g[1] + x - 1
      BY <2>3, <3>1 DEF Latest, Consecutive
    <3>3. Len(g) \in DOMAIN g /\ 1 \in DOMAIN g
      BY <1>2, <2>3
    <3>4. g[1] \in Nat /\ Len(g) \in Nat /\ came[a] = g[1] + Len(g) - 1
      BY <1>2, <3>2, <3>3
    <3>5. k = g[1] + (Len(g) + 1) - 1
      BY <3>4
    <3> QED BY <1>2, <2>3, <3>2, <3>3, <3>5
  <2> QED BY <2>1, <2>2, <2>3
<1>8. Behind'
  <2> SUFFICES ASSUME NEW d \in DOMAIN conns', NEW i \in DOMAIN Given(d)'
               PROVE  Given(d)'[i] \in 1..came'[conns'[d].addr]
    BY DEF Behind
  <2>1. CASE d # c
    <3>1. d \in DOMAIN conns /\ Given(d)'[i] \in 1..came[conns[d].addr]
      BY <1>5, <2>1 DEF Behind
    <3>2. came[conns[d].addr] <= came'[conns[d].addr] /\ came'[conns[d].addr] \in Nat
      BY <1>1, <3>1
    <3> QED BY <1>1, <3>1, <3>2
  <2>2. CASE d = c
    BY <1>1, <1>2, <1>4, <2>2
  <2> QED BY <2>1, <2>2
<1>9. Growing'
  <2> SUFFICES ASSUME NEW e \in DOMAIN conns', NEW d \in DOMAIN conns',
                      conns'[d].addr = conns'[e].addr, d < e,
                      NEW i \in DOMAIN Given(e)', NEW j \in DOMAIN Given(d)'
               PROVE  Given(d)'[j] < Given(e)'[i]
    BY DEF Growing
  <2>1. d # c
    <3> SUFFICES ASSUME d = c PROVE FALSE
      OBVIOUS
    <3>1. e \in DOMAIN conns /\ conns[e].addr = a
      BY <1>1, <1>5
    <3>2. e <= clients[conns[e].addr]
      BY <3>1 DEF Newest
    <3>3. e <= c /\ e \in Nat /\ c \in Nat
      BY <1>1, <1>3, <1>5, <3>1, <3>2
    <3> QED BY <3>3
  <2>2. d \in DOMAIN conns /\ Given(d)' = Given(d) /\ conns'[d].addr = conns[d].addr
    BY <1>5, <2>1
  <2>3. CASE e # c
    BY <1>5, <2>2, <2>3 DEF Growing
  <2>4. CASE e = c
    <3>1. conns[d].addr = a /\ clients[a] = c /\ g = Given(c) /\ c \in DOMAIN conns
          /\ conns[c].addr = a
      BY <1>3, <1>5, <2>2, <2>4 DEF Newest, MapInv, MapTrue
    <3>2. Given(d)[j] \in 1..came[a]
      BY <2>2, <3>1 DEF Behind
    <3>3. CASE i = Len(g) + 1
      BY <1>1, <1>2, <2>2, <2>4, <3>2, <3>3
    <3>4. CASE i \in DOMAIN g
      <4>1. Given(d)[j] < Given(c)[i]
        BY <2>2, <2>4, <3>1, <3>4 DEF Growing
      <4>2. Given(e)'[i] = g[i]
        BY <1>2, <2>4, <3>4
      <4> QED BY <2>2, <3>1, <4>1, <4>2
    <3> QED BY <1>2, <2>4, <3>3, <3>4
  <2> QED BY <2>3, <2>4
<1>10. Latest'
  <2> SUFFICES ASSUME NEW d \in DOMAIN conns', clients'[conns'[d].addr] = d,
                      Given(d)' # <<>>
               PROVE  Given(d)'[Len(Given(d)')] = came'[conns'[d].addr]
    BY DEF Latest
  <2>1. CASE d = c
    BY <1>1, <1>2, <2>1
  <2>2. CASE d # c
    <3>1. d \in DOMAIN conns /\ conns'[d].addr = conns[d].addr /\ Given(d)' = Given(d)
      BY <1>5, <2>2
    <3>2. conns[d].addr # a
      BY <1>1, <2>2, <3>1
    <3> QED BY <1>1, <3>1, <3>2 DEF Latest
  <2> QED BY <2>1, <2>2
<1>11. Counted'
  <2> SUFFICES ASSUME NEW b \in Addrs
               PROVE  /\ IsFiniteSet(GivenTo(b)') /\ IsFiniteSet(ConnsOf(b)')
                      /\ ConnsOf(b)' # {} =>
                           came'[b] = Cardinality(GivenTo(b)') + Cardinality(ConnsOf(b)') - 1
    BY DEF Counted
  <2>1. CASE b # a
    <3>1. ConnsOf(b)' = ConnsOf(b)
      BY <1>5, <2>1 DEF ConnsOf
    <3>2. \A d \in ConnsOf(b) : Given(d)' = Given(d)
      BY <1>3, <2>1 DEF ConnsOf
    <3>3. GivenTo(b)' = GivenTo(b)
      BY <3>1, <3>2 DEF GivenTo
    <3>4. came'[b] = came[b]
      BY <1>1, <2>1
    <3> QED BY <3>1, <3>3, <3>4 DEF Counted
  <2>2. CASE b = a
    <3>1. /\ IsFiniteSet(GivenTo(a)) /\ IsFiniteSet(ConnsOf(a))
          /\ ConnsOf(a) # {} => came[a] = Cardinality(GivenTo(a)) + Cardinality(ConnsOf(a)) - 1
      BY DEF Counted
    <3>2. ConnsOf(a)' = ConnsOf(a) \cup {c}
      BY <1>5 DEF ConnsOf
    <3>3. k \notin GivenTo(a)
      <4> SUFFICES ASSUME NEW d \in ConnsOf(a), NEW i \in DOMAIN Given(d), Given(d)[i] = k
                   PROVE  FALSE
        BY DEF GivenTo
      <4>1. Given(d)[i] \in 1..came[a]
        BY DEF Behind, ConnsOf
      <4> QED BY <1>1, <4>1
    <3>4. GivenTo(a)' = GivenTo(a) \cup {k}
      <4>1. ASSUME NEW d \in ConnsOf(a)', NEW i \in DOMAIN Given(d)'
            PROVE  Given(d)'[i] \in GivenTo(a) \cup {k}
        <5>1. CASE d # c
          <6>1. d \in ConnsOf(a) /\ Given(d)' = Given(d)
            BY <1>5, <3>2, <4>1, <5>1 DEF ConnsOf
          <6> QED BY <4>1, <6>1 DEF GivenTo
        <5>2. CASE d = c /\ i = Len(g) + 1
          BY <1>2, <5>2
        <5>3. CASE d = c /\ i \in DOMAIN g
          <6>1. Len(g) # 0
            BY <1>2, <5>3
          <6>2. g # <<>>
            BY <6>1
          <6>3. c \in ConnsOf(a) /\ g = Given(c)
            BY <6>2 DEF ConnsOf, MapInv, MapTrue
          <6>4. Given(d)'[i] = g[i]
            BY <1>2, <5>3
          <6> QED BY <5>3, <6>3, <6>4 DEF GivenTo
        <5> QED BY <1>2, <4>1, <5>1, <5>2, <5>3
      <4>2. ASSUME NEW d \in ConnsOf(a), NEW i \in DOMAIN Given(d)
            PROVE  \E e \in ConnsOf(a)' : \E j \in DOMAIN Given(e)' : Given(e)'[j] = Given(d)[i]
        <5>1. d \in ConnsOf(a)' /\ d \in DOMAIN conns /\ conns[d].addr = a
          BY <3>2, <4>2 DEF ConnsOf
        <5>2. CASE d # c
          BY <4>2, <5>1, <5>2
        <5>3. CASE d = c
          <6>1. Given(d) = g /\ i \in DOMAIN g
            BY <1>3, <4>2, <5>1, <5>3
          <6>2. i \in DOMAIN Given(d)' /\ Given(d)'[i] = Given(d)[i]
            BY <1>2, <5>3, <6>1
          <6> QED BY <5>1, <6>2
        <5> QED BY <5>2, <5>3
      <4>3. c \in ConnsOf(a)' /\ Len(g) + 1 \in DOMAIN Given(c)' /\ Given(c)'[Len(g) + 1] = k
        BY <1>2, <3>2
      <4> QED BY <4>1, <4>2, <4>3 DEF GivenTo
    <3>5. /\ IsFiniteSet(GivenTo(a)') /\ Cardinality(GivenTo(a)') = Cardinality(GivenTo(a)) + 1
          /\ Cardinality(GivenTo(a)) \in Nat
      <4>1. IsFiniteSet(GivenTo(a)) /\ k \notin GivenTo(a)
        BY <3>1, <3>3
      <4>2. /\ IsFiniteSet(GivenTo(a) \cup {k})
            /\ Cardinality(GivenTo(a) \cup {k}) = Cardinality(GivenTo(a)) + 1
        BY <4>1, FS_AddElement
      <4>3. Cardinality(GivenTo(a)) \in Nat
        BY <4>1, FS_CardinalityType
      <4> QED BY <3>4, <4>2, <4>3
    <3>6. CASE clients[a] # 0
      <4>1. c \in ConnsOf(a) /\ ConnsOf(a)' = ConnsOf(a)
        BY <1>1, <3>2, <3>6 DEF ConnsOf, MapInv, MapTrue
      <4>2. Cardinality(ConnsOf(a)) \in Nat
        BY <3>1, FS_CardinalityType
      <4> HIDE DEF FlowInv
      <4> QED BY <1>1, <2>2, <3>1, <3>5, <4>1, <4>2
    <3>7. CASE clients[a] = 0
      <4>1. ConnsOf(a) = {} /\ came[a] = 0
        BY <3>7 DEF Newest
      <4>2. GivenTo(a) = {} /\ ConnsOf(a)' = {c}
        BY <3>2, <4>1 DEF GivenTo
      <4>3. Cardinality(GivenTo(a)) = 0 /\ Cardinality({c}) = 1 /\ IsFiniteSet({c})
        BY <4>2, FS_EmptySet, FS_Singleton
      <4>4. came'[a] = 1
        BY <1>1, <4>1
      <4> QED BY <2>2, <3>5, <4>2, <4>3, <4>4
    <3> QED BY <3>6, <3>7
  <2> QED BY <2>1, <2>2
<1> QED BY <1>6, <1>7, <1>8, <1>9, <1>10, <1>11

LEMMA FlowReadFrom ==
    ASSUME MapInv, FlowInv, NEW a \in Addrs, ReadFrom(a),
           NEW c, c = clients'[a], NEW k, k = came[a] + 1,
           NEW g, g = IF clients[a] # 0 THEN Given(clients[a]) ELSE <<>>
    PROVE  FlowInv'
<1>1. /\ clients \in [Addrs -> Nat] /\ came \in [Addrs -> Nat] /\ conns \in Seq(Conn)
      /\ \A d \in DOMAIN conns : d \in Nat \ {0}
  BY ConnTypes DEF MapInv, Types
<1>2. /\ accept.at = "read"
      /\ accept' = [at |-> "send", addr |-> a, kbuf |-> k, newc |-> c,
                    hasnew |-> clients[a] = 0]
      /\ came' = [came EXCEPT ![a] = k] /\ clients' = [clients EXCEPT ![a] = c]
      /\ k \in Nat
  BY <1>1 DEF ReadFrom
<1>3. AcceptTypes'
  BY <1>2 DEF AcceptTypes
<1>4. CASE clients[a] # 0
  <2>1. conns' = conns /\ c = clients[a] /\ c \in DOMAIN conns /\ conns[c].addr = a
    BY <1>1, <1>4 DEF ReadFrom, MapInv, MapTrue
  <2>2. g = Given(c) /\ g \in Seq(Nat)
    BY <1>4, <2>1, GivenType
  <2>3. Slots'
    BY <2>1 DEF FlowInv, Slots
  <2>4. Given(c)' = Append(g, k)
    <3>1. conns[c].got \o conns[c].InChan \in Seq(Nat)
      BY <2>1, ConnTypes, Datagrams
    <3>2. Given(c) = (conns[c].got \o conns[c].InChan) \o <<>>
      BY <1>2 DEF Given, Held
    <3>3. Given(c)' = (conns[c].got \o conns[c].InChan) \o <<k>>
      BY <1>2, <2>1 DEF Given, Held
    <3>4. PICK s \in Seq(Nat) : s = conns[c].got \o conns[c].InChan
      BY <3>1
    <3>5. s \o <<>> = s /\ s \o <<k>> = Append(s, k)
      BY <1>2, Joined
    <3> QED BY <2>2, <3>2, <3>3, <3>4, <3>5
  <2>5. \A d \in DOMAIN conns \ {c} : Given(d)' = Given(d)
    BY <1>2, <2>1 DEF Given, Held
  <2>6. DOMAIN conns' = DOMAIN conns \cup {c} /\ conns'[c].addr = a
    BY <2>1
  <2>7. \A d \in DOMAIN conns : conns'[d].addr = conns[d].addr
    BY <2>1
  <2>8. Takes(a, c, g)
    BY <2>1, <2>2 DEF Takes
  <2>9. k \in Nat /\ clients' = [clients EXCEPT ![a] = c] /\ came' = [came EXCEPT ![a] = k]
    BY <1>2
  <2>10. g \in Seq(Nat)
    BY <2>2
  <2> QED BY <1>3, <2>3, <2>4, <2>5, <2>6, <2>7, <2>8, <2>9, <2>10, OneGiven
<1>5. CASE clients[a] = 0
  <2>1. conns' = Append(conns, NewUDPConn2(a)) /\ c = Len(conns) + 1 /\ g = <<>>
    BY <1>1, <1>5 DEF ReadFrom
  <2>2. /\ DOMAIN conns' = DOMAIN conns \cup {c} /\ c \notin DOMAIN conns
        /\ c \in Nat \ {0} /\ conns'[c] = NewUDPConn2(a)
        /\ \A i \in DOMAIN conns : conns'[i] = conns[i]
    BY <1>1, <2>1
  <2>3. /\ conns'[c].addr = a /\ conns'[c].got = <<>> /\ conns'[c].InChan = <<>>
    BY <2>2 DEF NewUDPConn2
  <2>4. Slots'
    <3>1. Len(conns'[c].InChan) <= 1
      BY <2>3
    <3> QED BY <2>2, <3>1 DEF FlowInv, Slots
  <2>5. Given(c)' = Append(g, k)
    <3>1. Given(c)' = (<<>> \o <<>>) \o <<k>>
      BY <1>2, <2>3 DEF Given, Held
    <3>2. <<>> \in Seq(Nat)
      OBVIOUS
    <3>3. <<>> \o <<>> = <<>> /\ <<>> \o <<k>> = Append(<<>>, k)
      BY <1>2, <3>2, Joined
    <3> QED BY <2>1, <3>1, <3>3
  <2>6. \A d \in DOMAIN conns \ {c} : Given(d)' = Given(d)
    BY <1>2, <2>2 DEF Given, Held
  <2>7. g \in Seq(Nat)
    BY <2>1, Datagrams
  <2>8. \A d \in DOMAIN conns : conns'[d].addr = conns[d].addr
    BY <2>2
  <2>9. clients[a] = 0 /\ c \in Nat \ {0} /\ c \notin DOMAIN conns /\ g = <<>>
    BY <1>5, <2>1, <2>2
  <2>10. DOMAIN conns' = DOMAIN conns \cup {c} /\ conns'[c].addr = a
    BY <2>2, <2>3
  <2>11. k \in Nat /\ clients' = [clients EXCEPT ![a] = c] /\ came' = [came EXCEPT ![a] = k]
    BY <1>2
  <2>12. Takes(a, c, g)
    BY <2>9 DEF Takes
  <2>13. DOMAIN conns' = DOMAIN conns \cup {c}
    BY <2>10
  <2>14. conns'[c].addr = a
    BY <2>10
  <2> QED BY <1>3, <2>4, <2>5, <2>6, <2>7, <2>8, <2>11, <2>12, <2>13, <2>14, OneGiven
<1> QED BY <1>4, <1>5

\* The send that panicked: c, the client's last connection, loses its last
\* datagram, and the client has one connection more.
LEMMA OneTaken ==
    ASSUME MapInv, FlowInv, NEW a \in Addrs, NEW c \in DOMAIN conns, NEW k \in Nat,
           NEW n \in Nat \ {0}, NEW g \in Seq(Nat),
           clients[a] = c, conns[c].addr = a,
           n \notin DOMAIN conns, \A d \in DOMAIN conns : d < n,
           DOMAIN conns' = DOMAIN conns \cup {n}, conns'[n].addr = a,
           \A d \in DOMAIN conns : conns'[d].addr = conns[d].addr,
           Given(c) = Append(g, k), Given(c)' = g, Given(n)' = <<>>,
           \A d \in DOMAIN conns \ {c} : Given(d)' = Given(d),
           clients' = [clients EXCEPT ![a] = n], came' = came,
           Slots', AcceptTypes'
    PROVE  FlowInv'
<1> USE DEF FlowInv
<1>1. /\ clients \in [Addrs -> Nat] /\ came \in [Addrs -> Nat]
      /\ \A d \in DOMAIN conns : d \in Nat \ {0} /\ conns[d].addr \in Addrs
      /\ \A d \in DOMAIN conns : Given(d) \in Seq(Nat)
  BY ConnTypes, GivenType DEF MapInv, Types
<1>2. /\ DOMAIN Given(c) = 1..(Len(g) + 1) /\ DOMAIN g = 1..Len(g) /\ Len(g) \in Nat
      /\ Given(c)[Len(g) + 1] = k /\ Len(Given(c)) = Len(g) + 1
      /\ \A i \in DOMAIN g : i \in DOMAIN Given(c) /\ Given(c)[i] = g[i]
  BY Appended
<1>3. \A d \in DOMAIN conns : \A i \in DOMAIN Given(d)' : /\ i \in DOMAIN Given(d)
                                                           /\ Given(d)'[i] = Given(d)[i]
  BY <1>2
<1>4. \A d \in DOMAIN conns' : d = n \/ (d \in DOMAIN conns /\ conns'[d].addr = conns[d].addr)
  OBVIOUS
<1>5. DOMAIN Given(n)' = {}
  OBVIOUS
<1>6. k = came[a]
  <2>1. Given(c) # <<>>
    BY AppendProperties
  <2> QED BY <1>2, <2>1 DEF Latest
<1>7. Newest'
  <2>1. \A d \in DOMAIN conns' : /\ clients'[conns'[d].addr] \in DOMAIN conns'
                                 /\ d <= clients'[conns'[d].addr]
    <3> TAKE d \in DOMAIN conns'
    <3>1. CASE conns'[d].addr = a
      <4>1. clients'[a] = n /\ d <= n
        BY <1>1
      <4> QED BY <3>1, <4>1
    <3>2. CASE conns'[d].addr # a
      <4>1. d \in DOMAIN conns /\ conns'[d].addr = conns[d].addr
        BY <1>4, <3>2
      <4> QED BY <1>1, <3>2, <4>1 DEF Newest
    <3> QED BY <3>1, <3>2
  <2>2. \A b \in Addrs : clients'[b] = 0 => came'[b] = 0 /\ ConnsOf(b)' = {}
    <3> SUFFICES ASSUME NEW b \in Addrs, clients'[b] = 0
                 PROVE  came'[b] = 0 /\ ConnsOf(b)' = {}
      OBVIOUS
    <3>1. b # a /\ clients[b] = 0
      BY <1>1
    <3>2. came'[b] = 0 /\ ConnsOf(b) = {}
      BY <3>1 DEF Newest
    <3> QED BY <1>4, <3>1, <3>2 DEF ConnsOf
  <2> QED BY <2>1, <2>2 DEF Newest
<1>8. Consecutive'
  <2> SUFFICES ASSUME NEW d \in DOMAIN conns', NEW i \in DOMAIN Given(d)'
               PROVE  Given(d)'[i] = Given(d)'[1] + i - 1
    BY DEF Consecutive
  <2>1. d \in DOMAIN conns
    BY <1>4, <1>5
  <2>2. Given(d)' \in Seq(Nat)
    BY <1>1, <2>1
  <2>3. 1 \in DOMAIN Given(d)'
    BY <2>2, LenProperties
  <2> QED BY <1>3, <2>1, <2>3 DEF Consecutive
<1>9. Behind'
  BY <1>3, <1>4, <1>5 DEF Behind
<1>10. Growing'
  <2> SUFFICES ASSUME NEW e \in DOMAIN conns', NEW d \in DOMAIN conns',
                      conns'[d].addr = conns'[e].addr, d < e,
                      NEW i \in DOMAIN Given(e)', NEW j \in DOMAIN Given(d)'
               PROVE  Given(d)'[j] < Given(e)'[i]
    BY DEF Growing
  <2>1. d \in DOMAIN conns /\ e \in DOMAIN conns
    BY <1>4, <1>5
  <2> QED BY <1>3, <1>4, <2>1 DEF Growing
<1>11. Latest'
  <2> SUFFICES ASSUME NEW d \in DOMAIN conns', clients'[conns'[d].addr] = d,
                      Given(d)' # <<>>
               PROVE  Given(d)'[Len(Given(d)')] = came'[conns'[d].addr]
    BY DEF Latest
  <2>1. d \in DOMAIN conns /\ conns'[d].addr = conns[d].addr
    BY <1>4
  <2>2. conns[d].addr # a
    BY <1>1, <2>1
  <2>3. Given(d)' = Given(d) /\ clients[conns[d].addr] = d
    BY <1>1, <2>1, <2>2
  <2> QED BY <2>1, <2>3 DEF Latest
<1>12. Counted'
  <2> SUFFICES ASSUME NEW b \in Addrs
               PROVE  /\ IsFiniteSet(GivenTo(b)') /\ IsFiniteSet(ConnsOf(b)')
                      /\ ConnsOf(b)' # {} =>
                           came'[b] = Cardinality(GivenTo(b)') + Cardinality(ConnsOf(b)') - 1
    BY DEF Counted
  <2>1. CASE b # a
    <3>1. ConnsOf(b)' = ConnsOf(b)
      BY <1>4, <2>1 DEF ConnsOf
    <3>2. \A d \in ConnsOf(b) : Given(d)' = Given(d)
      BY <2>1 DEF ConnsOf
    <3>3. GivenTo(b)' = GivenTo(b)
      BY <3>1, <3>2 DEF GivenTo
    <3> QED BY <3>1, <3>3 DEF Counted
  <2>2. CASE b = a
    <3>1. /\ IsFiniteSet(GivenTo(a)) /\ IsFiniteSet(ConnsOf(a)) /\ c \in ConnsOf(a)
          /\ came[a] = Cardinality(GivenTo(a)) + Cardinality(ConnsOf(a)) - 1
      BY DEF Counted, ConnsOf
    <3>2. ConnsOf(a)' = ConnsOf(a) \cup {n} /\ n \notin ConnsOf(a)
      BY <1>4 DEF ConnsOf
    <3>3. k \in GivenTo(a)
      BY <1>2, <3>1 DEF GivenTo
    <3>4. GivenTo(a)' = GivenTo(a) \ {k}
      <4>1. ASSUME NEW d \in ConnsOf(a)', NEW i \in DOMAIN Given(d)'
            PROVE  Given(d)'[i] \in GivenTo(a) \ {k}
        <5>1. d \in ConnsOf(a) /\ d \in DOMAIN conns /\ conns[d].addr = a
          BY <1>4, <1>5, <3>2, <4>1 DEF ConnsOf
        <5>2. i \in DOMAIN Given(d) /\ Given(d)'[i] = Given(d)[i]
          BY <1>3, <4>1, <5>1
        <5>3. Given(d)[i] # k
          <6>1. CASE d = c
            <7>1. i \in 1..Len(g)
              BY <1>2, <4>1, <6>1
            <7>2. Given(c)[i] = Given(c)[1] + i - 1
              BY <5>2, <6>1 DEF Consecutive
            <7>4. Given(c)[Len(g) + 1] = Given(c)[1] + (Len(g) + 1) - 1
              <8>1. Len(g) + 1 \in DOMAIN Given(c)
                BY <1>2
              <8> QED BY <8>1 DEF Consecutive
            <7>3. Given(c)[1] \in Nat
              BY <1>2
            <7> QED BY <1>2, <6>1, <7>1, <7>2, <7>3, <7>4
          <6>2. CASE d # c
            <7>1. d < c
              <8>1. d <= c /\ d \in Nat /\ c \in Nat
                BY <1>1, <5>1 DEF Newest
              <8> QED BY <6>2, <8>1
            <7>2. Len(g) + 1 \in DOMAIN Given(c)
              BY <1>2
            <7>3. Given(d)[i] < k
              BY <1>2, <5>1, <5>2, <7>1, <7>2 DEF Growing
            <7> QED BY <1>1, <5>1, <5>2, <7>3
          <6> QED BY <6>1, <6>2
        <5> QED BY <5>1, <5>2, <5>3 DEF GivenTo
      <4>2. ASSUME NEW d \in ConnsOf(a), NEW i \in DOMAIN Given(d), Given(d)[i] # k
            PROVE  \E e \in ConnsOf(a)' : \E j \in DOMAIN Given(e)' : Given(e)'[j] = Given(d)[i]
        <5>1. d \in ConnsOf(a)' /\ d \in DOMAIN conns
          BY <3>2 DEF ConnsOf
        <5>2. i \in DOMAIN Given(d)' /\ Given(d)'[i] = Given(d)[i]
          <6>1. CASE d # c
            BY <5>1, <6>1
          <6>2. CASE d = c
            <7>1. i # Len(g) + 1
              BY <1>2, <4>2, <6>2
            <7> QED BY <1>2, <4>2, <6>2, <7>1
          <6> QED BY <6>1, <6>2
        <5> QED BY <5>1, <5>2
      <4> QED BY <4>1, <4>2 DEF GivenTo
    <3>5. /\ IsFiniteSet(GivenTo(a) \ {k})
          /\ Cardinality(GivenTo(a) \ {k}) = Cardinality(GivenTo(a)) - 1
      BY <3>1, <3>3, FS_RemoveElement
    <3>6. /\ IsFiniteSet(ConnsOf(a) \cup {n})
          /\ Cardinality(ConnsOf(a) \cup {n}) = Cardinality(ConnsOf(a)) + 1
      BY <3>1, <3>2, FS_AddElement
    <3>7. Cardinality(GivenTo(a)) \in Nat /\ Cardinality(ConnsOf(a)) \in Nat
      BY <3>1, FS_CardinalityType
    <3> QED BY <2>2, <3>1, <3>2, <3>4, <3>5, <3>6, <3>7
  <2> QED BY <2>1, <2>2
<1> QED BY <1>7, <1>8, <1>9, <1>10, <1>11, <1>12

LEMMA FlowRecovered == ASSUME MapInv, FlowInv, Recovered PROVE FlowInv'
<1>1. PICK a, c, k, n, g : /\ a = accept.addr /\ c = accept.newc /\ k = accept.kbuf
                           /\ n = Len(conns) + 1 /\ g = conns[c].got \o conns[c].InChan
  OBVIOUS
<1>2. /\ accept.at = "send" /\ a \in Addrs /\ c \in DOMAIN conns /\ k \in Nat
      /\ clients[a] = c /\ conns[c].addr = a /\ conns \in Seq(Conn)
  BY <1>1 DEF Recovered, MapInv, Types, Current
<1>3. /\ conns' = Append(conns, NewUDPConn2(a)) /\ clients' = [clients EXCEPT ![a] = n]
      /\ accept' = [at |-> "return", newc |-> n] /\ came' = came
  BY <1>1 DEF Recovered
<1>4. /\ DOMAIN conns' = DOMAIN conns \cup {n} /\ n \notin DOMAIN conns
      /\ n \in Nat \ {0} /\ conns'[n] = NewUDPConn2(a)
      /\ \A i \in DOMAIN conns : conns'[i] = conns[i] /\ i < n
  BY <1>1, <1>2, <1>3
<1>5. /\ conns'[n].addr = a /\ conns'[n].got = <<>> /\ conns'[n].InChan = <<>>
  BY <1>4 DEF NewUDPConn2
<1>6. g \in Seq(Nat)
  BY <1>1, <1>2, ConnTypes, Datagrams
<1>7. Given(c) = Append(g, k) /\ Given(c)' = g
  <2>1. Given(c) = g \o <<k>> /\ Given(c)' = g \o <<>>
    BY <1>1, <1>2, <1>3, <1>4 DEF Given, Held
  <2>2. g \o <<k>> = Append(g, k) /\ g \o <<>> = g
    BY <1>2, <1>6, Joined
  <2> QED BY <2>1, <2>2
<1>8. \A d \in DOMAIN conns \ {c} : Given(d)' = Given(d)
  BY <1>1, <1>2, <1>3, <1>4 DEF Given, Held
<1>9. Given(n)' = <<>>
  <2>1. Given(n)' = (<<>> \o <<>>) \o <<>>
    BY <1>3, <1>5 DEF Given, Held
  <2> QED BY <2>1
<1>10. Slots' /\ AcceptTypes'
  <2>1. Len(conns'[n].InChan) <= 1
    BY <1>5
  <2> QED BY <1>3, <1>4, <2>1 DEF FlowInv, Slots, AcceptTypes
<1>11. \A d \in DOMAIN conns : d < n
  BY <1>4
<1>14. \A d \in DOMAIN conns : conns'[d].addr = conns[d].addr
  BY <1>4
<1>12. /\ a \in Addrs /\ c \in DOMAIN conns /\ k \in Nat /\ n \in Nat \ {0}
       /\ clients[a] = c /\ conns[c].addr = a
       /\ n \notin DOMAIN conns /\ DOMAIN conns' = DOMAIN conns \cup {n}
       /\ conns'[n].addr = a
  BY <1>2, <1>4, <1>5
<1>13. clients' = [clients EXCEPT ![a] = n] /\ came' = came
  BY <1>3
<1> QED BY <1>6, <1>7, <1>8, <1>9, <1>10, <1>11, <1>12, <1>13, <1>14, OneTaken

\* A step of the connections: c keeps its client and what it has been given.
LEMMA SameGiven ==
    ASSUME MapInv, FlowInv, NEW c \in DOMAIN conns, NEW r,
           conns' = [conns EXCEPT ![c] = r], r.addr = conns[c].addr, Len(r.InChan) <= 1,
           Given(c)' = Given(c), \A d \in DOMAIN conns \ {c} : Given(d)' = Given(d),
           clients' = clients, came' = came, AcceptTypes'
    PROVE  FlowInv'
<1>1. conns \in Seq(Conn)
  BY DEF MapInv, Types
<1>2. /\ DOMAIN conns' = DOMAIN conns /\ conns'[c] = r
      /\ \A d \in DOMAIN conns : d # c => conns'[d] = conns[d]
  BY <1>1
<1>3. Slots'
  BY <1>2 DEF FlowInv, Slots
<1>4. \A d \in DOMAIN conns : conns'[d].addr = conns[d].addr /\ Given(d)' = Given(d)
  BY <1>2
<1> QED BY <1>2, <1>3, <1>4, NothingGiven

LEMMA FlowSendIn == ASSUME MapInv, FlowInv, SendIn PROVE FlowInv'
<1>1. PICK c, k, r : /\ c = accept.newc /\ k = accept.kbuf
                     /\ r = [conns[c] EXCEPT !.InChan = <<k>>]
  OBVIOUS
<1>2. /\ accept.at = "send" /\ c \in DOMAIN conns /\ k \in Nat
      /\ conns[c].InChan = <<>> /\ conns \in Seq(Conn) /\ conns[c] \in Conn
  BY <1>1 DEF SendIn, MapInv, Types
<1>3. /\ conns' = [conns EXCEPT ![c] = r] /\ clients' = clients /\ came' = came
      /\ accept' = IF accept.hasnew THEN [at |-> "return", newc |-> c] ELSE [at |-> "read"]
  BY <1>1 DEF SendIn, Sent
<1>4. /\ conns'[c] = r /\ \A d \in DOMAIN conns : d # c => conns'[d] = conns[d]
      /\ accept'.at # "send"
  BY <1>2, <1>3
<1>5. r.addr = conns[c].addr /\ r.got = conns[c].got /\ r.InChan = <<k>>
  BY <1>1, <1>2 DEF Conn
<1>6. Len(r.InChan) <= 1
  BY <1>5
<1>7. Given(c)' = Given(c)
  <2>1. PICK g : g = conns[c].got
    OBVIOUS
  <2>2. g \in Seq(Nat)
    BY <1>2, <2>1, ConnTypes
  <2>3. Given(c) = (g \o <<>>) \o <<k>> /\ Given(c)' = (g \o <<k>>) \o <<>>
    BY <1>1, <1>2, <1>4, <1>5, <2>1 DEF Given, Held
  <2> QED BY <1>2, <2>2, <2>3, Joined
<1>8. \A d \in DOMAIN conns \ {c} : Given(d)' = Given(d)
  BY <1>1, <1>4 DEF Given, Held
<1>9. AcceptTypes'
  BY <1>3 DEF AcceptTypes
<1> QED BY <1>2, <1>3, <1>5, <1>6, <1>7, <1>8, <1>9, SameGiven

LEMMA FlowRead == ASSUME MapInv, FlowInv, NEW c \in DOMAIN conns, Read(c) PROVE FlowInv'
<1>1. PICK p, q, r : /\ p = conns[c].got /\ q = conns[c].InChan
                     /\ r = [conns[c] EXCEPT !.got = p \o q, !.InChan = <<>>, !.reader = "wait"]
  OBVIOUS
<1>2. conns \in Seq(Conn) /\ conns[c] \in Conn
  BY DEF MapInv, Types
<1>3. conns' = [conns EXCEPT ![c] = r] /\ clients' = clients /\ came' = came /\ accept' = accept
  BY <1>1 DEF Read
<1>4. conns'[c] = r /\ \A d \in DOMAIN conns : d # c => conns'[d] = conns[d]
  BY <1>2, <1>3
<1>5. r.addr = conns[c].addr /\ r.got = p \o q /\ r.InChan = <<>>
  BY <1>1, <1>2 DEF Conn
<1>6. Len(r.InChan) <= 1
  BY <1>5
<1>7. Given(c)' = Given(c)
  <2>1. PICK g, h : g = p \o q /\ h = IF accept.at = "send" /\ accept.newc = c
                                       THEN <<accept.kbuf>> ELSE <<>>
    OBVIOUS
  <2>2. g \in Seq(Nat)
    BY <1>1, <2>1, ConnTypes, Datagrams
  <2>3. Given(c) = g \o h /\ Given(c)' = (g \o <<>>) \o h
    BY <1>1, <1>3, <1>4, <1>5, <2>1 DEF Given, Held
  <2>4. g \o <<>> = g
    BY <2>2, ConcatEmptySeq
  <2> QED BY <2>3, <2>4
<1>8. \A d \in DOMAIN conns \ {c} : Given(d)' = Given(d)
  BY <1>3, <1>4 DEF Given, Held
<1>9. AcceptTypes'
  BY <1>3 DEF FlowInv, AcceptTypes
<1> QED BY <1>3, <1>5, <1>6, <1>7, <1>8, <1>9, SameGiven

\* What changes only the flags of a connection gives it nothing.
LEMMA FlowFlags ==
    ASSUME MapInv, FlowInv, NEW c \in DOMAIN conns, NEW r,
           conns' = [conns EXCEPT ![c] = r], r.addr = conns[c].addr,
           r.got = conns[c].got, r.InChan = conns[c].InChan,
           clients' = clients, came' = came,
           \/ accept' = accept
           \/ accept.at = "return" /\ accept' = [at |-> "read"]
    PROVE  FlowInv'
<1>1. conns \in Seq(Conn) /\ Len(r.InChan) <= 1
  BY DEF MapInv, Types, FlowInv, Slots
<1>2. conns'[c] = r /\ \A d \in DOMAIN conns : d # c => conns'[d] = conns[d]
  BY <1>1
<1>3. AcceptTypes'
  BY DEF FlowInv, AcceptTypes
<1>4. Given(c)' = Given(c) /\ \A d \in DOMAIN conns \ {c} : Given(d)' = Given(d)
  <2>1. CASE accept' = accept
    BY <1>2, <2>1 DEF Given, Held
  <2>2. CASE accept.at = "return" /\ accept' = [at |-> "read"]
    <3>1. accept.at # "send" /\ accept'.at # "send"
      BY <2>2
    <3> QED BY <1>2, <3>1 DEF Given, Held
  <2> QED BY <2>1, <2>2
<1> QED BY <1>1, <1>3, <1>4, SameGiven

LEMMA FlowStep == MapInv /\ FlowInv /\ [Next]_vars => FlowInv'
<1> SUFFICES ASSUME MapInv, FlowInv, [Next]_vars PROVE FlowInv'
  OBVIOUS
<1>1. ASSUME NEW a \in Addrs, ReadFrom(a) PROVE FlowInv'
  <2>1. PICK c, k, g : /\ c = clients'[a] /\ k = came[a] + 1
                       /\ g = IF clients[a] # 0 THEN Given(clients[a]) ELSE <<>>
    OBVIOUS
  <2> QED BY <1>1, <2>1, FlowReadFrom
<1>2. CASE SendIn
  BY <1>2, FlowSendIn
<1>3. CASE Recovered
  BY <1>3, FlowRecovered
<1>4. CASE Return
  <2>1. PICK c, r : c = accept.newc /\ r = [conns[c] EXCEPT !.accepted = TRUE]
    OBVIOUS
  <2>2. c \in DOMAIN conns /\ conns[c] \in Conn
    BY <1>4, <2>1 DEF Return, MapInv, Types
  <2>3. r.addr = conns[c].addr /\ r.got = conns[c].got /\ r.InChan = conns[c].InChan
    BY <2>1, <2>2 DEF Conn
  <2>4. /\ conns' = [conns EXCEPT ![c] = r] /\ clients' = clients /\ came' = came
        /\ accept.at = "return" /\ accept' = [at |-> "read"]
    BY <1>4, <2>1 DEF Return
  <2> QED BY <2>2, <2>3, <2>4, FlowFlags
<1>5. ASSUME NEW c \in DOMAIN conns, StartReader(c) \/ Close(c) \/ ReadClosed(c) \/ Room(c) PROVE FlowInv'
  <2>1. conns[c] \in Conn
    BY DEF MapInv, Types
  <2>2. PICK r : /\ r = [conns[c] EXCEPT !.reader = "read"] \/ r = [conns[c] EXCEPT !.open = FALSE]
                    \/ r = [conns[c] EXCEPT !.reader = "wait"]
                 /\ conns' = [conns EXCEPT ![c] = r]
    BY <1>5 DEF StartReader, Close, ReadClosed, Room
  <2>3. r.addr = conns[c].addr /\ r.got = conns[c].got /\ r.InChan = conns[c].InChan
    BY <2>1, <2>2 DEF Conn
  <2>4. clients' = clients /\ came' = came /\ accept' = accept
    BY <1>5 DEF StartReader, Close, ReadClosed, Room
  <2> QED BY <2>2, <2>3, <2>4, FlowFlags
<1>6. ASSUME NEW c \in DOMAIN conns, Read(c) PROVE FlowInv'
  BY <1>6, FlowRead
<1>7. CASE UNCHANGED vars
  <2>1. conns' = conns /\ clients' = clients /\ accept' = accept /\ came' = came
    BY <1>7 DEF vars
  <2>2. \A c \in DOMAIN conns : Given(c)' = Given(c)
    BY <2>1 DEF Given, Held
  <2>3. Slots' /\ AcceptTypes'
    BY <2>1 DEF FlowInv, Slots, AcceptTypes
  <2> QED BY <2>1, <2>2, <2>3, NothingGiven
<1> QED BY <1>1, <1>2, <1>3, <1>4, <1>5, <1>6, <1>7 DEF Next

LEMMA FlowCorrect == Spec => []FlowInv
BY FlowInit, FlowStep, MapCorrect, PTL DEF Spec

\* The state has the types of UDPServer and UDPConn2, with at most one datagram
\* in the Go channel of a connection.
THEOREM ListenerTypes == Spec => []TypeOK
<1>1. MapInv /\ FlowInv => TypeOK
  <2> SUFFICES ASSUME MapInv, FlowInv PROVE TypeOK
    OBVIOUS
  <2>1. clients \in [Addrs -> 0..Len(conns)]
    <3>1. \A a \in Addrs : clients[a] \in 0..Len(conns)
      BY DEF MapInv, Types, MapTrue
    <3> QED BY <3>1 DEF MapInv, Types
  <2>2. /\ conns \in Seq(Conn) /\ came \in [Addrs -> Nat]
        /\ \A c \in DOMAIN conns : Len(conns[c].InChan) <= 1
    BY DEF MapInv, Types, FlowInv, Slots
  <2>3. \/ accept = [at |-> "read"]
        \/ accept.at = "return" /\ accept.newc \in DOMAIN conns
        \/ /\ accept.at = "send" /\ accept.newc \in DOMAIN conns /\ accept.addr \in Addrs
           /\ accept.kbuf \in Nat /\ accept.hasnew \in BOOLEAN
    BY DEF MapInv, Types, FlowInv, AcceptTypes
  <2> QED BY <2>1, <2>2, <2>3 DEF TypeOK
<1> QED BY <1>1, MapCorrect, FlowCorrect, PTL

\* Whatever the number of clients and datagrams and whenever connections are
\* closed: a client's datagrams reach its connections in the order they came,
\* and without a gap inside of one connection.
THEOREM InOrder == Spec => []NoGap
<1>1. FlowInv => NoGap
  BY DEF FlowInv, Consecutive, Growing, NoGap, ConnsOf
<1> QED BY <1>1, FlowCorrect, PTL

-----------------------------------------------------------------------------
(* What is lost. *)

\* What w, one sequence followed by another, has and where.
Spliced(u, v, w) ==
    /\ w \in Seq(Nat) /\ Len(u) \in Nat
    /\ \A i \in DOMAIN u : i \in 1..Len(u) /\ i \in DOMAIN w /\ w[i] = u[i]
    /\ \A j \in DOMAIN v : j \in Nat \ {0} /\ Len(u) + j \in DOMAIN w /\ w[Len(u) + j] = v[j]
    /\ Elems(w) = Elems(u) \cup Elems(v)

LEMMA Concat ==
    ASSUME NEW u \in Seq(Nat), NEW v \in Seq(Nat), NEW w, w = u \o v
    PROVE  Spliced(u, v, w)
<1>1. /\ w \in Seq(Nat) /\ Len(w) = Len(u) + Len(v)
      /\ \A i \in 1..(Len(u) + Len(v)) : w[i] = IF i <= Len(u) THEN u[i] ELSE v[i - Len(u)]
  BY ConcatProperties
<1>2. /\ Len(u) \in Nat /\ Len(v) \in Nat
      /\ DOMAIN u = 1..Len(u) /\ DOMAIN v = 1..Len(v) /\ DOMAIN w = 1..(Len(u) + Len(v))
  <2>1. \A s \in Seq(Nat) : Len(s) \in Nat /\ DOMAIN s = 1..Len(s)
    BY LenProperties
  <2> QED BY <1>1, <2>1
<1>3. PICK m, n : m = Len(u) /\ n = Len(v)
  OBVIOUS
<1>4. \A i \in 1..m : i \in 1..(m + n) /\ w[i] = u[i]
  BY <1>1, <1>2, <1>3
<1>5. \A j \in 1..n : j \in Nat \ {0} /\ m + j \in 1..(m + n) /\ w[m + j] = v[j]
  <2> SUFFICES ASSUME NEW j \in 1..n
               PROVE  j \in Nat \ {0} /\ m + j \in 1..(m + n) /\ w[m + j] = v[j]
    OBVIOUS
  <2>1. j \in Nat \ {0} /\ m + j \in 1..(m + n) /\ ~(m + j <= m) /\ (m + j) - m = j
    BY <1>2, <1>3
  <2> QED BY <1>1, <1>3, <2>1
<1>6. \A k \in 1..(m + n) : (\E i \in 1..m : w[k] = u[i]) \/ (\E j \in 1..n : w[k] = v[j])
  <2> SUFFICES ASSUME NEW k \in 1..(m + n)
               PROVE  (\E i \in 1..m : w[k] = u[i]) \/ (\E j \in 1..n : w[k] = v[j])
    OBVIOUS
  <2>1. CASE k <= m
    <3>1. k \in 1..m
      BY <1>2, <1>3, <2>1
    <3> QED BY <1>4, <3>1
  <2>2. CASE ~(k <= m)
    <3>1. k - m \in 1..n /\ m + (k - m) = k
      BY <1>2, <1>3, <2>2
    <3>2. w[m + (k - m)] = v[k - m]
      BY <1>5, <3>1
    <3> QED BY <3>1, <3>2
  <2> QED BY <2>1, <2>2
<1>7. Elems(w) = Elems(u) \cup Elems(v)
  <2>1. /\ Elems(w) = {w[k] : k \in 1..(m + n)} /\ Elems(u) = {u[i] : i \in 1..m}
        /\ Elems(v) = {v[j] : j \in 1..n}
    BY <1>2, <1>3 DEF Elems
  <2>2. Elems(w) \subseteq Elems(u) \cup Elems(v)
    BY <1>6, <2>1, Zenon
  <2>3. Elems(u) \subseteq Elems(w)
    <3> SUFFICES ASSUME NEW i \in 1..m PROVE u[i] \in Elems(w)
      BY <2>1
    <3>1. i \in 1..(m + n) /\ w[i] = u[i]
      BY <1>4
    <3> QED BY <2>1, <3>1
  <2>4. Elems(v) \subseteq Elems(w)
    <3> SUFFICES ASSUME NEW j \in 1..n PROVE v[j] \in Elems(w)
      BY <2>1
    <3>1. m + j \in 1..(m + n) /\ w[m + j] = v[j]
      BY <1>5
    <3> QED BY <2>1, <3>1
  <2> QED BY <2>2, <2>3, <2>4
<1> QED BY <1>1, <1>2, <1>3, <1>4, <1>5, <1>7 DEF Spliced

LEMMA OneElement ==
    ASSUME NEW q \in Seq(Nat), q # <<>>, Len(q) <= 1
    PROVE  DOMAIN q = {1} /\ q[1] \in Nat /\ Elems(q) = {q[1]}
<1>1. Len(q) \in Nat \ {0}
  BY EmptySeq
<1>2. DOMAIN q = 1..Len(q)
  BY LenProperties
<1>3. DOMAIN q = {1}
  <2>1. PICK n \in Nat \ {0} : n = Len(q)
    BY <1>1
  <2>2. n <= 1
    BY <2>1
  <2>3. n = 1
    BY <2>2
  <2> QED BY <1>2, <2>1, <2>3
<1>4. q[1] \in Nat
  BY <1>3
<1> QED BY <1>3, <1>4 DEF Elems

\* The datagram in the slot of a connection.
Slot(c) == conns[c].InChan[1]

\* A connection nobody will read has been given what it can still hand over and
\* the datagram in its slot, which is none of these.
LEMMA StrandedSlot ==
    ASSUME MapInv, FlowInv, NEW c \in DOMAIN conns, Stranded(c)
    PROVE  /\ Elems(Given(c)) = Elems(Reaching(c)) \cup {Slot(c)}
           /\ Slot(c) \notin Elems(Reaching(c))
<1>1. PICK p, q, h, w : /\ p = conns[c].got /\ q = conns[c].InChan /\ h = Held(c)
                        /\ w = p \o q
  OBVIOUS
<1>2. p \in Seq(Nat) /\ q \in Seq(Nat)
  BY <1>1, ConnTypes
<1>3. DOMAIN q = {1} /\ q[1] \in Nat /\ Elems(q) = {q[1]}
  <2>1. q # <<>> /\ Len(q) <= 1
    BY <1>1 DEF Stranded, FlowInv, Slots
  <2> QED BY <1>2, <2>1, OneElement
<1>4. h \in Seq(Nat)
  BY <1>1, Datagrams DEF Held, MapInv, Types
<1>5. /\ w \in Seq(Nat) /\ Len(p) \in Nat
      /\ \A i \in DOMAIN p : i \in 1..Len(p) /\ i \in DOMAIN w /\ w[i] = p[i]
      /\ Len(p) + 1 \in DOMAIN w /\ w[Len(p) + 1] = q[1]
      /\ Elems(w) = Elems(p) \cup {q[1]}
  <2>1. Spliced(p, q, w)
    BY <1>1, <1>2, Concat, Zenon
  <2> QED BY <1>3, <2>1 DEF Spliced
<1>6. /\ Len(w) = Len(p) + 1
  <2>1. Len(w) = Len(p) + Len(q)
    BY <1>1, <1>2, ConcatProperties
  <2>2. Len(q) \in Nat /\ DOMAIN q = 1..Len(q)
    BY <1>2, LenProperties
  <2>3. Len(q) = 1
    BY <1>3, <2>2
  <2> QED BY <2>1, <2>3
<1>7. PICK g, t : g = Given(c) /\ t = Reaching(c)
  OBVIOUS
<1>8. g = w \o h /\ t = p \o h
  <2>1. g = w \o h
    BY <1>1, <1>7 DEF Given
  <2>2. t = (p \o <<>>) \o h
    BY <1>1, <1>7 DEF Reaching
  <2>3. p \o <<>> = p
    BY <1>2, ConcatEmptySeq
  <2> QED BY <2>1, <2>2, <2>3
<1>9. /\ g \in Seq(Nat)
      /\ \A i \in DOMAIN w : i \in DOMAIN g /\ g[i] = w[i]
      /\ \A j \in DOMAIN h : /\ j \in Nat \ {0} /\ Len(w) + j \in DOMAIN g
                             /\ g[Len(w) + j] = h[j]
      /\ Elems(g) = Elems(w) \cup Elems(h)
  <2>1. Spliced(w, h, g)
    BY <1>4, <1>5, <1>8, Concat, Zenon
  <2> QED BY <2>1 DEF Spliced
<1>10. Elems(t) = Elems(p) \cup Elems(h)
  <2>1. Spliced(p, h, t)
    BY <1>2, <1>4, <1>8, Concat, Zenon
  <2> QED BY <2>1 DEF Spliced
<1>11. /\ \A i \in DOMAIN g : g[i] = g[1] + i - 1
       /\ g[1] \in Nat
  <2>1. DOMAIN g = 1..Len(g) /\ Len(g) \in Nat
    BY <1>9, LenProperties
  <2>2. Len(p) + 1 \in DOMAIN g
    BY <1>5, <1>9
  <2>3. 1 \in DOMAIN g
    BY <1>5, <2>1, <2>2
  <2>4. g[1] \in Nat
    BY <1>9, <2>3
  <2> QED BY <1>7, <2>4 DEF FlowInv, Consecutive
<1>12. q[1] \notin Elems(p)
  <2> SUFFICES ASSUME NEW i \in DOMAIN p PROVE p[i] # q[1]
    BY DEF Elems
  <2>1. g[i] = p[i] /\ g[Len(p) + 1] = q[1] /\ i \in DOMAIN g /\ Len(p) + 1 \in DOMAIN g
        /\ i \in 1..Len(p)
    BY <1>5, <1>9
  <2>2. PICK m, n \in Nat : m = g[1] /\ n = Len(p)
    BY <1>5, <1>11
  <2>3. g[i] = m + i - 1 /\ g[n + 1] = m + (n + 1) - 1 /\ i \in 1..n
    BY <1>11, <2>1, <2>2
  <2>4. m + i - 1 # m + (n + 1) - 1
    BY <2>3
  <2> QED BY <2>1, <2>2, <2>3, <2>4
<1>13. q[1] \notin Elems(h)
  <2> SUFFICES ASSUME NEW j \in DOMAIN h PROVE h[j] # q[1]
    BY DEF Elems
  <2>1. /\ g[Len(w) + j] = h[j] /\ g[Len(p) + 1] = q[1]
        /\ Len(w) + j \in DOMAIN g /\ Len(p) + 1 \in DOMAIN g /\ j \in Nat \ {0}
    BY <1>5, <1>9
  <2> QED BY <1>5, <1>6, <1>11, <2>1
<1> QED BY <1>1, <1>5, <1>7, <1>9, <1>10, <1>12, <1>13 DEF Slot

Stray(a) == {c \in ConnsOf(a) : Stranded(c)}
Reached(a) == UNION {Elems(Reaching(c)) : c \in ConnsOf(a)}
StraySlots(a) == {Slot(c) : c \in Stray(a)}

LEMMA ReachingGiven ==
    ASSUME MapInv, FlowInv, NEW c \in DOMAIN conns
    PROVE  /\ Elems(Reaching(c)) \subseteq Elems(Given(c))
           /\ ~Stranded(c) => Reaching(c) = Given(c)
<1>1. ~Stranded(c) => Reaching(c) = Given(c)
  BY DEF Reaching, Given
<1> QED BY <1>1, StrandedSlot

\* Two connections of a client have nothing in common.
LEMMA Apart ==
    ASSUME MapInv, FlowInv, NEW a \in Addrs, NEW c \in ConnsOf(a), NEW d \in ConnsOf(a), c # d
    PROVE  Elems(Given(c)) \cap Elems(Given(d)) = {}
<1>1. /\ c \in DOMAIN conns /\ d \in DOMAIN conns /\ c \in Nat /\ d \in Nat
      /\ conns[c].addr = conns[d].addr
  BY ConnTypes DEF ConnsOf
<1>2. Given(c) \in Seq(Nat) /\ Given(d) \in Seq(Nat)
  BY <1>1, GivenType
<1>3. \A i \in DOMAIN Given(c), j \in DOMAIN Given(d) :
         Given(c)[i] \in Nat /\ Given(d)[j] \in Nat /\ Given(c)[i] # Given(d)[j]
  <2>1. \A i \in DOMAIN Given(c), j \in DOMAIN Given(d) :
          Given(c)[i] \in Nat /\ Given(d)[j] \in Nat
    BY <1>2
  <2>2. CASE d < c
    BY <1>1, <2>1, <2>2 DEF FlowInv, Growing
  <2>3. CASE c < d
    BY <1>1, <2>1, <2>3 DEF FlowInv, Growing
  <2> QED BY <1>1, <2>2, <2>3
<1> QED BY <1>3 DEF Elems

\* What was directed to a client's connections is what they hand over, and a
\* datagram in each slot that nobody reads.
LEMMA Split ==
    ASSUME MapInv, FlowInv, NEW a \in Addrs
    PROVE  /\ GivenTo(a) = Reached(a) \cup StraySlots(a)
           /\ Reached(a) \cap StraySlots(a) = {}
           /\ ExistsBijection(Stray(a), StraySlots(a))
<1>1. GivenTo(a) = UNION {Elems(Given(c)) : c \in ConnsOf(a)}
  BY DEF GivenTo, Elems
<1>2. \A c \in ConnsOf(a) : c \in DOMAIN conns
  BY DEF ConnsOf
<1>3. \A c \in Stray(a) : /\ c \in ConnsOf(a)
                          /\ Elems(Given(c)) = Elems(Reaching(c)) \cup {Slot(c)}
                          /\ Slot(c) \notin Elems(Reaching(c)) /\ Slot(c) \in Elems(Given(c))
  BY <1>2, StrandedSlot DEF Stray
<1>4. \A c \in ConnsOf(a) : /\ Elems(Reaching(c)) \subseteq Elems(Given(c))
                            /\ c \notin Stray(a) => Elems(Reaching(c)) = Elems(Given(c))
  BY <1>2, ReachingGiven DEF Stray
<1>5. GivenTo(a) = Reached(a) \cup StraySlots(a)
  BY <1>1, <1>3, <1>4 DEF Reached, StraySlots
<1>6. Reached(a) \cap StraySlots(a) = {}
  BY <1>3, <1>4, Apart DEF Reached, StraySlots
<1>7. ExistsBijection(Stray(a), StraySlots(a))
  <2> DEFINE f == [c \in Stray(a) |-> Slot(c)]
  <2>1. \A c, d \in Stray(a) : f[c] = f[d] => c = d
    BY <1>3, Apart
  <2>2. f \in Bijection(Stray(a), StraySlots(a))
    BY <2>1 DEF Bijection, Injection, Surjection, IsInjective, StraySlots
  <2> QED BY <2>2 DEF ExistsBijection
<1> QED BY <1>5, <1>6, <1>7

\* The program loses one datagram of a client for each connection of it after
\* the first, and one for each that was closed, with its slot full, before it
\* had a reader; and it loses no other.
THEOREM OneLostPerClose == Spec => []LostOnlyByClose
<1>1. MapInv /\ FlowInv => LostOnlyByClose
  <2> SUFFICES ASSUME MapInv, FlowInv, NEW a \in Addrs, ConnsOf(a) # {}
               PROVE  Cardinality(Lost(a)) = Cardinality(ConnsOf(a)) - 1 + Cardinality(Stray(a))
    BY DEF LostOnlyByClose, Stray
  <2>1. /\ IsFiniteSet(GivenTo(a)) /\ IsFiniteSet(ConnsOf(a)) /\ came[a] \in Nat
        /\ came[a] = Cardinality(GivenTo(a)) + Cardinality(ConnsOf(a)) - 1
    BY DEF FlowInv, Counted, MapInv, Types
  <2>2. GivenTo(a) \subseteq 1..came[a]
    BY DEF FlowInv, Behind, GivenTo, ConnsOf
  <2>3. Reached(a) \subseteq GivenTo(a) /\ StraySlots(a) \subseteq GivenTo(a)
    BY Split
  <2>4. /\ IsFiniteSet(Reached(a)) /\ IsFiniteSet(StraySlots(a)) /\ IsFiniteSet(Stray(a))
        /\ IsFiniteSet(1..came[a]) /\ Cardinality(1..came[a]) = came[a]
    <3>1. IsFiniteSet(Reached(a)) /\ IsFiniteSet(StraySlots(a))
      BY <2>1, <2>3, FS_Subset
    <3>2. IsFiniteSet(Stray(a))
      BY <2>1, FS_Subset DEF Stray
    <3>3. IsFiniteSet(1..came[a]) /\ Cardinality(1..came[a]) = came[a]
      <4>1. Cardinality(1..came[a]) = IF 1 > came[a] THEN 0 ELSE came[a] - 1 + 1
        BY <2>1, FS_Interval
      <4> QED BY <2>1, <4>1, FS_Interval
    <3> QED BY <3>1, <3>2, <3>3
  <2>5. Cardinality(StraySlots(a)) = Cardinality(Stray(a))
    BY <2>4, Split, FS_Bijection
  <2>6. Cardinality(GivenTo(a)) = Cardinality(Reached(a)) + Cardinality(StraySlots(a)) - 0
    BY <2>4, Split, FS_Union, FS_EmptySet
  <2>7. Lost(a) = (1..came[a]) \ Reached(a) /\ (1..came[a]) \cap Reached(a) = Reached(a)
    <3>1. Lost(a) = (1..came[a]) \ Reached(a)
      BY DEF Lost, Reached, Elems
    <3> QED BY <2>2, <2>3, <3>1
  <2>8. Cardinality(Lost(a)) = came[a] - Cardinality(Reached(a))
    BY <2>4, <2>7, FS_Difference
  <2>9. /\ Cardinality(Reached(a)) \in Nat /\ Cardinality(Stray(a)) \in Nat
        /\ Cardinality(ConnsOf(a)) \in Nat
    BY <2>1, <2>4, FS_CardinalityType
  <2> QED BY <2>1, <2>5, <2>6, <2>8, <2>9
<1> QED BY <1>1, MapCorrect, FlowCorrect, PTL
=============================================================================
