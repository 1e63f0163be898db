---------------------------- MODULE TunnelProofs ----------------------------
(***************************************************************************)
(* Proofs about Tunnel: types, the server's panics, the close reasons and  *)
(* the sockets, for any connections and whatever is lost or fails.         *)
(* In the second half: what each end knows of the other, for the faults    *)
(* under which it is true.                                                 *)
(***************************************************************************)
EXTENDS Tunnel, TLAPS

-----------------------------------------------------------------------------
(* The inductive invariant *)

Dialed(c) == srv[c].conn # "none"
Num(b) == IF b THEN 1 ELSE 0

\* No message is under way twice.
Unique(queue, m) == \A i, j \in DOMAIN queue : queue[i] = m /\ queue[j] = m => i = j

\* The client's Channel before its SYN has been sent.
Unborn(c) == cli[c].conn = "none" \/ cli[c].newconn

\* The client: close flags and socket agree; its channel is in the pool from
\* the SYN on; each close reason is the end of the reader, the server's FIN or
\* the removal.
CliInv(c) ==
    /\ cli[c].client_socket_close => cli[c].conn # "open"
    /\ cli[c].server_socket_close => cli[c].client_socket_close
    /\ cli[c].newconn => cli[c].conn # "none"
    /\ cli[c].conn = "open" => c \in cpool \/ cli[c].newconn
    /\ Unborn(c) => c \notin cpool /\ cli[c].closes = 0 /\ cli[c].reasons = 0
    /\ c \in cpool2 => c \in cpool
    /\ cli[c].reasons + cli[c].closes + Num(cli[c].reader # "done")
       <= 1 + Num(cli[c].server_socket_close) + Num(c \notin cpool)

\* connectToBackend has not ended.
Starting(c) == srv[c].task # "done"

\* The reader of the server is still to announce its end.
Reading(c) == srv[c].reader # "done" /\ (Dialed(c) \/ Starting(c))

\* The server: the same, and nothing happens to a channel that is being dialed.
SrvInv(c) ==
    /\ srv[c].client_socket_close => srv[c].server_socket_close
    /\ srv[c].server_kcp_close => srv[c].server_socket_close
    /\ srv[c].closes > 0 => srv[c].server_socket_close
    /\ srv[c].server_socket_close => srv[c].conn # "open"
    /\ Starting(c) => /\ ~Dialed(c) /\ ~srv[c].server_socket_close
                      /\ srv[c].reader = "none" /\ srv[c].closes = 0 /\ srv[c].reasons = 0
    /\ ~Starting(c) /\ ~Dialed(c) => srv[c].server_socket_close
    /\ srv[c].reader # "none" \/ srv[c].reads > 0 => Dialed(c)
    /\ c \in spool <=> c \in spool2
    /\ srv[c].conn = "open" \/ srv[c].task = "dial" => c \in spool
    /\ srv[c].task \in {"none", "start"} => c \notin spool
    /\ srv[c].reasons + srv[c].closes + Num(Reading(c))
       <= 1 + Num(srv[c].client_socket_close) + Num(c \notin spool)

\* What only an ACK can have brought about comes after the dial.
KnowInv(c) ==
    \/ cli[c].conn_ack_recved \/ cli[c].reader # "none" \/ cli[c].client_socket_close
    \/ c \in cpool2 \/ airUp[c] # Packet \/ airDown[c] # Packet
    \/ up[c].rcvd > 0 \/ down[c].sub > 0
    => Dialed(c)

\* A channel has one SYN and one ACK, each before all that follows from it,
\* and a FIN to the server comes after the dial.
MailInv(c) ==
    /\ Unborn(c) => srv[c].task = "none"
    /\ OnItsWay(toServer, Msg("SYN", c)) => srv[c].task = "none" /\ ~Unborn(c)
    /\ OnItsWay(toServer, Msg("FIN", c)) => Dialed(c)
    /\ OnItsWay(toClient, Msg("ACK", c)) => Dialed(c) /\ cli[c].reader = "none"
    /\ Unique(toServer, Msg("SYN", c)) /\ Unique(toClient, Msg("ACK", c))

ChanInv(c) == CliInv(c) /\ SrvInv(c) /\ KnowInv(c) /\ MailInv(c)

IInv == TypeOK /\ "server" \notin panicked /\ \A c \in Conns : ChanInv(c)
-----------------------------------------------------------------------------
(* Queues *)

LEMMA Tails ==
    ASSUME NEW q \in Seq(Message), q # <<>>, NEW m
    PROVE  /\ Tail(q) \in Seq(Message)
           /\ OnItsWay(Tail(q), m) => OnItsWay(q, m)
           /\ Unique(q, m) => Unique(Tail(q), m)
           /\ OnItsWay(q, Head(q))
           /\ Unique(q, Head(q)) => ~OnItsWay(Tail(q), Head(q))
<1>1. /\ Head(q) = q[1] /\ 1 \in DOMAIN q /\ Tail(q) \in Seq(Message)
      /\ \A i \in DOMAIN Tail(q) : i \in Nat \ {0} /\ i + 1 \in DOMAIN q /\ Tail(q)[i] = q[i + 1]
  OBVIOUS
<1>2. OnItsWay(Tail(q), m) => OnItsWay(q, m)
  BY <1>1 DEF OnItsWay
<1>3. ASSUME Unique(q, m), NEW i \in DOMAIN Tail(q), NEW j \in DOMAIN Tail(q),
             Tail(q)[i] = m, Tail(q)[j] = m
      PROVE  i = j
  <2>1. i + 1 = j + 1
    BY <1>1, <1>3 DEF Unique
  <2> QED BY <1>1, <2>1
<1>4. ASSUME Unique(q, Head(q)), NEW i \in DOMAIN Tail(q), Tail(q)[i] = Head(q)
      PROVE  FALSE
  <2>1. i + 1 = 1
    BY <1>1, <1>4 DEF Unique
  <2> QED BY <1>1, <2>1
<1>5. Unique(q, m) => Unique(Tail(q), m)
  BY <1>3 DEF Unique
<1>6. Unique(q, Head(q)) => ~OnItsWay(Tail(q), Head(q))
  BY <1>4 DEF OnItsWay
<1>7. OnItsWay(q, Head(q))
  BY <1>1 DEF OnItsWay
<1> QED BY <1>1, <1>2, <1>5, <1>6, <1>7

LEMMA Appends ==
    ASSUME NEW q \in Seq(Message), NEW n \in Message, NEW m
    PROVE  /\ Append(q, n) \in Seq(Message)
           /\ OnItsWay(Append(q, n), m) => OnItsWay(q, m) \/ m = n
           /\ Unique(q, m) /\ (m = n => ~OnItsWay(q, m)) => Unique(Append(q, n), m)
<1>1. /\ Append(q, n) \in Seq(Message)
      /\ DOMAIN Append(q, n) = DOMAIN q \cup {Len(q) + 1} /\ Len(q) + 1 \notin DOMAIN q
      /\ \A i \in DOMAIN q : Append(q, n)[i] = q[i]
      /\ Append(q, n)[Len(q) + 1] = n
  OBVIOUS
<1>2. OnItsWay(Append(q, n), m) => OnItsWay(q, m) \/ m = n
  BY <1>1 DEF OnItsWay
<1>3. Unique(q, m) /\ (m = n => ~OnItsWay(q, m)) => Unique(Append(q, n), m)
  <2> SUFFICES ASSUME Unique(q, m), m = n => ~OnItsWay(q, m),
                      NEW i \in DOMAIN Append(q, n), NEW j \in DOMAIN Append(q, n),
                      Append(q, n)[i] = m, Append(q, n)[j] = m
               PROVE  i = j
    BY DEF Unique
  <2>1. CASE m = n
    BY <1>1, <2>1 DEF OnItsWay
  <2>2. CASE m # n
    BY <1>1, <2>2 DEF Unique
  <2> QED BY <2>1, <2>2
<1> QED BY <1>1, <1>2, <1>3

LEMMA Messages ==
    /\ \A cmd \in {"SYN", "ACK", "FIN"}, c \in Conns : Msg(cmd, c) \in Message
    /\ \A cmd1, cmd2, c, d : Msg(cmd1, c) = Msg(cmd2, d) <=> cmd1 = cmd2 /\ c = d
BY DEF Msg, Message

-----------------------------------------------------------------------------
(* A step of one channel, seen from another *)

\* The queue is left alone, loses its first message or gets one of channel c.
QueueStep(q, next, c) ==
    \/ next = q
    \/ q # <<>> /\ next = Tail(q)
    \/ \E cmd \in {"SYN", "ACK", "FIN"} : next = Append(q, Msg(cmd, c))

LEMMA QueueTyped ==
    ASSUME NEW q \in Seq(Message), NEW next, NEW c \in Conns, QueueStep(q, next, c)
    PROVE  next \in Seq(Message)
BY Tails, Appends, Messages DEF QueueStep

LEMMA QueueElsewhere ==
    ASSUME NEW q \in Seq(Message), NEW next, NEW c \in Conns, QueueStep(q, next, c),
           NEW d, d # c, NEW cmd
    PROVE  /\ OnItsWay(next, Msg(cmd, d)) => OnItsWay(q, Msg(cmd, d))
           /\ Unique(q, Msg(cmd, d)) => Unique(next, Msg(cmd, d))
<1>1. CASE q # <<>> /\ next = Tail(q)
  BY <1>1, Tails
<1>2. CASE \E k \in {"SYN", "ACK", "FIN"} : next = Append(q, Msg(k, c))
  <2>1. PICK k \in {"SYN", "ACK", "FIN"} : next = Append(q, Msg(k, c))
    BY <1>2
  <2>2. Msg(k, c) \in Message /\ Msg(k, c) # Msg(cmd, d)
    BY Messages
  <2> QED BY <2>1, <2>2, Appends
<1> QED BY <1>1, <1>2 DEF QueueStep

\* What a step leaves alone of channel d.
Stays(d) ==
    /\ cli'[d] = cli[d] /\ srv'[d] = srv[d]
    /\ up'[d] = up[d] /\ down'[d] = down[d] /\ airUp'[d] = airUp[d] /\ airDown'[d] = airDown[d]
    /\ (d \in cpool' <=> d \in cpool) /\ (d \in cpool2' <=> d \in cpool2)
    /\ (d \in spool' <=> d \in spool) /\ (d \in spool2' <=> d \in spool2)

StepOf(c) ==
    /\ \A d \in Conns \ {c} : Stays(d)
    /\ QueueStep(toServer, toServer', c) /\ QueueStep(toClient, toClient', c)

LEMMA ChanStays ==
    ASSUME IInv, NEW c \in Conns, QueueStep(toServer, toServer', c),
           QueueStep(toClient, toClient', c), NEW d \in Conns \ {c}, Stays(d)
    PROVE  ChanInv(d)'
<1>1. /\ CliInv(d) /\ SrvInv(d) /\ KnowInv(d) /\ MailInv(d)
      /\ toServer \in Seq(Message) /\ toClient \in Seq(Message)
  BY DEF IInv, ChanInv, TypeOK
<1>2. CliInv(d)'
  BY <1>1 DEF CliInv, Stays, Unborn
<1>3. SrvInv(d)'
  BY <1>1 DEF SrvInv, Stays, Starting, Dialed, Reading
<1>4. KnowInv(d)'
  BY <1>1 DEF KnowInv, Stays, Dialed
<1>5. \A cmd : /\ OnItsWay(toServer', Msg(cmd, d)) => OnItsWay(toServer, Msg(cmd, d))
               /\ OnItsWay(toClient', Msg(cmd, d)) => OnItsWay(toClient, Msg(cmd, d))
               /\ Unique(toServer, Msg(cmd, d)) => Unique(toServer', Msg(cmd, d))
               /\ Unique(toClient, Msg(cmd, d)) => Unique(toClient', Msg(cmd, d))
  BY <1>1, QueueElsewhere
<1>6. MailInv(d)'
  BY <1>1, <1>5 DEF MailInv, Stays, Unborn, Dialed
<1> QED BY <1>2, <1>3, <1>4, <1>6 DEF ChanInv

LEMMA StepKeeps ==
    ASSUME IInv, NEW c \in Conns, StepOf(c), TypeOK', "server" \notin panicked', ChanInv(c)'
    PROVE  IInv'
<1>1. \A d \in Conns \ {c} : ChanInv(d)'
  BY ChanStays DEF StepOf
<1> QED BY <1>1 DEF IInv

LEMMA Facts ==
    ASSUME IInv, NEW c \in Conns
    PROVE  /\ cli[c] \in Client /\ srv[c] \in Server /\ up[c] \in Stream /\ down[c] \in Stream
           /\ airUp[c] \in Packets /\ airDown[c] \in Packets
           /\ cli \in [Conns -> Client] /\ srv \in [Conns -> Server]
           /\ CliInv(c) /\ SrvInv(c) /\ KnowInv(c) /\ MailInv(c)
BY DEF IInv, TypeOK, ChanInv

\* A step that sends neither a SYN nor an ACK, and a FIN to the server only
\* after the dial.
QuietQueues(c) ==
    /\ \/ toServer' = toServer
       \/ toServer # <<>> /\ toServer' = Tail(toServer)
       \/ Dialed(c) /\ toServer' = Append(toServer, Msg("FIN", c))
    /\ \/ toClient' = toClient
       \/ toClient # <<>> /\ toClient' = Tail(toClient)
       \/ toClient' = Append(toClient, Msg("FIN", c))

LEMMA QuietMail ==
    ASSUME IInv, NEW c \in Conns, QuietQueues(c)
    PROVE  /\ QueueStep(toServer, toServer', c) /\ QueueStep(toClient, toClient', c)
           /\ toServer' \in Seq(Message) /\ toClient' \in Seq(Message)
           /\ OnItsWay(toServer', Msg("SYN", c)) => OnItsWay(toServer, Msg("SYN", c))
           /\ OnItsWay(toServer', Msg("FIN", c)) => OnItsWay(toServer, Msg("FIN", c)) \/ Dialed(c)
           /\ OnItsWay(toClient', Msg("ACK", c)) => OnItsWay(toClient, Msg("ACK", c))
           /\ Unique(toServer', Msg("SYN", c)) /\ Unique(toClient', Msg("ACK", c))
<1>1. /\ toServer \in Seq(Message) /\ toClient \in Seq(Message)
      /\ Unique(toServer, Msg("SYN", c)) /\ Unique(toClient, Msg("ACK", c))
  BY Facts DEF MailInv, IInv, TypeOK
<1>2. /\ Msg("FIN", c) \in Message
      /\ Msg("FIN", c) # Msg("SYN", c) /\ Msg("FIN", c) # Msg("ACK", c)
  BY Messages
<1>3. QueueStep(toServer, toServer', c) /\ QueueStep(toClient, toClient', c)
  BY DEF QuietQueues, QueueStep
<1>4. toServer' \in Seq(Message) /\ toClient' \in Seq(Message)
  BY <1>1, <1>3, QueueTyped
<1>5. /\ OnItsWay(toServer', Msg("SYN", c)) => OnItsWay(toServer, Msg("SYN", c))
      /\ OnItsWay(toServer', Msg("FIN", c)) => OnItsWay(toServer, Msg("FIN", c)) \/ Dialed(c)
      /\ Unique(toServer', Msg("SYN", c))
  <2>1. CASE toServer # <<>> /\ toServer' = Tail(toServer)
    BY <1>1, <2>1, Tails
  <2>2. CASE Dialed(c) /\ toServer' = Append(toServer, Msg("FIN", c))
    BY <1>1, <1>2, <2>2, Appends
  <2>3. CASE toServer' = toServer
    BY <1>1, <2>3
  <2> QED BY <2>1, <2>2, <2>3 DEF QuietQueues
<1>6. /\ OnItsWay(toClient', Msg("ACK", c)) => OnItsWay(toClient, Msg("ACK", c))
      /\ Unique(toClient', Msg("ACK", c))
  <2>1. CASE toClient # <<>> /\ toClient' = Tail(toClient)
    BY <1>1, <2>1, Tails
  <2>2. CASE toClient' = Append(toClient, Msg("FIN", c))
    BY <1>1, <1>2, <2>2, Appends
  <2>3. CASE toClient' = toClient
    BY <1>1, <2>3
  <2> QED BY <2>1, <2>2, <2>3 DEF QuietQueues
<1> QED BY <1>3, <1>4, <1>5, <1>6

\* r, the next record of the client's channel, shows nothing new of the dial.
NoNews(c, r) ==
    /\ r.conn_ack_recved => cli[c].conn_ack_recved
    /\ r.reader = cli[c].reader \/ cli[c].reader # "none"
    /\ r.client_socket_close => cli[c].client_socket_close \/ Dialed(c)

\* A step of the client that teaches it nothing about the dial.
LEMMA CliStep ==
    ASSUME IInv, NEW c \in Conns, NEW r \in Client,
           cli' = [cli EXCEPT ![c] = r], QuietQueues(c),
           UNCHANGED <<srv, spool, spool2, down, airUp, airDown>>,
           UNCHANGED <<cpool, cpool2>> \/ RmClient(c),
           NEW s \in Stream, up' = [up EXCEPT ![c] = s], s.rcvd = up[c].rcvd,
           faults' \in Nat, panicked' \subseteq panicked \cup {"client"},
           CliInv(c)', Unborn(c)' => Unborn(c), NoNews(c, r)
    PROVE  IInv'
<1>1. TypeOK /\ CliInv(c) /\ SrvInv(c) /\ KnowInv(c) /\ MailInv(c) /\ "server" \notin panicked
  BY Facts DEF IInv
<1>2. cli'[c] = r /\ up'[c] = s /\ \A d \in Conns \ {c} : cli'[d] = cli[d] /\ up'[d] = up[d]
  BY <1>1 DEF TypeOK
<1>3. /\ cpool' \subseteq cpool /\ cpool2' \subseteq cpool2
      /\ \A d \in Conns \ {c} : (d \in cpool' <=> d \in cpool) /\ (d \in cpool2' <=> d \in cpool2)
  BY DEF RmClient
<1>4. TypeOK'
  BY <1>1, <1>3, QuietMail DEF TypeOK
<1>5. StepOf(c)
  BY <1>2, <1>3, QuietMail DEF StepOf, Stays
<1>6. SrvInv(c)'
  BY <1>1 DEF SrvInv, Dialed, Starting, Reading
<1>7. KnowInv(c)'
  BY <1>1, <1>2, <1>3 DEF KnowInv, Dialed, NoNews
<1>8. MailInv(c)'
  <2>1. OnItsWay(toClient, Msg("ACK", c)) => cli[c].reader = "none" /\ r.reader = "none"
    BY <1>1 DEF MailInv, NoNews
  <2>2. Unborn(c)' => srv'[c].task = "none"
    BY <1>1 DEF MailInv
  <2> QED BY <1>1, <1>2, <2>1, <2>2, QuietMail DEF MailInv, Dialed
<1>9. ChanInv(c)'
  BY <1>6, <1>7, <1>8 DEF ChanInv
<1> QED BY <1>1, <1>4, <1>5, <1>9, StepKeeps

\* One that moves no message and no data either.
LEMMA CliMoves ==
    ASSUME IInv, NEW c \in Conns, NEW r \in Client, cli' = [cli EXCEPT ![c] = r],
           UNCHANGED <<srv, spool, spool2, toServer, toClient, up, down, airUp, airDown,
                       faults, panicked>>,
           UNCHANGED <<cpool, cpool2>> \/ RmClient(c),
           CliInv(c)', Unborn(c)' => Unborn(c), NoNews(c, r)
    PROVE  IInv'
<1>1. /\ up[c] \in Stream /\ up' = [up EXCEPT ![c] = up[c]]
      /\ faults' \in Nat /\ panicked' \subseteq panicked \cup {"client"}
  BY Facts DEF IInv, TypeOK
<1>2. QuietQueues(c)
  BY DEF QuietQueues
<1> QED BY <1>1, <1>2, CliStep

LEMMA UnbornIdle ==
    ASSUME IInv, NEW c \in Conns, Unborn(c)
    PROVE  /\ ~Dialed(c) /\ cli[c].reader = "none" /\ c \notin cpool /\ c \notin cpool2
           /\ cli[c].closes = 0 /\ cli[c].reasons = 0
<1>1. CliInv(c) /\ SrvInv(c) /\ KnowInv(c) /\ MailInv(c)
  BY Facts
<1> QED BY <1>1 DEF CliInv, SrvInv, KnowInv, MailInv, Starting

\* A step of the server between the SYN and the dial, or after it.
LEMMA SrvStep ==
    ASSUME IInv, NEW c \in Conns, NEW r \in Server,
           srv' = [srv EXCEPT ![c] = r], QuietQueues(c),
           UNCHANGED <<cli, cpool, cpool2, up, airUp, airDown, panicked>>,
           spool' \subseteq Conns, spool2' \subseteq Conns,
           \A d \in Conns \ {c} : (d \in spool' <=> d \in spool) /\ (d \in spool2' <=> d \in spool2),
           NEW s \in Stream, down' = [down EXCEPT ![c] = s],
           s.sub > 0 => down[c].sub > 0 \/ Dialed(c),
           faults' \in Nat, SrvInv(c)', Dialed(c) => r.conn # "none",
           srv[c].task = "none" => r.task = "none"
    PROVE  IInv'
<1>1. TypeOK /\ CliInv(c) /\ SrvInv(c) /\ KnowInv(c) /\ MailInv(c) /\ "server" \notin panicked
  BY Facts DEF IInv
<1>2. srv'[c] = r /\ down'[c] = s /\ \A d \in Conns \ {c} : srv'[d] = srv[d] /\ down'[d] = down[d]
  BY <1>1 DEF TypeOK
<1>3. TypeOK'
  BY <1>1, QuietMail DEF TypeOK
<1>4. StepOf(c)
  BY <1>2, QuietMail DEF StepOf, Stays
<1>5. CliInv(c)'
  BY <1>1 DEF CliInv, Unborn
<1>6. KnowInv(c)'
  BY <1>1, <1>2 DEF KnowInv, Dialed
<1>7. MailInv(c)'
  BY <1>1, <1>2, QuietMail DEF MailInv, Dialed, Unborn
<1>8. ChanInv(c)'
  BY <1>5, <1>6, <1>7 DEF ChanInv
<1> QED BY <1>1, <1>3, <1>4, <1>8, StepKeeps

\* A step that only moves messages and packets.
LEMMA MoveStep ==
    ASSUME IInv, NEW c \in Conns, QuietQueues(c),
           UNCHANGED <<cli, srv, cpool, cpool2, spool, spool2, panicked>>, faults' \in Nat,
           up' \in [Conns -> Stream], down' \in [Conns -> Stream],
           airUp' \in [Conns -> Packets], airDown' \in [Conns -> Packets],
           \A d \in Conns \ {c} : /\ up'[d] = up[d] /\ down'[d] = down[d]
                                  /\ airUp'[d] = airUp[d] /\ airDown'[d] = airDown[d],
           airUp'[c] # Packet \/ airDown'[c] # Packet \/ up'[c].rcvd > 0 \/ down'[c].sub > 0
           => Dialed(c)
    PROVE  IInv'
<1>1. TypeOK /\ CliInv(c) /\ SrvInv(c) /\ KnowInv(c) /\ MailInv(c) /\ "server" \notin panicked
  BY Facts DEF IInv
<1>2. TypeOK'
  BY <1>1, QuietMail DEF TypeOK
<1>3. StepOf(c)
  BY QuietMail DEF StepOf, Stays
<1>4. CliInv(c)'
  BY <1>1 DEF CliInv, Unborn
<1>5. SrvInv(c)'
  BY <1>1 DEF SrvInv, Dialed, Starting, Reading
<1>6. KnowInv(c)'
  BY <1>1 DEF KnowInv, Dialed
<1>7. MailInv(c)'
  BY <1>1, QuietMail DEF MailInv, Dialed, Unborn
<1>8. ChanInv(c)'
  BY <1>4, <1>5, <1>6, <1>7 DEF ChanInv
<1> QED BY <1>1, <1>2, <1>3, <1>8, StepKeeps

LEMMA PacketStep ==
    ASSUME IInv, NEW c \in Conns, QuietQueues(c),
           UNCHANGED <<cli, srv, cpool, cpool2, spool, spool2, panicked>>, faults' \in Nat,
           NEW s \in Stream, up' = [up EXCEPT ![c] = s],
           NEW t \in Stream, down' = [down EXCEPT ![c] = t],
           NEW p \in Packets, airUp' = [airUp EXCEPT ![c] = p],
           NEW q \in Packets, airDown' = [airDown EXCEPT ![c] = q],
           p # Packet \/ q # Packet \/ s.rcvd > 0 \/ t.sub > 0 => Dialed(c)
    PROVE  IInv'
<1>1. /\ up \in [Conns -> Stream] /\ down \in [Conns -> Stream]
      /\ airUp \in [Conns -> Packets] /\ airDown \in [Conns -> Packets]
  BY DEF IInv, TypeOK
<1> QED BY <1>1, MoveStep

-----------------------------------------------------------------------------
(* The client *)

LEMMA AppConnectsKeeps == ASSUME IInv, NEW c \in Conns, AppConnects(c) PROVE IInv'
<1> DEFINE r == [cli[c] EXCEPT !.conn = "open", !.newconn = TRUE]
<1>1. /\ TypeOK /\ cli[c] \in Client /\ CliInv(c) /\ up[c] \in Stream
      /\ cli[c].conn = "none" /\ cli[c].client_socket_close = FALSE
      /\ cli[c].server_socket_close = FALSE
  BY Facts DEF IInv, AppConnects, NewClient
<1>2. /\ cli' = [cli EXCEPT ![c] = r]
      /\ UNCHANGED <<srv, cpool, cpool2, spool, spool2, toServer, toClient, up, down,
                     airUp, airDown, faults, panicked>>
  BY DEF AppConnects, ServerStays, cpoolVars, spoolVars, lossyVars
<1>3. r \in Client
  BY <1>1 DEF Client
<1>4. cli'[c] = r
  BY <1>1, <1>2 DEF TypeOK
<1>5. CliInv(c)' /\ Unborn(c) /\ NoNews(c, r)
  BY <1>1, <1>2, <1>3, <1>4 DEF CliInv, Client, Num, Unborn, NoNews
<1> HIDE DEF r
<1> QED BY <1>1, <1>2, <1>3, <1>5, CliMoves

LEMMA AppClosesKeeps == ASSUME IInv, NEW c \in Conns, AppCloses(c) PROVE IInv'
<1> DEFINE r == [cli[c] EXCEPT !.conn = "eof"]
<1>1. TypeOK /\ cli[c] \in Client /\ CliInv(c) /\ up[c] \in Stream
  BY Facts DEF IInv
<1>2. /\ cli' = [cli EXCEPT ![c] = r] /\ cli[c].conn = "open"
      /\ UNCHANGED <<srv, cpool, cpool2, spool, spool2, toServer, toClient, up, down,
                     airUp, airDown, faults, panicked>>
  BY DEF AppCloses, ServerStays, cpoolVars, spoolVars, lossyVars
<1>3. r \in Client
  BY <1>1 DEF Client
<1>4. cli'[c] = r
  BY <1>1, <1>2 DEF TypeOK
<1>5. CliInv(c)' /\ (Unborn(c)' => Unborn(c)) /\ NoNews(c, r)
  BY <1>1, <1>2, <1>3, <1>4 DEF CliInv, Client, Num, Unborn, NoNews
<1> HIDE DEF r
<1> QED BY <1>1, <1>2, <1>3, <1>5, CliMoves

LEMMA TimerKeeps == ASSUME IInv, NEW c \in Conns, clientCheckACKRecved(c) PROVE IInv'
<1>1. TypeOK /\ cli[c] \in Client /\ CliInv(c) /\ up[c] \in Stream
  BY Facts DEF IInv
<1>2. UNCHANGED <<srv, spool, spool2, toServer, toClient, up, down, airUp, airDown, faults, panicked>>
  BY DEF clientCheckACKRecved, ServerStays, spoolVars, lossyVars
<1>3. CASE c \in cpool /\ ~cli[c].conn_ack_recved
  <2> DEFINE r == [cli[c] EXCEPT !.timer = FALSE, !.conn = "shut", !.reasons = @ + 1]
  <2>1. RmClient(c) /\ cli' = [cli EXCEPT ![c] = r] /\ cli[c].reasons + 1 \in Nat
    BY <1>1, <1>3 DEF clientCheckACKRecved, Client
  <2>2. r \in Client
    BY <1>1, <2>1 DEF Client
  <2>3. cli'[c] = r /\ c \notin cpool' /\ c \notin cpool2'
    BY <1>1, <2>1 DEF TypeOK, RmClient
  <2>4. ~Unborn(c) /\ ~Unborn(c)' /\ NoNews(c, r)
    BY <1>1, <1>3, <2>3, UnbornIdle DEF Unborn, NoNews, Client
  <2>5. r.reasons + r.closes + Num(r.reader # "done") <= 2 + Num(r.server_socket_close)
    BY <1>1, <1>3, <2>1, <2>2 DEF CliInv, Client, Num
  <2>6. CliInv(c)'
    BY <1>1, <2>2, <2>3, <2>4, <2>5 DEF CliInv, Client, Num
  <2> HIDE DEF r
  <2> QED BY <1>1, <1>2, <2>1, <2>2, <2>4, <2>6, CliMoves
<1>4. CASE ~(c \in cpool /\ ~cli[c].conn_ack_recved)
  <2> DEFINE r == [cli[c] EXCEPT !.timer = FALSE]
  <2>1. cli' = [cli EXCEPT ![c] = r] /\ UNCHANGED <<cpool, cpool2>>
    BY <1>4 DEF clientCheckACKRecved, cpoolVars
  <2>2. r \in Client
    BY <1>1 DEF Client
  <2>3. cli'[c] = r
    BY <1>1, <2>1 DEF TypeOK
  <2>4. CliInv(c)' /\ (Unborn(c)' => Unborn(c)) /\ NoNews(c, r)
    BY <1>1, <2>1, <2>2, <2>3 DEF CliInv, Client, Num, Unborn, NoNews
  <2> HIDE DEF r
  <2> QED BY <1>1, <1>2, <2>1, <2>2, <2>4, CliMoves
<1> QED BY <1>3, <1>4

LEMMA CliReadsKeeps == ASSUME IInv, NEW c \in Conns, CliReads(c) PROVE IInv'
<1> DEFINE r == [cli[c] EXCEPT !.reader = "hold"]
           s == [up[c] EXCEPT !.made = @ + 1]
<1>1. TypeOK /\ cli[c] \in Client /\ CliInv(c) /\ up[c] \in Stream
  BY Facts DEF IInv
<1>2. /\ cli' = [cli EXCEPT ![c] = r] /\ cli[c].reader = "read" /\ up' = [up EXCEPT ![c] = s]
      /\ UNCHANGED <<srv, cpool, cpool2, spool, spool2, toServer, toClient, down,
                     airUp, airDown, faults, panicked>>
  BY DEF CliReads, ServerStays, cpoolVars, spoolVars
<1>3. up[c].made + 1 \in Nat
  BY <1>1 DEF Stream
<1>4. r \in Client /\ s \in Stream /\ s.rcvd = up[c].rcvd
  BY <1>1, <1>3 DEF Client, Stream
<1>5. cli'[c] = r
  BY <1>1, <1>2 DEF TypeOK
<1>6. CliInv(c)' /\ (Unborn(c)' => Unborn(c)) /\ NoNews(c, r)
  BY <1>1, <1>2, <1>4, <1>5 DEF CliInv, Client, Num, Unborn, NoNews
<1>7. /\ faults' \in Nat /\ panicked' \subseteq panicked \cup {"client"}
      /\ QuietQueues(c)
  BY <1>1, <1>2 DEF TypeOK, QuietQueues
<1> HIDE DEF r, s
<1> QED BY <1>2, <1>4, <1>6, <1>7, CliStep

LEMMA CliQueuesKeeps == ASSUME IInv, NEW c \in Conns, CliQueues(c) PROVE IInv'
<1> DEFINE r == [cli[c] EXCEPT !.reader = "read", !.reads = @ + 1]
<1>1. TypeOK /\ cli[c] \in Client /\ CliInv(c) /\ up[c] \in Stream
  BY Facts DEF IInv
<1>2. /\ cli' = [cli EXCEPT ![c] = r] /\ cli[c].reader = "hold"
      /\ UNCHANGED <<srv, cpool, cpool2, spool, spool2, toServer, toClient, up, down,
                     airUp, airDown, faults, panicked>>
  BY DEF CliQueues, ServerStays, cpoolVars, spoolVars, lossyVars
<1>3. r \in Client
  <2>1. cli[c].reads + 1 \in Nat
    BY <1>1 DEF Client
  <2> QED BY <1>1, <2>1 DEF Client
<1>4. cli'[c] = r
  BY <1>1, <1>2 DEF TypeOK
<1>5. CliInv(c)' /\ (Unborn(c)' => Unborn(c)) /\ NoNews(c, r)
  BY <1>1, <1>2, <1>3, <1>4 DEF CliInv, Client, Num, Unborn, NoNews
<1> HIDE DEF r
<1> QED BY <1>1, <1>2, <1>3, <1>5, CliMoves

LEMMA CliReadFailsKeeps == ASSUME IInv, NEW c \in Conns, CliReadFails(c) PROVE IInv'
<1> DEFINE r == [cli[c] EXCEPT !.reader = "done", !.client_socket_close = TRUE, !.closes = @ + 1]
<1>1. TypeOK /\ cli[c] \in Client /\ CliInv(c) /\ KnowInv(c) /\ up[c] \in Stream
  BY Facts DEF IInv
<1>2. /\ cli' = [cli EXCEPT ![c] = r] /\ cli[c].reader = "read" /\ cli[c].conn \in {"eof", "shut"}
      /\ UNCHANGED <<srv, cpool, cpool2, spool, spool2, toServer, toClient, up, down,
                     airUp, airDown, faults, panicked>>
  BY DEF CliReadFails, ServerStays, cpoolVars, spoolVars, lossyVars
<1>3. cli[c].closes + 1 \in Nat
  BY <1>1 DEF Client
<1>4. r \in Client
  BY <1>1, <1>3 DEF Client
<1>5. cli'[c] = r /\ Dialed(c)
  BY <1>1, <1>2 DEF TypeOK, KnowInv
<1>6. ~Unborn(c)
  BY <1>2, UnbornIdle
<1>7. CliInv(c)' /\ (Unborn(c)' => Unborn(c)) /\ NoNews(c, r)
  BY <1>1, <1>2, <1>4, <1>5, <1>6 DEF CliInv, Client, Num, Unborn, NoNews
<1> HIDE DEF r
<1> QED BY <1>1, <1>2, <1>4, <1>7, CliMoves

LEMMA ClientReadyReadKeeps == ASSUME IInv, NEW c \in Conns, processClientReadyRead(c) PROVE IInv'
<1> DEFINE r == [cli[c] EXCEPT !.reads = @ - 1]
           s == [up[c] EXCEPT !.sub = @ + 1]
<1>1. TypeOK /\ cli[c] \in Client /\ CliInv(c) /\ up[c] \in Stream
  BY Facts DEF IInv
<1>2. /\ cli' = [cli EXCEPT ![c] = r] /\ cli[c].reads > 0 /\ up' = [up EXCEPT ![c] = s]
      /\ UNCHANGED <<srv, cpool, cpool2, spool, spool2, toServer, toClient, down,
                     airUp, airDown, faults, panicked>>
  BY DEF processClientReadyRead, ServerStays, cpoolVars, spoolVars
<1>3. up[c].sub + 1 \in Nat /\ cli[c].reads - 1 \in Nat
  BY <1>1, <1>2 DEF Stream, Client
<1>4. r \in Client /\ s \in Stream /\ s.rcvd = up[c].rcvd
  BY <1>1, <1>3 DEF Client, Stream
<1>5. cli'[c] = r
  BY <1>1, <1>2 DEF TypeOK
<1>6. CliInv(c)' /\ (Unborn(c)' => Unborn(c)) /\ NoNews(c, r)
  BY <1>1, <1>2, <1>4, <1>5 DEF CliInv, Client, Num, Unborn, NoNews
<1>7. /\ faults' \in Nat /\ panicked' \subseteq panicked \cup {"client"}
      /\ QuietQueues(c)
  BY <1>1, <1>2 DEF TypeOK, QuietQueues
<1> HIDE DEF r, s
<1> QED BY <1>2, <1>4, <1>6, <1>7, CliStep

LEMMA initConnChannelKeeps == ASSUME IInv, NEW c \in Conns, initConnChannel(c) PROVE IInv'
<1>1. /\ TypeOK /\ cli[c] \in Client /\ up[c] \in Stream /\ "server" \notin panicked
      /\ CliInv(c) /\ SrvInv(c) /\ KnowInv(c) /\ MailInv(c)
  BY Facts DEF IInv
<1>2. /\ cli[c].newconn /\ up' = [up EXCEPT ![c] = up[c]]
      /\ UNCHANGED <<srv, cpool2, spool, spool2, toClient, up, down, airUp, airDown, panicked>>
  BY <1>1 DEF initConnChannel, ServerStays, spoolVars, lossyVars, TypeOK
<1>3. Unborn(c)
  BY <1>2 DEF Unborn
<1>4. /\ ~Dialed(c) /\ cli[c].reader = "none" /\ c \notin cpool /\ c \notin cpool2
      /\ cli[c].closes = 0 /\ cli[c].reasons = 0
  BY <1>3, UnbornIdle
<1>5. CASE SendToServer(Msg("SYN", c))
  <2> DEFINE r == [cli[c] EXCEPT !.newconn = FALSE, !.timer = TRUE]
  <2>1. /\ cli' = [cli EXCEPT ![c] = r] /\ cpool' = cpool \cup {c}
        /\ toServer' = Append(toServer, Msg("SYN", c)) /\ UNCHANGED faults
    <3>1. ~SendErr(toServer)
      <4>1. Append(toServer, Msg("SYN", c)) # toServer
        BY <1>1, Messages DEF TypeOK
      <4> QED BY <1>5, <4>1 DEF SendErr, SendToServer
    <3> QED BY <1>5, <3>1 DEF initConnChannel, SendToServer
  <2>2. r \in Client
    BY <1>1 DEF Client
  <2>3. cli'[c] = r /\ \A d \in Conns \ {c} : cli'[d] = cli[d]
    BY <1>1, <2>1 DEF TypeOK
  <2>4. /\ toServer \in Seq(Message) /\ Msg("SYN", c) \in Message
        /\ Msg("SYN", c) # Msg("FIN", c)
    BY <1>1, Messages DEF TypeOK
  <2>5. QueueStep(toServer, toServer', c) /\ QueueStep(toClient, toClient', c)
    BY <1>2, <2>1 DEF QueueStep
  <2>6. TypeOK'
    <3>1. toServer' \in Seq(Message)
      BY <2>4, <2>5, QueueTyped
    <3> HIDE DEF r
    <3> QED BY <1>1, <1>2, <2>1, <2>2, <3>1 DEF TypeOK
  <2>7. CliInv(c)'
    <3>1. r.reasons + r.closes + Num(r.reader # "done") <= 1 + Num(r.server_socket_close)
      BY <1>1, <1>4, <2>2 DEF Client, Num
    <3>2. c \in cpool' /\ c \notin cpool2' /\ ~Unborn(c)'
      BY <1>1, <1>2, <1>4, <2>1, <2>2, <2>3 DEF Unborn, CliInv, Client
    <3> QED BY <1>1, <1>2, <2>2, <2>3, <3>1, <3>2 DEF CliInv, Client, Num
  <2>8. SrvInv(c)' /\ KnowInv(c)'
    BY <1>1, <1>2, <2>2, <2>3 DEF SrvInv, KnowInv, Dialed, Starting, Reading, Client
  <2>9. MailInv(c)'
    <3>1. /\ OnItsWay(toServer', Msg("FIN", c)) => OnItsWay(toServer, Msg("FIN", c))
          /\ Unique(toServer', Msg("SYN", c))
      BY <1>1, <1>3, <2>1, <2>4, Appends DEF MailInv
    <3>2. srv[c].task = "none" /\ ~OnItsWay(toClient, Msg("ACK", c))
      BY <1>1, <1>3, <1>4 DEF MailInv
    <3>3. ~Unborn(c)'
      BY <1>1, <1>2, <2>2, <2>3 DEF Unborn, CliInv, Client
    <3> QED BY <1>1, <1>2, <3>1, <3>2, <3>3 DEF MailInv, Dialed
  <2>10. StepOf(c)
    BY <1>2, <2>1, <2>3, <2>5 DEF StepOf, Stays
  <2> QED BY <1>1, <1>2, <2>6, <2>7, <2>8, <2>9, <2>10, StepKeeps DEF ChanInv
<1>6. CASE SendErr(toServer) /\ UNCHANGED cpool
  <2>1. faults' \in Nat /\ QuietQueues(c) /\ panicked' \subseteq panicked \cup {"client"}
    BY <1>1, <1>2, <1>6 DEF SendErr, Fault, TypeOK, QuietQueues
  <2>2. ~SendToServer(Msg("SYN", c))
    <3>1. Append(toServer, Msg("SYN", c)) # toServer
      BY <1>1, Messages DEF TypeOK
    <3> QED BY <1>6, <3>1 DEF SendErr, SendToServer
  <2>3. CASE cli[c].tries < MaxTries
    <3> DEFINE r == [cli[c] EXCEPT !.tries = @ + 1]
    <3>1. cli' = [cli EXCEPT ![c] = r] /\ cli[c].tries + 1 \in Nat
      <4>1. cli' = [cli EXCEPT ![c] = r]
        <5>1. MaxTries \in Nat /\ cli[c].tries \in Nat
          BY <1>1, TunnelAssumption DEF Client
        <5>2. ~(cli[c].tries >= MaxTries)
          BY <2>3, <5>1
        <5> QED BY <2>2, <5>2 DEF initConnChannel
      <4> QED BY <1>1, <4>1 DEF Client
    <3>2. r \in Client
      BY <1>1, <3>1 DEF Client
    <3>3. cli'[c] = r
      BY <1>1, <3>1 DEF TypeOK
    <3>4. CliInv(c)' /\ NoNews(c, r)
      BY <1>1, <1>2, <1>4, <1>6, <3>2, <3>3 DEF CliInv, Client, Num, Unborn, NoNews
    <3> HIDE DEF r
    <3> QED BY <1>1, <1>2, <1>3, <1>6, <2>1, <3>1, <3>2, <3>4, CliStep
  <2>4. CASE ~(cli[c].tries < MaxTries)
    <3> DEFINE r == [cli[c] EXCEPT !.newconn = FALSE, !.conn = "shut"]
    <3>1. cli' = [cli EXCEPT ![c] = r]
      BY <2>2, <2>4 DEF initConnChannel
    <3>2. r \in Client
      BY <1>1 DEF Client
    <3>3. cli'[c] = r
      BY <1>1, <3>1 DEF TypeOK
    <3>4. CliInv(c)' /\ NoNews(c, r)
      BY <1>1, <1>2, <1>4, <1>6, <3>2, <3>3 DEF CliInv, Client, Num, Unborn, NoNews
    <3> HIDE DEF r
    <3> QED BY <1>1, <1>2, <1>3, <1>6, <2>1, <3>1, <3>2, <3>4, CliStep
  <2> QED BY <2>3, <2>4
<1> QED BY <1>5, <1>6 DEF initConnChannel

LEMMA CliAckKeeps == ASSUME IInv, NEW c \in Conns, CliAck(c) PROVE IInv'
<1> DEFINE r == [cli[c] EXCEPT !.conn_ack_recved = TRUE, !.reader = "read"]
<1>1. /\ TypeOK /\ cli[c] \in Client /\ "server" \notin panicked
      /\ CliInv(c) /\ SrvInv(c) /\ KnowInv(c) /\ MailInv(c)
  BY Facts DEF IInv
<1>2. /\ cli' = [cli EXCEPT ![c] = r] /\ c \in cpool /\ cpool2' = cpool2 \cup {c}
      /\ toClient # <<>> /\ Head(toClient) = Msg("ACK", c) /\ toClient' = Tail(toClient)
      /\ UNCHANGED <<srv, cpool, spool, spool2, toServer, up, down, airUp, airDown, faults, panicked>>
  BY DEF CliAck, FromServer, ServerStays, spoolVars, lossyVars
<1>3. r \in Client
  BY <1>1 DEF Client
<1>4. cli'[c] = r /\ \A d \in Conns \ {c} : cli'[d] = cli[d]
  BY <1>1, <1>2 DEF TypeOK
<1>5. QueueStep(toServer, toServer', c) /\ QueueStep(toClient, toClient', c)
  BY <1>2 DEF QueueStep
<1>6. /\ toClient' \in Seq(Message)
      /\ OnItsWay(toClient, Msg("ACK", c)) /\ ~OnItsWay(toClient', Msg("ACK", c))
      /\ Unique(toClient', Msg("ACK", c))
  BY <1>1, <1>2, Tails DEF TypeOK, MailInv
<1>7. Dialed(c) /\ cli[c].reader = "none"
  BY <1>1, <1>6 DEF MailInv
<1>8. TypeOK'
  <2> HIDE DEF r
  <2> QED BY <1>1, <1>2, <1>3, <1>6 DEF TypeOK
<1>9. CliInv(c)'
  BY <1>1, <1>2, <1>3, <1>4, <1>7 DEF CliInv, Client, Num, Unborn
<1>10. SrvInv(c)' /\ KnowInv(c)'
  BY <1>1, <1>2, <1>7 DEF SrvInv, KnowInv, Dialed, Starting, Reading
<1>11. MailInv(c)'
  BY <1>1, <1>2, <1>3, <1>4, <1>6 DEF MailInv, Dialed, Unborn, Client
<1>12. StepOf(c)
  BY <1>2, <1>4, <1>5 DEF StepOf, Stays
<1> QED BY <1>1, <1>2, <1>8, <1>9, <1>10, <1>11, <1>12, StepKeeps DEF ChanInv

\* The account of close reasons: n given, m closes queued of which k stay, the
\* reader's own, that of the peer before and after, and that of the removal.
LEMMA Paid ==
    ASSUME NEW n \in Nat, NEW m \in Nat, NEW k \in Nat, NEW reader \in {0, 1},
           NEW peer \in {0, 1}, NEW peer2 \in {0, 1}, peer <= peer2, NEW gone \in {0, 1},
           n + m + reader <= 1 + peer + gone, k = m - 1 \/ (k = m /\ gone = 0)
    PROVE  /\ n + k + reader <= 1 + peer2 + gone
           /\ n + 1 + k + reader <= 2 + peer2
           /\ peer = 0 => n + 1 + k + reader <= 2 + gone
           /\ k = m - 1 => n + 1 + k + reader <= 1 + peer2 + gone
<1>1. CASE k = m - 1
  BY <1>1
<1>2. CASE k = m /\ gone = 0
  BY <1>2
<1> QED BY <1>1, <1>2

\* promiseChannelClose, after the end of the reader has been taken or a FIN.
LEMMA CliPromiseKeeps ==
    ASSUME IInv, NEW c \in Conns, NEW ch \in Client, CliPromise(c, ch),
           UNCHANGED <<srv, spool, spool2, up, down, airUp, airDown>>,
           toClient' = toClient \/ (toClient # <<>> /\ toClient' = Tail(toClient)),
           ch.conn = cli[c].conn, ch.newconn = cli[c].newconn, ch.reader = cli[c].reader,
           ch.conn_ack_recved = cli[c].conn_ack_recved, ch.reasons = cli[c].reasons,
           ch.client_socket_close = cli[c].client_socket_close,
           cli[c].server_socket_close => ch.server_socket_close,
           ch.server_socket_close => Dialed(c),
           \/ ch.closes = cli[c].closes - 1
           \/ ch.closes = cli[c].closes /\ c \in cpool
    PROVE  IInv'
<1> DEFINE r == [ch EXCEPT !.reasons = @ + 1]
           r2 == [ch EXCEPT !.reasons = @ + 1, !.conn = "shut", !.client_socket_close = TRUE]
<1>1. /\ TypeOK /\ cli[c] \in Client /\ up[c] \in Stream /\ CliInv(c) /\ KnowInv(c)
      /\ ch.reasons + 1 \in Nat
  BY Facts DEF IInv, Client
<1>2. r \in Client /\ r2 \in Client
  BY <1>1 DEF Client
<1>3. ~Unborn(c) /\ up' = [up EXCEPT ![c] = up[c]]
  <2>1. cli[c].closes - 1 \in Nat => cli[c].closes # 0
    BY <1>1 DEF Client
  <2> QED BY <1>1, <2>1, UnbornIdle DEF Client, TypeOK
<1>4. ASSUME NEW x, cli' = [cli EXCEPT ![c] = x] PROVE cli'[c] = x
  BY <1>1, <1>4 DEF TypeOK
<1>5. /\ ~r.newconn /\ r.conn = ch.conn /\ r.conn # "none"
      /\ r.client_socket_close = ch.client_socket_close
      /\ r.server_socket_close = ch.server_socket_close
      /\ ch.client_socket_close => ch.conn # "open"
      /\ r.reasons + r.closes + Num(r.reader # "done") <= 2 + Num(r.server_socket_close)
      /\ ch.reasons + ch.closes + Num(ch.reader # "done")
         <= 1 + Num(ch.server_socket_close) + Num(c \notin cpool)
      /\ ~cli[c].server_socket_close
         => cli[c].reasons + 1 + ch.closes + Num(cli[c].reader # "done") <= 2 + Num(c \notin cpool)
      /\ ~Unborn(c)' <=> cli'[c].conn # "none" /\ ~cli'[c].newconn
      /\ NoNews(c, r)
  <2>1. /\ ~ch.newconn /\ ch.conn # "none" /\ r.conn = ch.conn /\ r.newconn = ch.newconn
        /\ r.reader = cli[c].reader /\ r.reasons = cli[c].reasons + 1
        /\ r.closes = ch.closes /\ r.conn_ack_recved = cli[c].conn_ack_recved
        /\ r.client_socket_close = ch.client_socket_close
        /\ r.server_socket_close = ch.server_socket_close
    BY <1>1, <1>3 DEF Client, Unborn
  <2>2. /\ cli[c].reasons \in Nat /\ cli[c].closes \in Nat /\ ch.closes \in Nat
        /\ cli[c].server_socket_close \in BOOLEAN /\ ch.server_socket_close \in BOOLEAN
        /\ cli[c].reasons + cli[c].closes + Num(cli[c].reader # "done")
           <= 1 + Num(cli[c].server_socket_close) + Num(c \notin cpool)
    BY <1>1 DEF CliInv, Client
  <2>3. /\ Num(cli[c].reader # "done") \in {0, 1} /\ Num(c \notin cpool) \in {0, 1}
        /\ Num(cli[c].server_socket_close) \in {0, 1} /\ Num(ch.server_socket_close) \in {0, 1}
        /\ Num(cli[c].server_socket_close) <= Num(ch.server_socket_close)
        /\ c \in cpool => Num(c \notin cpool) = 0
        /\ ~cli[c].server_socket_close => Num(cli[c].server_socket_close) = 0
    BY <2>2 DEF Num
  <2>4. /\ cli[c].reasons + ch.closes + Num(cli[c].reader # "done")
           <= 1 + Num(ch.server_socket_close) + Num(c \notin cpool)
        /\ cli[c].reasons + 1 + ch.closes + Num(cli[c].reader # "done")
           <= 2 + Num(ch.server_socket_close)
        /\ Num(cli[c].server_socket_close) = 0
           => cli[c].reasons + 1 + ch.closes + Num(cli[c].reader # "done") <= 2 + Num(c \notin cpool)
    <3> DEFINE n == cli[c].reasons
               m == cli[c].closes
               k == ch.closes
               reader == Num(cli[c].reader # "done")
               peer == Num(cli[c].server_socket_close)
               peer2 == Num(ch.server_socket_close)
               gone == Num(c \notin cpool)
    <3>1. /\ n \in Nat /\ m \in Nat /\ k \in Nat /\ reader \in {0, 1} /\ peer \in {0, 1}
          /\ peer2 \in {0, 1} /\ peer <= peer2 /\ gone \in {0, 1}
          /\ n + m + reader <= 1 + peer + gone /\ (k = m - 1 \/ (k = m /\ gone = 0))
      BY <2>2, <2>3
    <3> HIDE DEF n, m, k, reader, peer, peer2, gone
    <3>2. /\ n + k + reader <= 1 + peer2 + gone
          /\ n + 1 + k + reader <= 2 + peer2
          /\ peer = 0 => n + 1 + k + reader <= 2 + gone
          /\ k = m - 1 => n + 1 + k + reader <= 1 + peer2 + gone
      BY <3>1, Paid
    <3> QED BY <3>2 DEF n, m, k, reader, peer, peer2, gone
  <2>5. ch.client_socket_close => ch.conn # "open"
    BY <1>1 DEF CliInv
  <2> HIDE DEF r
  <2> QED BY <2>1, <2>3, <2>5, <2>4 DEF Unborn, NoNews
<1>6. CASE ch.client_socket_close /\ ~ch.server_socket_close
  <2>1. Dialed(c)
    BY <1>1, <1>6 DEF KnowInv
  <2>2. CASE SendErr(toServer) /\ cli' = [cli EXCEPT ![c] = ch] /\ UNCHANGED cpoolVars
             /\ UNCHANGED panicked
    <3>1. QuietQueues(c) /\ faults' \in Nat /\ panicked' \subseteq panicked \cup {"client"}
          /\ UNCHANGED <<cpool, cpool2>>
      BY <1>1, <2>2 DEF QuietQueues, SendErr, Fault, TypeOK, cpoolVars
    <3>2. CliInv(c)' /\ ~Unborn(c)' /\ NoNews(c, ch)
      BY <1>1, <1>3, <1>4, <1>5, <1>6, <2>2, <3>1 DEF CliInv, Num, Unborn, NoNews
    <3> QED BY <1>1, <1>3, <2>2, <3>1, <3>2, CliStep
  <2>3. CASE SendToServer(Msg("FIN", c)) /\ cli' = [cli EXCEPT ![c] = r] /\ RmClient(c)
             /\ UNCHANGED panicked
    <3>1. QuietQueues(c) /\ faults' \in Nat /\ panicked' \subseteq panicked \cup {"client"}
      BY <1>1, <2>1, <2>3 DEF QuietQueues, SendToServer, TypeOK
    <3>2. c \notin cpool' /\ c \notin cpool2' /\ cli'[c] = r
      BY <1>4, <2>3 DEF RmClient
    <3>3. CliInv(c)' /\ ~Unborn(c)' /\ NoNews(c, r)
      BY <1>6, <1>5, <3>2 DEF CliInv, Num
    <3> HIDE DEF r
    <3> QED BY <1>1, <1>2, <1>3, <2>3, <3>1, <3>3, CliStep
  <2> QED BY <1>6, <2>2, <2>3 DEF CliPromise
<1>7. CASE ch.client_socket_close /\ ch.server_socket_close
  <2>1. cli' = [cli EXCEPT ![c] = r] /\ RmClient(c) /\ UNCHANGED <<toServer, faults, panicked>>
    BY <1>7 DEF CliPromise
  <2>2. QuietQueues(c) /\ faults' \in Nat /\ panicked' \subseteq panicked \cup {"client"}
    BY <1>1, <2>1 DEF QuietQueues, TypeOK
  <2>3. c \notin cpool' /\ c \notin cpool2' /\ cli'[c] = r
    BY <1>4, <2>1 DEF RmClient
  <2>4. CliInv(c)' /\ ~Unborn(c)' /\ NoNews(c, r)
    BY <1>7, <1>5, <2>3 DEF CliInv, Num
  <2> HIDE DEF r
  <2> QED BY <1>1, <1>2, <1>3, <2>1, <2>2, <2>4, CliStep
<1>8. CASE ~ch.client_socket_close /\ ch.server_socket_close
  <2>1. cli' = [cli EXCEPT ![c] = r2] /\ UNCHANGED <<cpool, cpool2, toServer, faults, panicked>>
    BY <1>8 DEF CliPromise, cpoolVars
  <2>2. QuietQueues(c) /\ faults' \in Nat /\ panicked' \subseteq panicked \cup {"client"}
    BY <1>1, <2>1 DEF QuietQueues, TypeOK
  <2>3. cli'[c] = r2 /\ ~cli[c].server_socket_close
    BY <1>1, <1>4, <1>8, <2>1 DEF CliInv
  <2>4. /\ r2.conn = "shut" /\ ~r2.newconn /\ r2.client_socket_close /\ r2.server_socket_close
        /\ r2.reasons + r2.closes + Num(r2.reader # "done") <= 2 + Num(c \notin cpool)
        /\ NoNews(c, r2)
    <3>1. /\ r2.conn = "shut" /\ r2.newconn = cli[c].newconn /\ r2.client_socket_close
          /\ r2.server_socket_close /\ r2.reader = cli[c].reader
          /\ r2.conn_ack_recved = cli[c].conn_ack_recved
          /\ r2.reasons = cli[c].reasons + 1 /\ r2.closes = ch.closes
      BY <1>1, <1>8 DEF Client
    <3>2. r2.reasons + r2.closes + Num(r2.reader # "done") <= 2 + Num(c \notin cpool)
      <4> HIDE DEF r2
      <4> QED BY <1>5, <2>3, <3>1
    <3> QED BY <1>3, <1>8, <3>1, <3>2 DEF Unborn, NoNews
  <2>5. CliInv(c)' /\ ~Unborn(c)'
    BY <1>1, <1>3, <2>1, <2>3, <2>4 DEF CliInv, Num, Unborn
  <2> HIDE DEF r2
  <2> QED BY <1>1, <1>2, <1>3, <2>1, <2>2, <2>4, <2>5, CliStep
<1>9. CASE ~ch.client_socket_close /\ ~ch.server_socket_close
  <2>1. cli' = [cli EXCEPT ![c] = ch] /\ UNCHANGED <<cpool, cpool2, toServer, faults>>
        /\ panicked' = panicked \cup {"client"}
    BY <1>9 DEF CliPromise, cpoolVars
  <2>2. QuietQueues(c) /\ faults' \in Nat
    BY <1>1, <2>1 DEF QuietQueues, TypeOK
  <2>3. CliInv(c)' /\ ~Unborn(c)' /\ NoNews(c, ch)
    BY <1>1, <1>3, <1>4, <1>5, <1>9, <2>1 DEF CliInv, Num, Unborn, NoNews
  <2> QED BY <1>1, <1>3, <2>1, <2>2, <2>3, CliStep
<1> QED BY <1>6, <1>7, <1>8, <1>9 DEF Client

LEMMA CliFinKeeps == ASSUME IInv, NEW c \in Conns, CliFin(c) PROVE IInv'
<1> DEFINE ch == [cli[c] EXCEPT !.server_socket_close = TRUE]
<1>1. /\ cli[c] \in Client /\ CliInv(c) /\ KnowInv(c) /\ c \in cpool2 /\ CliPromise(c, ch)
      /\ toClient # <<>> /\ toClient' = Tail(toClient)
      /\ UNCHANGED <<srv, spool, spool2, up, down, airUp, airDown>>
  BY Facts DEF CliFin, FromServer, ServerStays, spoolVars, lossyVars
<1>2. ch \in Client /\ c \in cpool /\ Dialed(c)
  BY <1>1 DEF Client, CliInv, KnowInv
<1>3. /\ ch.conn = cli[c].conn /\ ch.newconn = cli[c].newconn /\ ch.reader = cli[c].reader
      /\ ch.conn_ack_recved = cli[c].conn_ack_recved /\ ch.reasons = cli[c].reasons
      /\ ch.client_socket_close = cli[c].client_socket_close /\ ch.server_socket_close
      /\ ch.closes = cli[c].closes
  BY <1>1 DEF Client
<1> HIDE DEF ch
<1> QED BY <1>1, <1>2, <1>3, CliPromiseKeeps

LEMMA CliFinNoConvKeeps == ASSUME IInv, NEW c \in Conns, CliFinNoConv(c) PROVE IInv'
<1>1. /\ cli[c] \in Client /\ CliInv(c) /\ KnowInv(c) /\ c \in cpool /\ CliPromise(c, cli[c])
      /\ toClient # <<>> /\ toClient' = Tail(toClient)
      /\ UNCHANGED <<srv, spool, spool2, up, down, airUp, airDown>>
  BY Facts DEF CliFinNoConv, FromServer, ServerStays, spoolVars, lossyVars
<1>2. cli[c].server_socket_close => Dialed(c)
  BY <1>1 DEF CliInv, KnowInv
<1> QED BY <1>1, <1>2, CliPromiseKeeps

LEMMA CliCloseEventKeeps == ASSUME IInv, NEW c \in Conns, CliCloseEvent(c) PROVE IInv'
<1> DEFINE ch == [cli[c] EXCEPT !.closes = @ - 1]
<1>1. /\ cli[c] \in Client /\ CliInv(c) /\ KnowInv(c) /\ cli[c].closes > 0 /\ CliPromise(c, ch)
      /\ UNCHANGED <<srv, spool, spool2, toClient, up, down, airUp, airDown>>
  BY Facts DEF CliCloseEvent, ServerStays, spoolVars, lossyVars
<1>2. cli[c].closes - 1 \in Nat /\ (cli[c].server_socket_close => Dialed(c))
  BY <1>1 DEF Client, CliInv, KnowInv
<1>3. ch \in Client
  BY <1>1, <1>2 DEF Client
<1>4. /\ ch.conn = cli[c].conn /\ ch.newconn = cli[c].newconn /\ ch.reader = cli[c].reader
      /\ ch.conn_ack_recved = cli[c].conn_ack_recved /\ ch.reasons = cli[c].reasons
      /\ ch.client_socket_close = cli[c].client_socket_close
      /\ ch.server_socket_close = cli[c].server_socket_close
      /\ ch.closes = cli[c].closes - 1
  BY <1>1 DEF Client
<1> HIDE DEF ch
<1> QED BY <1>1, <1>2, <1>3, <1>4, CliPromiseKeeps

-----------------------------------------------------------------------------
(* Messages and packets *)

LEMMA Bothed ==
    ASSUME NEW p \in Packets, NEW q \in Packets
    PROVE  Both(p, q) \in Packets
BY DEF Both, Packets, Max2

LEMMA NoPacket == Packet \in Packets
BY DEF Packet, Packets

\* Facts that PacketStep asks for where nothing changes.
LEMMA Unmoved ==
    ASSUME IInv, NEW c \in Conns
    PROVE  /\ faults \in Nat
           /\ up[c] \in Stream /\ down[c] \in Stream
           /\ airUp[c] \in Packets /\ airDown[c] \in Packets
           /\ up = [up EXCEPT ![c] = up[c]] /\ down = [down EXCEPT ![c] = down[c]]
           /\ airUp = [airUp EXCEPT ![c] = airUp[c]] /\ airDown = [airDown EXCEPT ![c] = airDown[c]]
           /\ airUp[c] # Packet \/ airDown[c] # Packet \/ up[c].rcvd > 0 \/ down[c].sub > 0
              => Dialed(c)
<1>1. KnowInv(c) /\ TypeOK
  BY Facts DEF IInv
<1> QED BY <1>1 DEF KnowInv, TypeOK

\* A step that moves messages only.
LEMMA MessageStep ==
    ASSUME IInv, NEW c \in Conns, QuietQueues(c), faults' \in Nat,
           UNCHANGED <<cli, srv, cpool, cpool2, spool, spool2, up, down, airUp, airDown, panicked>>
    PROVE  IInv'
BY Unmoved, PacketStep

LEMMA FaultTyped == ASSUME IInv, NEW kind, Fault(kind) PROVE faults' \in Nat
BY DEF IInv, TypeOK, Fault

LEMMA LoseKeeps == ASSUME IInv, LoseToServer \/ LoseToClient PROVE IInv'
<1>1. toServer \in Seq(Message) /\ toClient \in Seq(Message)
  BY DEF IInv, TypeOK
<1>2. /\ faults' \in Nat
      /\ UNCHANGED <<cli, srv, cpool, cpool2, spool, spool2, up, down, airUp, airDown, panicked>>
  BY FaultTyped DEF LoseToServer, LoseToClient, cpoolVars, spoolVars, lossyVars
<1>3. CASE LoseToServer
  <2>1. toServer # <<>> /\ toServer' = Tail(toServer) /\ toClient' = toClient
    BY <1>3 DEF LoseToServer
  <2>2. Head(toServer).conn \in Conns
    <3>1. Head(toServer) \in Message
      BY <1>1, <2>1
    <3> QED BY <3>1 DEF Message
  <2>3. QuietQueues(Head(toServer).conn)
    BY <2>1 DEF QuietQueues
  <2> QED BY <1>2, <2>2, <2>3, MessageStep
<1>4. CASE LoseToClient
  <2>1. toClient # <<>> /\ toClient' = Tail(toClient) /\ toServer' = toServer
    BY <1>4 DEF LoseToClient
  <2>2. Head(toClient).conn \in Conns
    <3>1. Head(toClient) \in Message
      BY <1>1, <2>1
    <3> QED BY <3>1 DEF Message
  <2>3. QuietQueues(Head(toClient).conn)
    BY <2>1 DEF QuietQueues
  <2> QED BY <1>2, <2>2, <2>3, MessageStep
<1> QED BY <1>3, <1>4

LEMMA LosePacketKeeps == ASSUME IInv, NEW c \in Conns, LoseUp(c) \/ LoseDown(c) PROVE IInv'
<1>1. /\ UNCHANGED <<cli, srv, cpool, cpool2, spool, spool2, up, down, faults, panicked>>
      /\ QuietQueues(c)
  BY DEF LoseUp, LoseDown, cpoolVars, spoolVars, QuietQueues
<1>2. up' = [up EXCEPT ![c] = up[c]] /\ down' = [down EXCEPT ![c] = down[c]]
  BY <1>1, Unmoved
<1>3. /\ up[c] \in Stream /\ down[c] \in Stream /\ faults' \in Nat
      /\ airUp[c] \in Packets /\ airDown[c] \in Packets /\ Packet \in Packets
      /\ airUp[c] # Packet \/ airDown[c] # Packet \/ up[c].rcvd > 0 \/ down[c].sub > 0
         => Dialed(c)
  BY <1>1, Unmoved, NoPacket
<1>4. CASE LoseUp(c)
  <2>1. airUp' = [airUp EXCEPT ![c] = Packet] /\ airDown' = [airDown EXCEPT ![c] = airDown[c]]
    BY <1>4, Unmoved DEF LoseUp
  <2> QED BY <1>1, <1>2, <1>3, <2>1, PacketStep
<1>5. CASE LoseDown(c)
  <2>1. airDown' = [airDown EXCEPT ![c] = Packet] /\ airUp' = [airUp EXCEPT ![c] = airUp[c]]
    BY <1>5, Unmoved DEF LoseDown
  <2> QED BY <1>1, <1>2, <1>3, <2>1, PacketStep
<1> QED BY <1>4, <1>5

LEMMA CliLateAckKeeps == ASSUME IInv, NEW c \in Conns, CliLateAck(c) PROVE IInv'
<1>1. /\ toClient # <<>> /\ Head(toClient) = Msg("ACK", c) /\ toClient' = Tail(toClient)
      /\ SendToServer(Msg("FIN", c)) \/ SendErr(toServer)
      /\ UNCHANGED <<cli, srv, cpool, cpool2, spool, spool2, up, down, airUp, airDown, panicked>>
  BY DEF CliLateAck, FromServer, ServerStays, ClientStays, cpoolVars, spoolVars, lossyVars
<1>2. toClient \in Seq(Message) /\ MailInv(c) /\ faults \in Nat
  BY Facts DEF IInv, TypeOK
<1>3. Dialed(c)
  BY <1>1, <1>2, Tails DEF MailInv
<1>4. faults' \in Nat /\ QuietQueues(c)
  BY <1>1, <1>2, <1>3, FaultTyped DEF SendToServer, SendErr, QuietQueues
<1> QED BY <1>1, <1>4, MessageStep

LEMMA FinUnknownKeeps ==
    ASSUME IInv, NEW c \in Conns, CliFinUnknown(c) \/ SrvFinUnknown(c) PROVE IInv'
<1>1. /\ QuietQueues(c) /\ faults' \in Nat
      /\ UNCHANGED <<cli, srv, cpool, cpool2, spool, spool2, up, down, airUp, airDown, panicked>>
  BY Unmoved DEF CliFinUnknown, SrvFinUnknown, FromServer, FromClient, ServerStays, ClientStays,
                 cpoolVars, spoolVars, lossyVars, QuietQueues
<1> QED BY <1>1, MessageStep

LEMMA FlushKeeps == ASSUME IInv, NEW c \in Conns, CliFlush(c) \/ SrvFlush(c) PROVE IInv'
<1>1. /\ UNCHANGED <<cli, srv, cpool, cpool2, spool, spool2, up, down, faults, panicked>>
      /\ QuietQueues(c)
  BY DEF CliFlush, SrvFlush, ServerStays, ClientStays, cpoolVars, spoolVars, QuietQueues
<1>2. KnowInv(c) /\ up[c] \in Stream /\ down[c] \in Stream
  BY Facts
<1>3. CASE CliFlush(c)
  <2> DEFINE p == Both(airUp[c], [items |-> up[c].sub, ack |-> down[c].rcvd])
  <2>1. airUp' = [airUp EXCEPT ![c] = p] /\ airDown' = airDown /\ cli[c].conn_ack_recved
    BY <1>3 DEF CliFlush
  <2>2. Dialed(c)
    BY <1>2, <2>1 DEF KnowInv
  <2>3. p \in Packets
    <3>1. [items |-> up[c].sub, ack |-> down[c].rcvd] \in Packets
      BY <1>2 DEF Packets, Stream
    <3> QED BY <3>1, Unmoved, Bothed
  <2>4. up' = [up EXCEPT ![c] = up[c]] /\ down' = [down EXCEPT ![c] = down[c]]
        /\ airDown' = [airDown EXCEPT ![c] = airDown[c]] /\ faults' \in Nat
        /\ airUp[c] \in Packets /\ airDown[c] \in Packets
    BY <1>1, <2>1, Unmoved
  <2> HIDE DEF p
  <2> QED BY <1>1, <1>2, <2>1, <2>2, <2>3, <2>4, PacketStep
<1>4. CASE SrvFlush(c)
  <2> DEFINE p == Both(airDown[c], [items |-> down[c].sub, ack |-> up[c].rcvd])
  <2>1. airDown' = [airDown EXCEPT ![c] = p] /\ airUp' = airUp /\ WaitSnd(down[c]) > 0
    BY <1>4 DEF SrvFlush
  <2>2. Dialed(c)
    <3>1. down[c].sub > 0
      BY <1>2, <2>1 DEF WaitSnd, Stream
    <3> QED BY <1>2, <3>1 DEF KnowInv
  <2>3. p \in Packets
    <3>1. [items |-> down[c].sub, ack |-> up[c].rcvd] \in Packets
      BY <1>2 DEF Packets, Stream
    <3> QED BY <3>1, Unmoved, Bothed
  <2>4. up' = [up EXCEPT ![c] = up[c]] /\ down' = [down EXCEPT ![c] = down[c]]
        /\ airUp' = [airUp EXCEPT ![c] = airUp[c]] /\ faults' \in Nat
        /\ airUp[c] \in Packets /\ airDown[c] \in Packets
    BY <1>1, <2>1, Unmoved
  <2> HIDE DEF p
  <2> QED BY <1>1, <1>2, <2>1, <2>2, <2>3, <2>4, PacketStep
<1> QED BY <1>3, <1>4

LEMMA RecvKeeps == ASSUME IInv, NEW c \in Conns, CliRecv(c) \/ SrvRecv(c) PROVE IInv'
<1>1. /\ UNCHANGED <<cli, srv, cpool, cpool2, spool, spool2, airUp, airDown, faults>>
      /\ QuietQueues(c)
  BY DEF CliRecv, SrvRecv, ServerStays, ClientStays, cpoolVars, spoolVars, QuietQueues
<1>2. /\ KnowInv(c) /\ up[c] \in Stream /\ down[c] \in Stream
      /\ up \in [Conns -> Stream] /\ down \in [Conns -> Stream]
      /\ airUp' \in [Conns -> Packets] /\ airDown' \in [Conns -> Packets] /\ faults' \in Nat
  BY <1>1, Facts DEF IInv, TypeOK
<1>3. CASE CliRecv(c)
  <2> DEFINE t == [down[c] EXCEPT !.read = @ + 1]
  <2>1. down' = [down EXCEPT ![c] = t] /\ UNCHANGED <<up, panicked>>
    BY <1>3 DEF CliRecv
  <2>2. t \in Stream /\ t.sub = down[c].sub
    <3>1. down[c].read + 1 \in Nat
      BY <1>2 DEF Stream
    <3> QED BY <1>2, <3>1 DEF Stream
  <2>3. /\ airUp'[c] # Packet \/ airDown'[c] # Packet \/ up'[c].rcvd > 0 \/ t.sub > 0 => Dialed(c)
        /\ up' \in [Conns -> Stream]
    BY <1>1, <1>2, <2>1, <2>2, Unmoved
  <2> HIDE DEF t
  <2> QED BY <1>1, <1>2, <2>1, <2>2, <2>3, MoveStep
<1>4. CASE SrvRecv(c)
  <2> DEFINE t == [up[c] EXCEPT !.read = @ + 1]
  <2>1. /\ up' = [up EXCEPT ![c] = t] /\ down' = down /\ up[c].read < up[c].rcvd
        /\ Dialed(c) => UNCHANGED panicked
    BY <1>4 DEF SrvRecv, Dialed
  <2>2. t \in Stream
    <3>1. up[c].read + 1 \in Nat
      BY <1>2 DEF Stream
    <3> QED BY <1>2, <3>1 DEF Stream
  <2>3. Dialed(c)
    <3>1. up[c].rcvd > 0
      BY <1>2, <2>1 DEF Stream
    <3> QED BY <1>2, <3>1 DEF KnowInv
  <2> HIDE DEF t
  <2> QED BY <1>1, <1>2, <2>1, <2>2, <2>3, MoveStep
<1> QED BY <1>3, <1>4

\* A packet that has come keeps the types, and comes after the dial.
LEMMA CliInputKeeps == ASSUME IInv, NEW c \in Conns, CliInput(c) PROVE IInv'
<1>1. /\ UNCHANGED <<cli, srv, cpool, cpool2, spool, spool2, faults, panicked>>
      /\ QuietQueues(c) /\ airDown[c] # Packet
  BY DEF CliInput, ServerStays, ClientStays, cpoolVars, spoolVars, QuietQueues
<1>2. /\ KnowInv(c) /\ up[c] \in Stream /\ down[c] \in Stream
      /\ airUp[c] \in Packets /\ airDown[c] \in Packets
  BY Facts
<1>3. Dialed(c)
  BY <1>1, <1>2 DEF KnowInv
<1>4. PICK k \in down[c].rcvd .. Max2(down[c].rcvd, airDown[c].items) :
        /\ down' = [down EXCEPT ![c].rcvd = k]
        /\ airUp' = IF airDown[c].items > 0
                    THEN [airUp EXCEPT ![c] = Both(@, [items |-> 0, ack |-> k])]
                    ELSE airUp
  BY DEF CliInput
<1>5. k \in Nat /\ Max2(up[c].acked, airDown[c].ack) \in Nat
  BY <1>2 DEF Max2, Stream, Packets
<1> DEFINE t == [down[c] EXCEPT !.rcvd = k]
           s == [up[c] EXCEPT !.acked = Max2(@, airDown[c].ack)]
<1>6. down' = [down EXCEPT ![c] = t] /\ up' = [up EXCEPT ![c] = s]
  BY <1>4 DEF CliInput
<1>7. t \in Stream /\ s \in Stream
  BY <1>2, <1>5 DEF Stream
<1>8. PICK p \in Packets : airUp' = [airUp EXCEPT ![c] = p]
  <2>1. [items |-> 0, ack |-> k] \in Packets
    BY <1>5 DEF Packets
  <2>2. Both(airUp[c], [items |-> 0, ack |-> k]) \in Packets
    BY <1>2, <2>1, Bothed
  <2> QED BY <1>2, <1>4, <2>2, Unmoved
<1>9. PICK q \in Packets : airDown' = [airDown EXCEPT ![c] = q]
  BY <1>2, Unmoved, NoPacket DEF CliInput
<1> HIDE DEF t, s
<1> QED BY <1>1, <1>3, <1>6, <1>7, <1>8, <1>9, Unmoved, PacketStep

LEMMA SrvInputKeeps == ASSUME IInv, NEW c \in Conns, SrvInput(c) PROVE IInv'
<1>1. /\ UNCHANGED <<cli, srv, cpool, cpool2, spool, spool2, faults, panicked>>
      /\ QuietQueues(c) /\ airUp[c] # Packet
  BY DEF SrvInput, ServerStays, ClientStays, cpoolVars, spoolVars, QuietQueues
<1>2. /\ KnowInv(c) /\ up[c] \in Stream /\ down[c] \in Stream
      /\ airUp[c] \in Packets /\ airDown[c] \in Packets
  BY Facts
<1>3. Dialed(c)
  BY <1>1, <1>2 DEF KnowInv
<1>4. PICK k \in up[c].rcvd .. Max2(up[c].rcvd, airUp[c].items) :
        /\ up' = [up EXCEPT ![c].rcvd = k]
        /\ airDown' = IF airUp[c].items > 0
                      THEN [airDown EXCEPT ![c] = Both(@, [items |-> 0, ack |-> k])]
                      ELSE airDown
  BY DEF SrvInput
<1>5. k \in Nat /\ Max2(down[c].acked, airUp[c].ack) \in Nat
  BY <1>2 DEF Max2, Stream, Packets
<1> DEFINE s == [up[c] EXCEPT !.rcvd = k]
           t == [down[c] EXCEPT !.acked = Max2(@, airUp[c].ack)]
<1>6. down' = [down EXCEPT ![c] = t] /\ up' = [up EXCEPT ![c] = s]
  BY <1>4 DEF SrvInput
<1>7. t \in Stream /\ s \in Stream
  BY <1>2, <1>5 DEF Stream
<1>8. PICK q \in Packets : airDown' = [airDown EXCEPT ![c] = q]
  <2>1. [items |-> 0, ack |-> k] \in Packets
    BY <1>5 DEF Packets
  <2>2. Both(airDown[c], [items |-> 0, ack |-> k]) \in Packets
    BY <1>2, <2>1, Bothed
  <2> QED BY <1>2, <1>4, <2>2, Unmoved
<1>9. PICK p \in Packets : airUp' = [airUp EXCEPT ![c] = p]
  BY <1>2, Unmoved, NoPacket DEF SrvInput
<1> HIDE DEF t, s
<1> QED BY <1>1, <1>3, <1>6, <1>7, <1>8, <1>9, Unmoved, PacketStep

LEMMA CliUnknownConvKeeps == ASSUME IInv, NEW c \in Conns, CliUnknownConv(c) PROVE IInv'
<1>1. /\ UNCHANGED <<cli, srv, cpool, cpool2, spool, spool2, up, down, airUp, panicked>>
      /\ airDown[c] # Packet /\ toClient' = toClient
      /\ SendToServer(Msg("FIN", c)) \/ SendErr(toServer)
  BY DEF CliUnknownConv, ServerStays, ClientStays, cpoolVars, spoolVars
<1>2. Dialed(c)
  BY <1>1, Unmoved
<1>3. QuietQueues(c) /\ faults' \in Nat
  BY <1>1, <1>2, Unmoved, FaultTyped DEF QuietQueues, SendToServer, SendErr
<1>4. PICK q \in Packets : airDown' = [airDown EXCEPT ![c] = q]
  BY Unmoved, NoPacket DEF CliUnknownConv
<1>5. /\ up' = [up EXCEPT ![c] = up[c]] /\ down' = [down EXCEPT ![c] = down[c]] /\ airUp' = [airUp EXCEPT ![c] = airUp[c]]
      /\ up[c] \in Stream /\ down[c] \in Stream /\ airUp[c] \in Packets
  BY <1>1, Unmoved
<1> QED BY <1>1, <1>2, <1>3, <1>4, <1>5, PacketStep

LEMMA SrvUnknownConvKeeps == ASSUME IInv, NEW c \in Conns, SrvUnknownConv(c) PROVE IInv'
<1>1. /\ UNCHANGED <<cli, srv, cpool, cpool2, spool, spool2, up, down, airDown, faults, panicked>>
      /\ airUp' = [airUp EXCEPT ![c] = Packet] /\ QuietQueues(c)
  BY DEF SrvUnknownConv, ServerStays, ClientStays, cpoolVars, spoolVars, QuietQueues
<1>2. up' = [up EXCEPT ![c] = up[c]] /\ down' = [down EXCEPT ![c] = down[c]]
      /\ airDown' = [airDown EXCEPT ![c] = airDown[c]] /\ faults' \in Nat
  BY <1>1, Unmoved
<1>3. /\ up[c] \in Stream /\ down[c] \in Stream
      /\ Packet \in Packets /\ airDown[c] \in Packets
      /\ airDown[c] # Packet \/ up[c].rcvd > 0 \/ down[c].sub > 0 => Dialed(c)
  BY Unmoved, NoPacket
<1> QED BY <1>1, <1>2, <1>3, PacketStep

-----------------------------------------------------------------------------
(* The server *)

LEMMA SrvSynKeeps == ASSUME IInv, NEW c \in Conns, SrvSyn(c) PROVE IInv'
<1> DEFINE r == [srv[c] EXCEPT !.task = "start"]
<1>1. /\ TypeOK /\ srv[c] \in Server /\ "server" \notin panicked
      /\ CliInv(c) /\ SrvInv(c) /\ KnowInv(c) /\ MailInv(c)
  BY Facts DEF IInv
<1>2. /\ srv' = [srv EXCEPT ![c] = r]
      /\ toServer # <<>> /\ Head(toServer) = Msg("SYN", c) /\ toServer' = Tail(toServer)
      /\ UNCHANGED <<cli, cpool, cpool2, spool, spool2, toClient, up, down, airUp, airDown,
                     faults, panicked>>
  BY DEF SrvSyn, FromClient, ClientStays, cpoolVars, spoolVars, lossyVars
<1>3. r \in Server
  BY <1>1 DEF Server
<1>4. srv'[c] = r /\ \A d \in Conns \ {c} : srv'[d] = srv[d]
  BY <1>1, <1>2 DEF TypeOK
<1>5. QueueStep(toServer, toServer', c) /\ QueueStep(toClient, toClient', c)
  BY <1>2 DEF QueueStep
<1>6. /\ toServer' \in Seq(Message)
      /\ OnItsWay(toServer, Msg("SYN", c)) /\ ~OnItsWay(toServer', Msg("SYN", c))
      /\ OnItsWay(toServer', Msg("FIN", c)) => OnItsWay(toServer, Msg("FIN", c))
      /\ Unique(toServer', Msg("SYN", c))
  BY <1>1, <1>2, Tails DEF TypeOK, MailInv
<1>7. srv[c].task = "none" /\ ~Unborn(c)
  BY <1>1, <1>6 DEF MailInv
<1>8. TypeOK'
  <2> HIDE DEF r
  <2> QED BY <1>1, <1>2, <1>3, <1>6 DEF TypeOK
<1>9. SrvInv(c)'
  BY <1>1, <1>2, <1>3, <1>4, <1>7 DEF SrvInv, Server, Num, Dialed, Starting, Reading
<1>10. CliInv(c)' /\ KnowInv(c)'
  BY <1>1, <1>2, <1>3, <1>4 DEF CliInv, KnowInv, Dialed, Unborn, Server
<1>11. MailInv(c)'
  BY <1>1, <1>2, <1>3, <1>4, <1>6, <1>7 DEF MailInv, Dialed, Unborn, Server
<1>12. StepOf(c)
  BY <1>2, <1>4, <1>5 DEF StepOf, Stays
<1> QED BY <1>1, <1>2, <1>8, <1>9, <1>10, <1>11, <1>12, StepKeeps DEF ChanInv

LEMMA SrvDialedKeeps == ASSUME IInv, NEW c \in Conns, SrvDialed(c) PROVE IInv'
<1> DEFINE r == [srv[c] EXCEPT !.task = "done", !.conn = "open", !.reader = "read"]
<1>1. /\ TypeOK /\ srv[c] \in Server /\ "server" \notin panicked
      /\ CliInv(c) /\ SrvInv(c) /\ KnowInv(c) /\ MailInv(c)
  BY Facts DEF IInv
<1>2. /\ srv' = [srv EXCEPT ![c] = r] /\ srv[c].task = "dial"
      /\ SendToClient(Msg("ACK", c)) \/ SendErr(toClient)
      /\ UNCHANGED <<cli, cpool, cpool2, spool, spool2, toServer, up, down, airUp, airDown, panicked>>
  BY DEF SrvDialed, ClientStays, cpoolVars, spoolVars, lossyVars
<1>3. r \in Server
  BY <1>1 DEF Server
<1>4. srv'[c] = r /\ \A d \in Conns \ {c} : srv'[d] = srv[d]
  BY <1>1, <1>2 DEF TypeOK
<1>5. /\ toClient' = toClient \/ toClient' = Append(toClient, Msg("ACK", c))
      /\ faults' \in Nat
  BY <1>1, <1>2, FaultTyped DEF SendToClient, SendErr, TypeOK
<1>6. QueueStep(toServer, toServer', c) /\ QueueStep(toClient, toClient', c)
  BY <1>2, <1>5 DEF QueueStep
<1>7. ~Dialed(c) /\ cli[c].reader = "none" /\ ~OnItsWay(toClient, Msg("ACK", c))
  BY <1>1, <1>2 DEF SrvInv, KnowInv, MailInv, Starting
<1>8. toClient' \in Seq(Message) /\ Unique(toClient', Msg("ACK", c))
  <2>1. /\ toClient \in Seq(Message) /\ Msg("ACK", c) \in Message
        /\ Unique(toClient, Msg("ACK", c))
    BY <1>1, Messages DEF TypeOK, MailInv
  <2>2. CASE toClient' = toClient
    BY <2>1, <2>2
  <2>3. CASE toClient' = Append(toClient, Msg("ACK", c))
    BY <1>7, <2>1, <2>3, Appends
  <2> QED BY <1>5, <2>2, <2>3
<1>9. TypeOK'
  <2> HIDE DEF r
  <2> QED BY <1>1, <1>2, <1>3, <1>5, <1>8 DEF TypeOK
<1>10. SrvInv(c)'
  BY <1>1, <1>2, <1>3, <1>4 DEF SrvInv, Server, Num, Dialed, Starting, Reading
<1>11. CliInv(c)' /\ KnowInv(c)' /\ Dialed(c)'
  BY <1>1, <1>2, <1>3, <1>4 DEF CliInv, KnowInv, Dialed, Unborn, Server
<1>12. MailInv(c)'
  <2>1. ~Unborn(c)' /\ ~OnItsWay(toServer', Msg("SYN", c))
    BY <1>1, <1>2 DEF MailInv, Unborn
  <2> QED BY <1>1, <1>2, <1>7, <1>8, <1>11, <2>1 DEF MailInv
<1>13. StepOf(c)
  BY <1>2, <1>4, <1>6 DEF StepOf, Stays
<1> QED BY <1>1, <1>2, <1>9, <1>10, <1>11, <1>12, <1>13, StepKeeps DEF ChanInv

\* SrvStep where no data moves.
LEMMA SrvMoves ==
    ASSUME IInv, NEW c \in Conns, NEW r \in Server,
           srv' = [srv EXCEPT ![c] = r], QuietQueues(c),
           UNCHANGED <<cli, cpool, cpool2, up, down, airUp, airDown, panicked>>,
           spool' \subseteq Conns, spool2' \subseteq Conns,
           \A d \in Conns \ {c} : (d \in spool' <=> d \in spool) /\ (d \in spool2' <=> d \in spool2),
           faults' \in Nat, SrvInv(c)', Dialed(c) => r.conn # "none",
           srv[c].task = "none" => r.task = "none"
    PROVE  IInv'
<1>1. /\ down[c] \in Stream /\ down' = [down EXCEPT ![c] = down[c]]
      /\ down[c].sub > 0 => Dialed(c)
  BY Unmoved
<1> QED BY <1>1, SrvStep

LEMMA SrvPutKeeps == ASSUME IInv, NEW c \in Conns, SrvPut(c) PROVE IInv'
<1> DEFINE r == [srv[c] EXCEPT !.task = "dial"]
<1>1. TypeOK /\ srv[c] \in Server /\ SrvInv(c)
  BY Facts DEF IInv
<1>2. /\ srv' = [srv EXCEPT ![c] = r] /\ srv[c].task = "start"
      /\ spool' = spool \cup {c} /\ spool2' = spool2 \cup {c}
      /\ UNCHANGED <<cli, cpool, cpool2, toServer, toClient, up, down, airUp, airDown, faults, panicked>>
  BY DEF SrvPut, ClientStays, cpoolVars, lossyVars
<1>3. r \in Server /\ r.task = "dial" /\ r.conn = srv[c].conn
  BY <1>1 DEF Server
<1>4. srv'[c] = r
  BY <1>1, <1>2 DEF TypeOK
<1>5. SrvInv(c)'
  BY <1>1, <1>2, <1>3, <1>4 DEF SrvInv, Server, Num, Dialed, Starting, Reading
<1>6. faults' \in Nat /\ spool' \subseteq Conns /\ spool2' \subseteq Conns /\ QuietQueues(c)
  BY <1>1, <1>2 DEF TypeOK, QuietQueues
<1> HIDE DEF r
<1> QED BY <1>1, <1>2, <1>3, <1>5, <1>6, SrvMoves DEF Dialed

LEMMA SrvDialFailsKeeps == ASSUME IInv, NEW c \in Conns, SrvDialFails(c) PROVE IInv'
<1> DEFINE r == [srv[c] EXCEPT !.task = "done", !.server_socket_close = TRUE, !.closes = @ + 1]
<1>1. TypeOK /\ srv[c] \in Server /\ SrvInv(c)
  BY Facts DEF IInv
<1>2. /\ srv' = [srv EXCEPT ![c] = r] /\ srv[c].task = "dial"
      /\ UNCHANGED <<cli, cpool, cpool2, spool, spool2, toServer, toClient, up, down, airUp, airDown,
                     faults, panicked>>
  BY DEF SrvDialFails, ClientStays, cpoolVars, spoolVars, lossyVars
<1>3. srv[c].closes = 0 /\ srv[c].closes + 1 \in Nat /\ srv[c].reasons = 0 /\ ~Dialed(c)
  BY <1>1, <1>2 DEF SrvInv, Starting
<1>4. r \in Server /\ r.conn = srv[c].conn
  BY <1>1, <1>3 DEF Server
<1>5. srv'[c] = r
  BY <1>1, <1>2 DEF TypeOK
<1>6. SrvInv(c)'
  BY <1>1, <1>2, <1>3, <1>4, <1>5 DEF SrvInv, Server, Num, Dialed, Starting, Reading
<1>7. faults' \in Nat /\ spool' \subseteq Conns /\ spool2' \subseteq Conns /\ QuietQueues(c)
  BY <1>1, <1>2 DEF TypeOK, QuietQueues
<1> HIDE DEF r
<1> QED BY <1>1, <1>2, <1>3, <1>4, <1>6, <1>7, SrvMoves

LEMMA BackendClosesKeeps == ASSUME IInv, NEW c \in Conns, BackendCloses(c) PROVE IInv'
<1> DEFINE r == [srv[c] EXCEPT !.conn = "eof"]
<1>1. TypeOK /\ srv[c] \in Server /\ SrvInv(c)
  BY Facts DEF IInv
<1>2. /\ srv' = [srv EXCEPT ![c] = r] /\ srv[c].conn = "open"
      /\ UNCHANGED <<cli, cpool, cpool2, spool, spool2, toServer, toClient, up, down, airUp, airDown,
                     faults, panicked>>
  BY DEF BackendCloses, ClientStays, cpoolVars, spoolVars, lossyVars
<1>3. r \in Server /\ r.conn = "eof" /\ r.task = srv[c].task
  BY <1>1 DEF Server
<1>4. srv'[c] = r
  BY <1>1, <1>2 DEF TypeOK
<1>5. SrvInv(c)'
  BY <1>1, <1>2, <1>3, <1>4 DEF SrvInv, Server, Num, Dialed, Starting, Reading
<1>6. faults' \in Nat /\ spool' \subseteq Conns /\ spool2' \subseteq Conns /\ QuietQueues(c)
  BY <1>1, <1>2 DEF TypeOK, QuietQueues
<1> HIDE DEF r
<1> QED BY <1>1, <1>2, <1>3, <1>5, <1>6, SrvMoves

LEMMA SrvReadsKeeps == ASSUME IInv, NEW c \in Conns, SrvReads(c) PROVE IInv'
<1> DEFINE r == [srv[c] EXCEPT !.reader = "hold"]
           s == [down[c] EXCEPT !.made = @ + 1]
<1>1. TypeOK /\ srv[c] \in Server /\ SrvInv(c) /\ down[c] \in Stream
  BY Facts DEF IInv
<1>2. /\ srv' = [srv EXCEPT ![c] = r] /\ srv[c].reader = "read" /\ down' = [down EXCEPT ![c] = s]
      /\ UNCHANGED <<cli, cpool, cpool2, spool, spool2, toServer, toClient, up, airUp, airDown,
                     faults, panicked>>
  BY DEF SrvReads, ClientStays, cpoolVars, spoolVars
<1>3. down[c].made + 1 \in Nat
  BY <1>1 DEF Stream
<1>4. /\ r \in Server /\ r.conn = srv[c].conn /\ r.task = srv[c].task
      /\ s \in Stream /\ s.sub = down[c].sub
  BY <1>1, <1>3 DEF Server, Stream
<1>5. srv'[c] = r
  BY <1>1, <1>2 DEF TypeOK
<1>6. SrvInv(c)'
  BY <1>1, <1>2, <1>4, <1>5 DEF SrvInv, Server, Num, Dialed, Starting, Reading
<1>7. faults' \in Nat /\ spool' \subseteq Conns /\ spool2' \subseteq Conns /\ QuietQueues(c)
  BY <1>1, <1>2 DEF TypeOK, QuietQueues
<1>8. Dialed(c) => r.conn # "none"
  BY <1>4 DEF Dialed
<1> HIDE DEF r, s
<1> QED BY <1>1, <1>2, <1>4, <1>6, <1>7, <1>8, SrvStep

LEMMA SrvQueuesKeeps == ASSUME IInv, NEW c \in Conns, SrvQueues(c) PROVE IInv'
<1> DEFINE r == [srv[c] EXCEPT !.reader = "read", !.reads = @ + 1]
<1>1. TypeOK /\ srv[c] \in Server /\ SrvInv(c)
  BY Facts DEF IInv
<1>2. /\ srv' = [srv EXCEPT ![c] = r] /\ srv[c].reader = "hold"
      /\ UNCHANGED <<cli, cpool, cpool2, spool, spool2, toServer, toClient, up, down, airUp, airDown,
                     faults, panicked>>
  BY DEF SrvQueues, ClientStays, cpoolVars, spoolVars, lossyVars
<1>3. srv[c].reads + 1 \in Nat
  BY <1>1 DEF Server
<1>4. r \in Server /\ r.conn = srv[c].conn /\ r.task = srv[c].task
  BY <1>1, <1>3 DEF Server
<1>5. srv'[c] = r
  BY <1>1, <1>2 DEF TypeOK
<1>6. SrvInv(c)'
  BY <1>1, <1>2, <1>4, <1>5 DEF SrvInv, Server, Num, Dialed, Starting, Reading
<1>7. /\ faults' \in Nat /\ spool' \subseteq Conns /\ spool2' \subseteq Conns /\ QuietQueues(c)
      /\ Dialed(c) => r.conn # "none"
  BY <1>1, <1>2, <1>4 DEF TypeOK, QuietQueues, Dialed
<1> HIDE DEF r
<1> QED BY <1>1, <1>2, <1>4, <1>6, <1>7, SrvMoves

LEMMA SrvReadFailsKeeps == ASSUME IInv, NEW c \in Conns, SrvReadFails(c) PROVE IInv'
<1> DEFINE r == [srv[c] EXCEPT !.reader = "done", !.server_socket_close = TRUE, !.closes = @ + 1]
<1>1. TypeOK /\ srv[c] \in Server /\ SrvInv(c)
  BY Facts DEF IInv
<1>2. /\ srv' = [srv EXCEPT ![c] = r] /\ srv[c].reader = "read" /\ srv[c].conn \in {"eof", "shut"}
      /\ UNCHANGED <<cli, cpool, cpool2, spool, spool2, toServer, toClient, up, down, airUp, airDown,
                     faults, panicked>>
  BY DEF SrvReadFails, ClientStays, cpoolVars, spoolVars, lossyVars
<1>3. srv[c].closes + 1 \in Nat
  BY <1>1 DEF Server
<1>4. r \in Server /\ r.conn = srv[c].conn /\ r.task = srv[c].task
  BY <1>1, <1>3 DEF Server
<1>5. srv'[c] = r
  BY <1>1, <1>2 DEF TypeOK
<1>6. SrvInv(c)'
  BY <1>1, <1>2, <1>4, <1>5 DEF SrvInv, Server, Num, Dialed, Starting, Reading
<1>7. /\ faults' \in Nat /\ spool' \subseteq Conns /\ spool2' \subseteq Conns /\ QuietQueues(c)
      /\ Dialed(c) => r.conn # "none"
  BY <1>1, <1>2, <1>4 DEF TypeOK, QuietQueues, Dialed
<1> HIDE DEF r
<1> QED BY <1>1, <1>2, <1>4, <1>6, <1>7, SrvMoves

LEMMA ServerReadyReadKeeps == ASSUME IInv, NEW c \in Conns, processServerReadyRead(c) PROVE IInv'
<1> DEFINE r == [srv[c] EXCEPT !.reads = @ - 1]
           s == [down[c] EXCEPT !.sub = @ + 1]
<1>1. TypeOK /\ srv[c] \in Server /\ SrvInv(c) /\ down[c] \in Stream
  BY Facts DEF IInv
<1>2. /\ srv' = [srv EXCEPT ![c] = r] /\ srv[c].reads > 0 /\ down' = [down EXCEPT ![c] = s]
      /\ UNCHANGED <<cli, cpool, cpool2, spool, spool2, toServer, toClient, up, airUp, airDown,
                     faults, panicked>>
  BY DEF processServerReadyRead, ClientStays, cpoolVars, spoolVars
<1>3. down[c].sub + 1 \in Nat /\ srv[c].reads - 1 \in Nat /\ Dialed(c)
  BY <1>1, <1>2 DEF Stream, Server, SrvInv
<1>4. r \in Server /\ r.conn = srv[c].conn /\ r.task = srv[c].task /\ s \in Stream
  BY <1>1, <1>3 DEF Server, Stream
<1>5. srv'[c] = r
  BY <1>1, <1>2 DEF TypeOK
<1>6. SrvInv(c)'
  BY <1>1, <1>2, <1>3, <1>4, <1>5 DEF SrvInv, Server, Num, Dialed, Starting, Reading
<1>7. /\ faults' \in Nat /\ spool' \subseteq Conns /\ spool2' \subseteq Conns /\ QuietQueues(c)
      /\ Dialed(c) => r.conn # "none"
  BY <1>1, <1>2, <1>4 DEF TypeOK, QuietQueues, Dialed
<1> HIDE DEF r, s
<1> QED BY <1>1, <1>2, <1>3, <1>4, <1>6, <1>7, SrvStep

\* A step after the dial that leaves the server's side closed.
LEMMA SrvCloses ==
    ASSUME IInv, NEW c \in Conns, NEW r \in Server,
           srv' = [srv EXCEPT ![c] = r], QuietQueues(c),
           UNCHANGED <<cli, cpool, cpool2, up, down, airUp, airDown, panicked>>,
           UNCHANGED <<spool, spool2>> \/ RmServer(c), faults' \in Nat, ~Starting(c),
           r.task = srv[c].task, r.reader = srv[c].reader, r.reads = srv[c].reads,
           r.conn = "none" <=> ~Dialed(c), r.conn # "open", r.server_socket_close,
           r.reasons + r.closes + Num(r.reader # "done" /\ Dialed(c))
           <= 1 + Num(r.client_socket_close) + Num(c \notin spool')
    PROVE  IInv'
<1>1. TypeOK /\ SrvInv(c)
  BY Facts DEF IInv
<1>2. srv'[c] = r /\ (Dialed(c)' <=> Dialed(c)) /\ ~Starting(c)'
  BY <1>1 DEF TypeOK, Dialed, Starting
<1>3. /\ spool' \subseteq Conns /\ spool2' \subseteq Conns /\ (c \in spool' <=> c \in spool2')
      /\ \A d \in Conns \ {c} : (d \in spool' <=> d \in spool) /\ (d \in spool2' <=> d \in spool2)
  BY <1>1 DEF TypeOK, RmServer, SrvInv
<1>4. Reading(c)' <=> r.reader # "done" /\ Dialed(c)
  BY <1>2 DEF Reading
<1>5. r.task = "done"
  BY DEF Starting
<1>6. SrvInv(c)'
  BY <1>1, <1>2, <1>3, <1>4, <1>5 DEF SrvInv, Num
<1>7. Dialed(c) => r.conn # "none"
  OBVIOUS
<1> QED BY <1>3, <1>5, <1>6, <1>7, SrvMoves DEF Starting

\* promiseChannelClose of the server: after the end of the reader, a FIN or
\* kcpCheckClose.
LEMMA SrvPromiseKeeps ==
    ASSUME IInv, NEW c \in Conns, NEW ch \in Server, SrvPromise(c, ch),
           UNCHANGED <<cli, cpool, cpool2, up, down, airUp, airDown>>,
           toServer' = toServer \/ (toServer # <<>> /\ toServer' = Tail(toServer)),
           ~Starting(c), ch.conn = srv[c].conn, ch.task = srv[c].task,
           ch.reader = srv[c].reader, ch.reads = srv[c].reads, ch.reasons = srv[c].reasons,
           ch.server_socket_close = srv[c].server_socket_close,
           srv[c].client_socket_close => ch.client_socket_close,
           ch.server_socket_close \/ ch.client_socket_close,
           ch.server_socket_close \/ Dialed(c),
           \/ ch.closes = srv[c].closes - 1
           \/ /\ ch.closes = srv[c].closes /\ c \in spool
              /\ ch.client_socket_close \/ ch.server_kcp_close
    PROVE  IInv'
<1> DEFINE r == [ch EXCEPT !.reasons = @ + 1]
           r2 == [ch EXCEPT !.reasons = @ + 1, !.conn = "shut", !.server_socket_close = TRUE]
           R == Num(srv[c].reader # "done" /\ Dialed(c))
<1>1. TypeOK /\ srv[c] \in Server /\ SrvInv(c) /\ ch.reasons + 1 \in Nat
  BY Facts DEF IInv, Server
<1>2. r \in Server /\ r2 \in Server
  BY <1>1 DEF Server
<1>3. /\ r.conn = ch.conn /\ r.task = ch.task /\ r.reader = ch.reader /\ r.reads = ch.reads
      /\ r.server_socket_close = ch.server_socket_close
      /\ r.client_socket_close = ch.client_socket_close
      /\ r.reasons = srv[c].reasons + 1 /\ r.closes = ch.closes
  BY <1>1 DEF Server
<1>4. /\ r2.conn = "shut" /\ r2.task = ch.task /\ r2.reader = ch.reader /\ r2.reads = ch.reads
      /\ r2.server_socket_close /\ r2.client_socket_close = ch.client_socket_close
      /\ r2.reasons = srv[c].reasons + 1 /\ r2.closes = ch.closes
  BY <1>1 DEF Server
<1>5. /\ srv[c].reasons \in Nat /\ srv[c].closes \in Nat /\ ch.closes \in Nat
      /\ srv[c].client_socket_close \in BOOLEAN /\ ch.client_socket_close \in BOOLEAN
      /\ R \in {0, 1}
  BY <1>1 DEF Server, Num
<1>6. /\ srv[c].reasons + srv[c].closes + R
         <= 1 + Num(srv[c].client_socket_close) + Num(c \notin spool)
      /\ ch.server_socket_close => ch.conn # "open"
      /\ ~ch.server_socket_close => ~srv[c].client_socket_close
      /\ ch.conn = "none" <=> ~Dialed(c)
  BY <1>1 DEF SrvInv, Reading, Dialed
<1> HIDE DEF r, r2, R
<1>7. /\ Num(c \notin spool) \in {0, 1} /\ (c \in spool => Num(c \notin spool) = 0)
      /\ Num(srv[c].client_socket_close) \in {0, 1} /\ Num(ch.client_socket_close) \in {0, 1}
      /\ Num(srv[c].client_socket_close) <= Num(ch.client_socket_close)
      /\ ~srv[c].client_socket_close => Num(srv[c].client_socket_close) = 0
  BY <1>5 DEF Num
<1>8. /\ srv[c].reasons + ch.closes + R <= 1 + Num(ch.client_socket_close) + Num(c \notin spool)
      /\ srv[c].reasons + 1 + ch.closes + R <= 2 + Num(ch.client_socket_close)
      /\ Num(srv[c].client_socket_close) = 0
         => srv[c].reasons + 1 + ch.closes + R <= 2 + Num(c \notin spool)
      /\ ch.closes = srv[c].closes - 1
         => srv[c].reasons + 1 + ch.closes + R <= 1 + Num(ch.client_socket_close) + Num(c \notin spool)
  <2> DEFINE n == srv[c].reasons
             m == srv[c].closes
             k == ch.closes
             reader == R
             peer == Num(srv[c].client_socket_close)
             peer2 == Num(ch.client_socket_close)
             gone == Num(c \notin spool)
  <2>1. /\ n \in Nat /\ m \in Nat /\ k \in Nat /\ reader \in {0, 1} /\ peer \in {0, 1}
        /\ peer2 \in {0, 1} /\ peer <= peer2 /\ gone \in {0, 1}
        /\ n + m + reader <= 1 + peer + gone /\ (k = m - 1 \/ (k = m /\ gone = 0))
    BY <1>5, <1>6, <1>7
  <2> HIDE DEF n, m, k, reader, peer, peer2, gone
  <2>2. /\ n + k + reader <= 1 + peer2 + gone
        /\ n + 1 + k + reader <= 2 + peer2
        /\ peer = 0 => n + 1 + k + reader <= 2 + gone
        /\ k = m - 1 => n + 1 + k + reader <= 1 + peer2 + gone
    BY <2>1, Paid
  <2> QED BY <2>2 DEF n, m, k, reader, peer, peer2, gone
<1>9. CASE /\ ch.server_socket_close /\ SendErr(toClient) /\ srv' = [srv EXCEPT ![c] = ch]
           /\ UNCHANGED <<spoolVars, panicked>>
  <2>1. QuietQueues(c) /\ faults' \in Nat /\ UNCHANGED <<spool, spool2, panicked>>
    BY <1>1, <1>9 DEF QuietQueues, SendErr, Fault, TypeOK, spoolVars
  <2>2. ch.reasons + ch.closes + R <= 1 + Num(ch.client_socket_close) + Num(c \notin spool')
    BY <1>8, <2>1
  <2> QED BY <1>6, <1>9, <2>1, <2>2, SrvCloses DEF R
<1>10. ASSUME ch.server_socket_close, srv' = [srv EXCEPT ![c] = r], RmServer(c),
              toClient' = toClient \/ toClient' = Append(toClient, Msg("FIN", c)),
              faults' = faults, panicked' = panicked
       PROVE  IInv'
  <2>1. QuietQueues(c) /\ faults' \in Nat /\ c \notin spool'
    BY <1>1, <1>10 DEF QuietQueues, TypeOK, RmServer
  <2>2. r.reasons + r.closes + R <= 1 + Num(r.client_socket_close) + Num(c \notin spool')
    <3>1. Num(c \notin spool') = 1
      BY <2>1 DEF Num
    <3> QED BY <1>3, <1>5, <1>7, <1>8, <3>1
  <2> QED BY <1>2, <1>3, <1>6, <1>10, <2>1, <2>2, SrvCloses DEF R
<1>11. CASE /\ ch.server_socket_close /\ ~ch.server_kcp_close /\ ~ch.client_socket_close
            /\ srv' = [srv EXCEPT ![c] = r] /\ UNCHANGED <<spoolVars, toClient, faults, panicked>>
  <2>1. QuietQueues(c) /\ faults' \in Nat /\ UNCHANGED <<spool, spool2>>
    BY <1>1, <1>11 DEF QuietQueues, TypeOK, spoolVars
  <2>2. ch.closes = srv[c].closes - 1
    BY <1>11
  <2>3. r.reasons + r.closes + R <= 1 + Num(r.client_socket_close) + Num(c \notin spool')
    BY <1>3, <1>8, <2>1, <2>2
  <2> QED BY <1>2, <1>3, <1>6, <1>11, <2>1, <2>3, SrvCloses DEF R
<1>12. CASE /\ ~ch.server_socket_close /\ ch.client_socket_close
            /\ srv' = [srv EXCEPT ![c] = r2] /\ UNCHANGED <<spoolVars, toClient, faults>>
            /\ panicked' = IF ch.conn = "none" THEN panicked \cup {"server"} ELSE panicked
  <2>1. /\ QuietQueues(c) /\ faults' \in Nat /\ UNCHANGED <<spool, spool2, panicked>> /\ Dialed(c)
    BY <1>1, <1>6, <1>12 DEF QuietQueues, TypeOK, spoolVars
  <2>2. r2.reasons + r2.closes + R <= 1 + Num(r2.client_socket_close) + Num(c \notin spool')
    <3>1. Num(srv[c].client_socket_close) = 0 /\ Num(r2.client_socket_close) = 1
      BY <1>4, <1>6, <1>12, <1>7 DEF Num
    <3>2. Num(c \notin spool') = Num(c \notin spool)
      BY <2>1
    <3> QED BY <1>4, <1>7, <1>8, <3>1, <3>2
  <2> QED BY <1>2, <1>4, <1>12, <2>1, <2>2, SrvCloses DEF R
<1>13. CASE /\ ch.server_socket_close /\ ch.server_kcp_close /\ ~ch.client_socket_close
            /\ SendToClient(Msg("FIN", c)) /\ srv' = [srv EXCEPT ![c] = r] /\ RmServer(c)
            /\ UNCHANGED panicked
  BY <1>10, <1>13 DEF SendToClient
<1>14. CASE /\ ch.server_socket_close /\ ch.client_socket_close
            /\ srv' = [srv EXCEPT ![c] = r] /\ RmServer(c) /\ UNCHANGED <<toClient, faults, panicked>>
  BY <1>10, <1>14
<1> QED BY <1>9, <1>11, <1>12, <1>13, <1>14 DEF SrvPromise, r, r2

LEMMA SrvFinKeeps == ASSUME IInv, NEW c \in Conns, SrvFin(c) PROVE IInv'
<1> DEFINE ch == [srv[c] EXCEPT !.client_socket_close = TRUE]
<1>1. /\ TypeOK /\ srv[c] \in Server /\ SrvInv(c) /\ MailInv(c) /\ SrvPromise(c, ch)
      /\ c \in spool2 /\ toServer # <<>> /\ Head(toServer) = Msg("FIN", c)
      /\ toServer' = Tail(toServer)
      /\ UNCHANGED <<cli, cpool, cpool2, up, down, airUp, airDown>>
  BY Facts DEF IInv, SrvFin, FromClient, ClientStays, cpoolVars, lossyVars
<1>2. OnItsWay(toServer, Msg("FIN", c))
  BY <1>1, Tails DEF TypeOK
<1>3. ch \in Server /\ c \in spool /\ Dialed(c) /\ ~Starting(c)
  BY <1>1, <1>2 DEF Server, SrvInv, MailInv
<1>4. /\ ch.conn = srv[c].conn /\ ch.task = srv[c].task /\ ch.reader = srv[c].reader
      /\ ch.reads = srv[c].reads /\ ch.reasons = srv[c].reasons /\ ch.closes = srv[c].closes
      /\ ch.server_socket_close = srv[c].server_socket_close /\ ch.client_socket_close
  BY <1>1 DEF Server
<1> HIDE DEF ch
<1> QED BY <1>1, <1>3, <1>4, SrvPromiseKeeps

LEMMA SrvCloseEventKeeps == ASSUME IInv, NEW c \in Conns, SrvCloseEvent(c) PROVE IInv'
<1> DEFINE ch == [srv[c] EXCEPT !.closes = @ - 1]
<1>1. /\ srv[c] \in Server /\ SrvInv(c) /\ SrvPromise(c, ch) /\ srv[c].closes > 0
      /\ UNCHANGED <<cli, cpool, cpool2, toServer, up, down, airUp, airDown>>
  BY Facts DEF SrvCloseEvent, ClientStays, cpoolVars, lossyVars
<1>2. srv[c].closes - 1 \in Nat /\ srv[c].server_socket_close /\ ~Starting(c)
  BY <1>1 DEF Server, SrvInv
<1>3. ch \in Server
  BY <1>1, <1>2 DEF Server
<1>4. /\ ch.conn = srv[c].conn /\ ch.task = srv[c].task /\ ch.reader = srv[c].reader
      /\ ch.reads = srv[c].reads /\ ch.reasons = srv[c].reasons
      /\ ch.closes = srv[c].closes - 1
      /\ ch.server_socket_close = srv[c].server_socket_close
      /\ ch.client_socket_close = srv[c].client_socket_close
  BY <1>1 DEF Server
<1> HIDE DEF ch
<1> QED BY <1>1, <1>2, <1>3, <1>4, SrvPromiseKeeps

LEMMA kcpCheckCloseKeeps == ASSUME IInv, NEW c \in Conns, kcpCheckClose(c) PROVE IInv'
<1> DEFINE ch == [srv[c] EXCEPT !.server_kcp_close = TRUE]
<1>1. /\ srv[c] \in Server /\ SrvInv(c) /\ SrvPromise(c, ch)
      /\ c \in spool /\ srv[c].server_socket_close
      /\ UNCHANGED <<cli, cpool, cpool2, toServer, up, down, airUp, airDown>>
  BY Facts DEF kcpCheckClose, ClientStays, cpoolVars, lossyVars
<1>2. ch \in Server /\ ~Starting(c)
  BY <1>1 DEF Server, SrvInv
<1>3. /\ ch.conn = srv[c].conn /\ ch.task = srv[c].task /\ ch.reader = srv[c].reader
      /\ ch.reads = srv[c].reads /\ ch.reasons = srv[c].reasons
      /\ ch.closes = srv[c].closes /\ ch.server_kcp_close
      /\ ch.server_socket_close = srv[c].server_socket_close
      /\ ch.client_socket_close = srv[c].client_socket_close
  BY <1>1 DEF Server
<1> HIDE DEF ch
<1> QED BY <1>1, <1>2, <1>3, SrvPromiseKeeps

-----------------------------------------------------------------------------
(* The theorems *)

LEMMA InitInv == Init => IInv
<1> SUFFICES ASSUME Init PROVE IInv
  OBVIOUS
<1>1. TypeOK /\ "server" \notin panicked
  BY DEF Init, TypeOK, NewClient, Client, NewServer, Server, NewStream, Stream, Packet, Packets, Message
<1>2. ASSUME NEW c \in Conns PROVE ChanInv(c)
  <2>1. CliInv(c) /\ SrvInv(c) /\ KnowInv(c)
    BY DEF Init, NewClient, NewServer, NewStream, CliInv, SrvInv, KnowInv, Unborn, Num, Starting,
           Dialed, Reading
  <2>2. MailInv(c)
    BY DEF Init, NewClient, NewServer, MailInv, Unborn, Dialed, OnItsWay, Unique
  <2> QED BY <2>1, <2>2 DEF ChanInv
<1> QED BY <1>1, <1>2 DEF IInv

LEMMA ClientKeeps == ASSUME IInv, NEW c \in Conns, ClientStep(c) PROVE IInv'
BY initConnChannelKeeps, TimerKeeps, CliAckKeeps, CliLateAckKeeps, CliFinKeeps, CliFinNoConvKeeps,
   FinUnknownKeeps, CliReadsKeeps, CliQueuesKeeps, CliReadFailsKeeps, ClientReadyReadKeeps,
   CliCloseEventKeeps, FlushKeeps, RecvKeeps, CliInputKeeps, CliUnknownConvKeeps DEF ClientStep

LEMMA ServerKeeps == ASSUME IInv, NEW c \in Conns, ServerStep(c) PROVE IInv'
BY SrvSynKeeps, SrvPutKeeps, SrvDialedKeeps, SrvDialFailsKeeps, SrvFinKeeps, FinUnknownKeeps,
   SrvReadsKeeps, SrvQueuesKeeps, SrvReadFailsKeeps, ServerReadyReadKeeps, SrvCloseEventKeeps,
   kcpCheckCloseKeeps, FlushKeeps, RecvKeeps, SrvInputKeeps, SrvUnknownConvKeeps DEF ServerStep

LEMMA StutterKeeps == ASSUME IInv, UNCHANGED vars PROVE IInv'
<1>1. /\ UNCHANGED <<cli, srv, cpool, cpool2, spool, spool2, toServer, toClient>>
      /\ UNCHANGED <<up, down, airUp, airDown, faults, panicked>>
  BY DEF vars, cpoolVars, spoolVars, lossyVars
<1>2. TypeOK'
  BY <1>1 DEF IInv, TypeOK
<1>3. ASSUME NEW c \in Conns PROVE ChanInv(c)'
  <2>1. QueueStep(toServer, toServer', c) /\ QueueStep(toClient, toClient', c) /\ QuietQueues(c)
    BY <1>1 DEF QueueStep, QuietQueues
  <2>2. faults' \in Nat
    BY <1>1 DEF IInv, TypeOK
  <2>3. IInv'
    BY <1>1, <2>1, <2>2, MessageStep
  <2> QED BY <2>3 DEF IInv
<1> QED BY <1>1, <1>2, <1>3 DEF IInv

LEMMA StepInv == IInv /\ [Next]_vars => IInv'
<1> SUFFICES ASSUME IInv, [Next]_vars PROVE IInv'
  OBVIOUS
<1>1. CASE LoseToServer \/ LoseToClient
  BY <1>1, LoseKeeps
<1>2. ASSUME NEW c \in Conns,
             Outside(c) \/ ClientStep(c) \/ ServerStep(c) \/ LoseUp(c) \/ LoseDown(c)
      PROVE  IInv'
  BY <1>2, AppConnectsKeeps, AppClosesKeeps, BackendClosesKeeps, ClientKeeps, ServerKeeps,
     LosePacketKeeps DEF Outside
<1>3. CASE UNCHANGED vars
  BY <1>3, StutterKeeps
<1> QED BY <1>1, <1>2, <1>3 DEF Next

LEMMA Invariant == Spec => []IInv
<1> QED BY InitInv, StepInv, PTL DEF Spec

\* The channels, pools, queues and streams have their types, for any number of
\* connections (channel.go:59-86).
THEOREM TunnelTyped == Spec => []TypeOK
<1>1. IInv => TypeOK
  BY DEF IInv
<1> QED BY <1>1, Invariant, PTL

\* The server never panics: neither at a nil conn (tunneld.go:243, 362) nor at
\* "Ooops" (tunneld.go:372) nor at a sixth close reason (channel.go:179), with
\* whatever messages lost, sends failed and packets early, doubled or late.
THEOREM ServerSafe == Spec => []ServerNeverPanics
<1>1. ASSUME IInv, NEW c \in Conns PROVE srv[c].reasons <= 5
  <2>1. srv[c] \in Server /\ SrvInv(c)
    BY <1>1, Facts
  <2>2. srv[c].reasons \in Nat /\ srv[c].closes \in Nat
    BY <2>1 DEF Server
  <2> QED BY <2>1, <2>2 DEF SrvInv, Num
<1>2. IInv => ServerNeverPanics
  BY <1>1 DEF IInv, ServerNeverPanics
<1> QED BY <1>2, Invariant, PTL

\* The client never collects the sixth close reason that would make it panic
\* (channel.go:179).
THEOREM ReasonsFew == Spec => []ClientReasons
<1>1. ASSUME IInv, NEW c \in Conns PROVE cli[c].reasons <= 5
  <2>1. cli[c] \in Client /\ CliInv(c)
    BY <1>1, Facts
  <2>2. cli[c].reasons \in Nat /\ cli[c].closes \in Nat
    BY <2>1 DEF Client
  <2> QED BY <2>1, <2>2 DEF CliInv, Num
<1>2. IInv => ClientReasons
  BY <1>1 DEF ClientReasons
<1> QED BY <1>2, Invariant, PTL

\* No channel leaves the pools of either program with its socket open
\* (channel.go:237-279).
THEOREM SocketsClosed == Spec => []NoSocketLeft
<1>1. ASSUME IInv, NEW c \in Conns
      PROVE  /\ cli[c].conn = "open" => c \in cpool \/ cli[c].newconn
             /\ srv[c].conn = "open" => c \in spool
  BY <1>1, Facts DEF CliInv, SrvInv
<1>2. IInv => NoSocketLeft
  BY <1>1 DEF NoSocketLeft
<1> QED BY <1>2, Invariant, PTL

-----------------------------------------------------------------------------
(* What the two ends know of each other *)

ToClient(cmd, c) == OnItsWay(toClient, Msg(cmd, c))
ToServer(cmd, c) == OnItsWay(toServer, Msg(cmd, c))

\* Every a in the queue is before every b.
Before(queue, a, b) == \A i, j \in DOMAIN queue : queue[i] = a /\ queue[j] = b => i < j

\* A FIN of the server is true, and comes after the ACK.
FinTrue(c) ==
    /\ ToClient("FIN", c) \/ cli[c].server_socket_close => srv[c].server_socket_close
    /\ Before(toClient, Msg("ACK", c), Msg("FIN", c))
    /\ cli[c].closes > 0 => cli[c].client_socket_close
    /\ cli[c].conn_ack_recved /\ c \in cpool => c \in cpool2

\* A FIN of the client is true, unless a packet overtook the ACK.
CloseTrue(c) == "overtake" \notin Faults =>
    (ToServer("FIN", c) \/ srv[c].client_socket_close => c \notin cpool)

\* A client channel that has its ACK, or is to get it, has its server channel.
HasServer(c) == Faults \cap {"overtake", "loss"} = {} =>
    (\/ c \in cpool /\ ToClient("ACK", c)
     \/ c \in cpool2 /\ ~cli[c].client_socket_close /\ ~cli[c].server_socket_close
     => c \in spool \/ ToClient("FIN", c))

\* What has been dialed is announced, and an open server channel has its
\* client's.
HasClient(c) == Faults \cap {"senderr", "loss"} = {} =>
    /\ Dialed(c) /\ c \in cpool => cli[c].conn_ack_recved \/ ToClient("ACK", c)
    /\ c \in spool /\ srv[c].conn = "open" /\ ~srv[c].client_socket_close
       => c \in cpool \/ ToClient("ACK", c) \/ ToServer("FIN", c)

\* Only a failed dial closes a channel that never had a socket.
ClosedDialed(c) == "dial" \notin Faults => (srv[c].server_socket_close => Dialed(c))

PairInv(c) == FinTrue(c) /\ CloseTrue(c) /\ HasServer(c) /\ HasClient(c) /\ ClosedDialed(c)

PairsInv == /\ \A c \in Conns : PairInv(c)
            /\ Faults \subseteq {"overtake"} => "client" \notin panicked
-----------------------------------------------------------------------------
(* Messages of one channel *)

LEMMA TailMail ==
    ASSUME NEW q \in Seq(Message), q # <<>>, NEW a, NEW b
    PROVE  /\ OnItsWay(q, a) /\ a # Head(q) => OnItsWay(Tail(q), a)
           /\ Before(q, a, b) => Before(Tail(q), a, b)
           /\ Before(q, a, b) /\ Head(q) = b => ~OnItsWay(q, a)
<1>1. /\ Head(q) = q[1] /\ 1 \in DOMAIN q /\ DOMAIN q \subseteq Nat \ {0}
      /\ \A i \in DOMAIN Tail(q) : i \in Nat \ {0} /\ i + 1 \in DOMAIN q /\ Tail(q)[i] = q[i + 1]
      /\ \A i \in DOMAIN q \ {1} : i - 1 \in DOMAIN Tail(q) /\ Tail(q)[i - 1] = q[i]
  OBVIOUS
<1>2. OnItsWay(q, a) /\ a # Head(q) => OnItsWay(Tail(q), a)
  BY <1>1 DEF OnItsWay
<1>3. ASSUME Before(q, a, b), NEW i \in DOMAIN Tail(q), NEW j \in DOMAIN Tail(q),
             Tail(q)[i] = a, Tail(q)[j] = b
      PROVE  i < j
  <2>1. i + 1 < j + 1
    BY <1>1, <1>3 DEF Before
  <2> QED BY <1>1, <2>1
<1>4. ASSUME Before(q, a, b), Head(q) = b, NEW i \in DOMAIN q, q[i] = a PROVE FALSE
  <2>1. i < 1
    BY <1>1, <1>4 DEF Before
  <2> QED BY <1>1, <2>1
<1> QED BY <1>2, <1>3, <1>4 DEF Before, OnItsWay

LEMMA AppendMail ==
    ASSUME NEW q \in Seq(Message), NEW n \in Message, NEW a, NEW b
    PROVE  /\ OnItsWay(q, a) => OnItsWay(Append(q, n), a)
           /\ OnItsWay(Append(q, n), n)
           /\ Before(q, a, b) /\ a # b /\ (n = a => ~OnItsWay(q, b)) => Before(Append(q, n), a, b)
<1>1. /\ DOMAIN Append(q, n) = DOMAIN q \cup {Len(q) + 1} /\ Len(q) + 1 \notin DOMAIN q
      /\ \A i \in DOMAIN q : Append(q, n)[i] = q[i] /\ i < Len(q) + 1
      /\ Append(q, n)[Len(q) + 1] = n
  OBVIOUS
<1>2. ASSUME Before(q, a, b), a # b, n = a => ~OnItsWay(q, b),
             NEW i \in DOMAIN Append(q, n), NEW j \in DOMAIN Append(q, n),
             Append(q, n)[i] = a, Append(q, n)[j] = b
      PROVE  i < j
  <2>1. CASE i \in DOMAIN q /\ j \in DOMAIN q
    BY <1>1, <1>2, <2>1 DEF Before
  <2>2. CASE i = Len(q) + 1
    BY <1>1, <1>2, <2>2 DEF OnItsWay
  <2>3. CASE i \in DOMAIN q /\ j = Len(q) + 1
    BY <1>1, <2>3
  <2> QED BY <1>1, <2>1, <2>2, <2>3
<1> QED BY <1>1, <1>2 DEF Before, OnItsWay

\* What a step of channel c does to a queue.
MailStep(q, next, c) ==
    \/ next = q
    \/ q # <<>> /\ next = Tail(q) /\ \E cmd : Head(q) = Msg(cmd, c)
    \/ \E cmd \in {"SYN", "ACK", "FIN"} : next = Append(q, Msg(cmd, c))

InOrder(q, c) == Before(q, Msg("ACK", c), Msg("FIN", c))

LEMMA MailElsewhere ==
    ASSUME NEW q \in Seq(Message), NEW next, NEW c \in Conns, MailStep(q, next, c), NEW d, d # c
    PROVE  /\ \A cmd : OnItsWay(next, Msg(cmd, d)) <=> OnItsWay(q, Msg(cmd, d))
           /\ InOrder(q, d) => InOrder(next, d)
<1>1. Msg("ACK", d) # Msg("FIN", d)
  BY Messages
<1>2. CASE q # <<>> /\ next = Tail(q) /\ \E cmd : Head(q) = Msg(cmd, c)
  <2>1. \A cmd : Msg(cmd, d) # Head(q)
    BY <1>2, Messages
  <2> QED BY <1>2, <2>1, Tails, TailMail DEF InOrder
<1>3. CASE \E k \in {"SYN", "ACK", "FIN"} : next = Append(q, Msg(k, c))
  <2>1. PICK k \in {"SYN", "ACK", "FIN"} : next = Append(q, Msg(k, c))
    BY <1>3
  <2>2. Msg(k, c) \in Message /\ \A cmd : Msg(cmd, d) # Msg(k, c)
    BY Messages
  <2> QED BY <1>1, <2>1, <2>2, Appends, AppendMail DEF InOrder
<1> QED BY <1>2, <1>3 DEF MailStep

\* What a step in which nothing of interest happens to channel d may do.
SameMail(d) ==
    /\ ToServer("FIN", d)' <=> ToServer("FIN", d)
    /\ ToClient("ACK", d)' <=> ToClient("ACK", d)
    /\ ToClient("FIN", d)' <=> ToClient("FIN", d)
    /\ InOrder(toClient, d) => InOrder(toClient', d)

CalmClient(d) ==
    /\ cli[d].client_socket_close => cli'[d].client_socket_close
    /\ cli'[d].server_socket_close = cli[d].server_socket_close
    /\ cli'[d].conn_ack_recved = cli[d].conn_ack_recved
    /\ cli'[d].closes > 0 => cli[d].closes > 0 \/ cli'[d].client_socket_close
    /\ (d \in cpool' <=> d \in cpool) /\ (d \in cpool2' <=> d \in cpool2)

CalmServer(d) ==
    /\ srv[d].server_socket_close => srv'[d].server_socket_close
    /\ srv'[d].server_socket_close => srv[d].server_socket_close \/ Dialed(d) \/ "dial" \in Faults
    /\ srv'[d].client_socket_close = srv[d].client_socket_close
    /\ srv'[d].conn = "none" <=> srv[d].conn = "none"
    /\ d \in spool => d \in spool'
    /\ d \in spool' /\ srv'[d].conn = "open" => d \in spool /\ srv[d].conn = "open"

LEMMA CalmKeeps ==
    ASSUME NEW d \in Conns, PairInv(d), SameMail(d), CalmClient(d), CalmServer(d)
    PROVE  PairInv(d)'
<1>1. FinTrue(d)'
  BY DEF PairInv, FinTrue, SameMail, CalmClient, CalmServer, InOrder
<1>2. CloseTrue(d)'
  BY DEF PairInv, CloseTrue, SameMail, CalmClient, CalmServer
<1>3. HasServer(d)'
  BY DEF PairInv, HasServer, SameMail, CalmClient, CalmServer
<1>4. HasClient(d)'
  BY DEF PairInv, HasClient, SameMail, CalmClient, CalmServer, Dialed
<1>5. ClosedDialed(d)'
  BY DEF PairInv, ClosedDialed, CalmServer, Dialed
<1> QED BY <1>1, <1>2, <1>3, <1>4, <1>5 DEF PairInv

\* A step of channel c leaves the other channels alone.
Apart(c) ==
    /\ \A d \in Conns \ {c} :
          /\ cli'[d] = cli[d] /\ srv'[d] = srv[d]
          /\ (d \in cpool' <=> d \in cpool) /\ (d \in cpool2' <=> d \in cpool2)
          /\ (d \in spool' <=> d \in spool) /\ (d \in spool2' <=> d \in spool2)
    /\ MailStep(toServer, toServer', c) /\ MailStep(toClient, toClient', c)

LEMMA OthersKeep ==
    ASSUME IInv, NEW c \in Conns, Apart(c), NEW d \in Conns \ {c}, PairInv(d)
    PROVE  PairInv(d)'
<1>1. toServer \in Seq(Message) /\ toClient \in Seq(Message)
  BY DEF IInv, TypeOK
<1>2. SameMail(d)
  BY <1>1, MailElsewhere DEF Apart, SameMail, ToServer, ToClient
<1>3. CalmClient(d) /\ CalmServer(d)
  BY DEF Apart, CalmClient, CalmServer
<1> QED BY <1>2, <1>3, CalmKeeps

LEMMA FromServerApart ==
    ASSUME NEW c \in Conns, NEW cmd, FromServer(cmd, c)
    PROVE  MailStep(toClient, toClient', c)
BY DEF FromServer, MailStep

LEMMA FromClientApart ==
    ASSUME NEW c \in Conns, NEW cmd, FromClient(cmd, c)
    PROVE  MailStep(toServer, toServer', c)
BY DEF FromClient, MailStep

LEMMA ClientApart == ASSUME IInv, NEW c \in Conns, ClientStep(c) PROVE Apart(c)
<1>1. cli \in [Conns -> Client]
  BY DEF IInv, TypeOK
<1>2. srv' = srv /\ spool' = spool /\ spool2' = spool2
  BY DEF ClientStep, initConnChannel, clientCheckACKRecved, CliAck, CliLateAck, CliFin, CliFinNoConv,
         CliFinUnknown, CliReads, CliQueues, CliReadFails, processClientReadyRead, CliCloseEvent,
         CliFlush, CliRecv, CliInput, CliUnknownConv, ServerStays, spoolVars
<1>3. ASSUME NEW ch, CliPromise(c, ch)
      PROVE  /\ \A d \in Conns \ {c} : /\ cli'[d] = cli[d]
                                       /\ (d \in cpool' <=> d \in cpool) /\ (d \in cpool2' <=> d \in cpool2)
             /\ MailStep(toServer, toServer', c)
  BY <1>1, <1>3 DEF CliPromise, RmClient, SendErr, SendToServer, MailStep, cpoolVars
<1>4. CASE initConnChannel(c)
  BY <1>1, <1>2, <1>4 DEF initConnChannel, Apart, MailStep, SendToServer, SendErr
<1>5. CASE clientCheckACKRecved(c)
  BY <1>1, <1>2, <1>5 DEF clientCheckACKRecved, Apart, MailStep, RmClient, cpoolVars
<1>6. CASE CliAck(c)
  BY <1>1, <1>2, <1>6, FromServerApart DEF CliAck, Apart, MailStep
<1>7. CASE CliLateAck(c) \/ CliFinUnknown(c)
  BY <1>2, <1>7, FromServerApart
  DEF CliLateAck, CliFinUnknown, Apart, MailStep, SendToServer, SendErr, ClientStays, cpoolVars
<1>8. CASE CliFin(c)
  BY <1>2, <1>3, <1>8, FromServerApart DEF CliFin, Apart
<1>9. CASE CliFinNoConv(c)
  BY <1>2, <1>3, <1>9, FromServerApart DEF CliFinNoConv, Apart
<1>10. CASE CliReads(c) \/ CliQueues(c) \/ CliReadFails(c) \/ processClientReadyRead(c)
  BY <1>1, <1>2, <1>10
  DEF CliReads, CliQueues, CliReadFails, processClientReadyRead, Apart, MailStep, cpoolVars
<1>11. CASE CliCloseEvent(c)
  BY <1>2, <1>3, <1>11 DEF CliCloseEvent, Apart, MailStep
<1>12. CASE CliFlush(c) \/ CliRecv(c) \/ CliInput(c) \/ CliUnknownConv(c)
  BY <1>2, <1>12
  DEF CliFlush, CliRecv, CliInput, CliUnknownConv, Apart, MailStep, SendToServer, SendErr,
      ClientStays, cpoolVars
<1> QED
  BY <1>4, <1>5, <1>6, <1>7, <1>8, <1>9, <1>10, <1>11, <1>12 DEF ClientStep

LEMMA OutsideApart ==
    ASSUME IInv, NEW c \in Conns, Outside(c) \/ LoseUp(c) \/ LoseDown(c) PROVE Apart(c)
<1>1. cli \in [Conns -> Client] /\ srv \in [Conns -> Server]
  BY DEF IInv, TypeOK
<1>2. CASE AppConnects(c) \/ AppCloses(c) \/ BackendCloses(c)
  BY <1>1, <1>2
  DEF AppConnects, AppCloses, BackendCloses, Apart, MailStep, ServerStays, ClientStays, cpoolVars,
      spoolVars
<1>3. CASE LoseUp(c) \/ LoseDown(c)
  BY <1>3 DEF LoseUp, LoseDown, Apart, MailStep, cpoolVars, spoolVars
<1> QED BY <1>2, <1>3 DEF Outside

LEMMA ServerApart == ASSUME IInv, NEW c \in Conns, ServerStep(c) PROVE Apart(c)
<1>1. srv \in [Conns -> Server]
  BY DEF IInv, TypeOK
<1>2. cli' = cli /\ cpool' = cpool /\ cpool2' = cpool2
  BY DEF ServerStep, SrvSyn, SrvPut, SrvDialed, SrvDialFails, SrvFin, SrvFinUnknown, SrvReads,
         SrvQueues, SrvReadFails, processServerReadyRead, SrvCloseEvent, kcpCheckClose, SrvFlush,
         SrvRecv, SrvInput, SrvUnknownConv, ClientStays, cpoolVars
<1>3. ASSUME NEW ch, SrvPromise(c, ch)
      PROVE  /\ \A d \in Conns \ {c} : /\ srv'[d] = srv[d]
                                       /\ (d \in spool' <=> d \in spool) /\ (d \in spool2' <=> d \in spool2)
             /\ MailStep(toClient, toClient', c)
  BY <1>1, <1>3 DEF SrvPromise, RmServer, SendErr, SendToClient, MailStep, spoolVars
<1>4. CASE SrvSyn(c)
  BY <1>1, <1>2, <1>4, FromClientApart DEF SrvSyn, Apart, MailStep, spoolVars
<1>5. CASE SrvPut(c) \/ SrvDialFails(c)
  BY <1>1, <1>2, <1>5 DEF SrvPut, SrvDialFails, Apart, MailStep, spoolVars
<1>6. CASE SrvDialed(c)
  BY <1>1, <1>2, <1>6 DEF SrvDialed, Apart, MailStep, spoolVars, SendToClient, SendErr
<1>7. CASE SrvFin(c)
  BY <1>2, <1>3, <1>7, FromClientApart DEF SrvFin, Apart
<1>8. CASE SrvFinUnknown(c)
  BY <1>2, <1>8, FromClientApart DEF SrvFinUnknown, Apart, MailStep, ServerStays, spoolVars
<1>9. CASE SrvReads(c) \/ SrvQueues(c) \/ SrvReadFails(c) \/ processServerReadyRead(c)
  BY <1>1, <1>2, <1>9
  DEF SrvReads, SrvQueues, SrvReadFails, processServerReadyRead, Apart, MailStep, spoolVars
<1>10. CASE SrvCloseEvent(c)
  BY <1>2, <1>3, <1>10 DEF SrvCloseEvent, Apart, MailStep
<1>11. CASE kcpCheckClose(c)
  BY <1>2, <1>3, <1>11 DEF kcpCheckClose, Apart, MailStep
<1>12. CASE SrvFlush(c) \/ SrvRecv(c) \/ SrvInput(c) \/ SrvUnknownConv(c)
  BY <1>2, <1>12
  DEF SrvFlush, SrvRecv, SrvInput, SrvUnknownConv, Apart, MailStep, ServerStays, spoolVars
<1> QED
  BY <1>4, <1>5, <1>6, <1>7, <1>8, <1>9, <1>10, <1>11, <1>12 DEF ServerStep

-----------------------------------------------------------------------------
(* The steps of a channel *)

LEMMA StillMail ==
    ASSUME NEW c \in Conns, UNCHANGED <<toServer, toClient>> PROVE SameMail(c)
BY DEF SameMail, ToServer, ToClient

LEMMA StillClient == ASSUME NEW c \in Conns, ClientStays PROVE CalmClient(c)
BY DEF ClientStays, cpoolVars, CalmClient

LEMMA StillServer == ASSUME NEW c \in Conns, ServerStays PROVE CalmServer(c)
BY DEF ServerStays, spoolVars, CalmServer

\* What happens outside the two programs and in the lossy packets.
CalmOutside(c) ==
    \/ Outside(c) \/ LoseUp(c) \/ LoseDown(c) \/ CliFlush(c) \/ CliRecv(c) \/ CliInput(c)
    \/ SrvFlush(c) \/ SrvRecv(c) \/ SrvInput(c) \/ SrvUnknownConv(c)

LEMMA OutsidePairs ==
    ASSUME IInv, NEW c \in Conns, PairInv(c), CalmOutside(c)
    PROVE  PairInv(c)' /\ panicked' \subseteq panicked \cup {"server"}
<1>1. cli \in [Conns -> Client] /\ srv \in [Conns -> Server] /\ cli[c] \in Client /\ srv[c] \in Server
  BY Facts
<1>2. CASE AppConnects(c) \/ AppCloses(c)
  <2>1. CalmClient(c)
    BY <1>1, <1>2 DEF AppConnects, AppCloses, CalmClient, cpoolVars, Client
  <2>2. ServerStays /\ UNCHANGED <<toServer, toClient, panicked>>
    BY <1>2 DEF AppConnects, AppCloses
  <2> QED BY <2>1, <2>2, StillServer, StillMail, CalmKeeps
<1>3. CASE BackendCloses(c)
  <2>1. CalmServer(c)
    BY <1>1, <1>3 DEF BackendCloses, CalmServer, spoolVars, Server
  <2>2. ClientStays /\ UNCHANGED <<toServer, toClient, panicked>>
    BY <1>3 DEF BackendCloses
  <2> QED BY <2>1, <2>2, StillClient, StillMail, CalmKeeps
<1>4. CASE LoseUp(c) \/ LoseDown(c)
  <2>1. ClientStays /\ ServerStays /\ UNCHANGED <<toServer, toClient, panicked>>
    BY <1>4 DEF LoseUp, LoseDown, ClientStays, ServerStays
  <2> QED BY <2>1, StillClient, StillServer, StillMail, CalmKeeps
<1>5. CASE \/ CliFlush(c) \/ CliRecv(c) \/ CliInput(c)
           \/ SrvFlush(c) \/ SrvRecv(c) \/ SrvInput(c) \/ SrvUnknownConv(c)
  <2>1. /\ ClientStays /\ ServerStays /\ UNCHANGED <<toServer, toClient>>
        /\ panicked' \subseteq panicked \cup {"server"}
    BY <1>5 DEF CliFlush, CliRecv, CliInput, SrvFlush, SrvRecv, SrvInput, SrvUnknownConv
  <2> QED BY <2>1, StillClient, StillServer, StillMail, CalmKeeps
<1> QED BY <1>2, <1>3, <1>4, <1>5 DEF CalmOutside, Outside

\* The readers' steps and what the loops do with data.
LEMMA ReaderPairs ==
    ASSUME IInv, NEW c \in Conns, PairInv(c),
           \/ CliReads(c) \/ CliQueues(c) \/ CliReadFails(c) \/ processClientReadyRead(c)
           \/ SrvReads(c) \/ SrvQueues(c) \/ SrvReadFails(c) \/ processServerReadyRead(c)
    PROVE  PairInv(c)' /\ panicked' = panicked
<1>1. /\ cli \in [Conns -> Client] /\ srv \in [Conns -> Server] /\ cli[c] \in Client /\ srv[c] \in Server
      /\ SrvInv(c)
  BY Facts
<1>2. CASE CliReads(c) \/ CliQueues(c) \/ CliReadFails(c) \/ processClientReadyRead(c)
  <2>1. CalmClient(c)
    BY <1>1, <1>2
    DEF CliReads, CliQueues, CliReadFails, processClientReadyRead, CalmClient, cpoolVars, Client
  <2>2. ServerStays /\ UNCHANGED <<toServer, toClient, panicked>>
    BY <1>2 DEF CliReads, CliQueues, CliReadFails, processClientReadyRead
  <2> QED BY <2>1, <2>2, StillServer, StillMail, CalmKeeps
<1>3. CASE SrvReads(c) \/ SrvQueues(c) \/ SrvReadFails(c) \/ processServerReadyRead(c)
  <2>1. CalmServer(c)
    BY <1>1, <1>3
    DEF SrvReads, SrvQueues, SrvReadFails, processServerReadyRead, CalmServer, spoolVars, Server,
        SrvInv, Dialed
  <2>2. ClientStays /\ UNCHANGED <<toServer, toClient, panicked>>
    BY <1>3 DEF SrvReads, SrvQueues, SrvReadFails, processServerReadyRead
  <2> QED BY <2>1, <2>2, StillClient, StillMail, CalmKeeps
<1> QED BY <1>2, <1>3

\* Before the dial has ended.
LEMMA StartPairs ==
    ASSUME IInv, NEW c \in Conns, PairInv(c), SrvSyn(c) \/ SrvPut(c) \/ SrvDialFails(c)
    PROVE  PairInv(c)' /\ panicked' = panicked
<1>1. srv \in [Conns -> Server] /\ srv[c] \in Server /\ SrvInv(c) /\ toServer \in Seq(Message)
  BY Facts DEF IInv, TypeOK
<1>2. CASE SrvSyn(c)
  <2>1. /\ CalmServer(c) /\ ClientStays /\ UNCHANGED <<toClient, panicked>>
        /\ toServer # <<>> /\ Head(toServer) = Msg("SYN", c) /\ toServer' = Tail(toServer)
    BY <1>1, <1>2 DEF SrvSyn, CalmServer, spoolVars, Server, FromClient
  <2>2. Msg("FIN", c) # Head(toServer)
    BY <2>1, Messages
  <2>3. SameMail(c)
    BY <1>1, <2>1, <2>2, Tails, TailMail DEF SameMail, ToServer, ToClient
  <2> QED BY <2>1, <2>3, StillClient, CalmKeeps
<1>3. CASE SrvPut(c) \/ SrvDialFails(c)
  <2>1. CalmServer(c)
    <3>1. srv[c].conn = "none"
      BY <1>1, <1>3 DEF SrvPut, SrvDialFails, SrvInv, Starting, Dialed
    <3>2. CASE SrvPut(c)
      BY <1>1, <3>1, <3>2 DEF SrvPut, CalmServer, Server
    <3>3. CASE SrvDialFails(c)
      BY <1>1, <3>1, <3>3 DEF SrvDialFails, CalmServer, spoolVars, Server
    <3> QED BY <1>3, <3>2, <3>3
  <2>2. ClientStays /\ UNCHANGED <<toServer, toClient, panicked>>
    BY <1>3 DEF SrvPut, SrvDialFails
  <2> QED BY <2>1, <2>2, StillClient, StillMail, CalmKeeps
<1> QED BY <1>2, <1>3

LEMMA TakenFromServer ==
    ASSUME IInv, NEW c \in Conns, NEW cmd \in {"ACK", "FIN"}, FromServer(cmd, c)
    PROVE  /\ ToClient(cmd, c)
           /\ cmd = "ACK" => ~ToClient("ACK", c)' /\ (ToClient("FIN", c)' <=> ToClient("FIN", c))
           /\ cmd = "FIN" => (ToClient("ACK", c)' <=> ToClient("ACK", c))
           /\ ToClient("FIN", c)' => ToClient("FIN", c)
           /\ InOrder(toClient, c) => InOrder(toClient', c)
           /\ cmd = "FIN" /\ InOrder(toClient, c) => ~ToClient("ACK", c)
<1>1. /\ toClient \in Seq(Message) /\ toClient # <<>> /\ toClient' = Tail(toClient)
      /\ Head(toClient) = Msg(cmd, c) /\ Unique(toClient, Msg("ACK", c))
  BY Facts DEF IInv, TypeOK, FromServer, MailInv
<1>2. Msg("FIN", c) # Msg("ACK", c)
  BY Messages
<1> QED BY <1>1, <1>2, Tails, TailMail DEF ToClient, InOrder

LEMMA SentToServer ==
    ASSUME IInv, NEW c \in Conns, SendToServer(Msg("FIN", c)) PROVE ToServer("FIN", c)'
<1>1. toServer \in Seq(Message) /\ Msg("FIN", c) \in Message
  BY Messages DEF IInv, TypeOK
<1> QED BY <1>1, AppendMail DEF SendToServer, ToServer

LEMMA initConnChannelPairs ==
    ASSUME IInv, NEW c \in Conns, PairInv(c), initConnChannel(c)
    PROVE  PairInv(c)' /\ panicked' = panicked
<1>1. /\ cli \in [Conns -> Client] /\ cli[c] \in Client /\ SrvInv(c) /\ MailInv(c) /\ KnowInv(c)
      /\ Unborn(c) /\ toServer \in Seq(Message)
  BY Facts DEF initConnChannel, IInv, TypeOK, Unborn
<1>2. /\ ~Dialed(c) /\ ~srv[c].client_socket_close /\ ~ToServer("FIN", c) /\ ~ToClient("ACK", c)
      /\ ~cli[c].conn_ack_recved
  BY <1>1, UnbornIdle DEF SrvInv, MailInv, KnowInv, Starting, ToServer, ToClient
<1>3. /\ ServerStays /\ UNCHANGED <<cpool2, toClient, panicked>> /\ CalmServer(c)
      /\ cli'[c].client_socket_close = cli[c].client_socket_close
      /\ cli'[c].server_socket_close = cli[c].server_socket_close
      /\ cli'[c].conn_ack_recved = cli[c].conn_ack_recved
      /\ cli'[c].closes = cli[c].closes
  BY <1>1, StillServer DEF initConnChannel, Client
<1>4. ~ToServer("FIN", c)'
  <2>1. CASE toServer' = Append(toServer, Msg("SYN", c))
    BY <1>1, <1>2, <2>1, Messages, Appends DEF ToServer
  <2>2. CASE toServer' = toServer
    BY <1>2, <2>2 DEF ToServer
  <2> QED BY <2>1, <2>2 DEF initConnChannel, SendToServer, SendErr
<1>5. UNCHANGED srv /\ UNCHANGED spool
  BY <1>3 DEF ServerStays, spoolVars
<1>6. FinTrue(c)'
  BY <1>2, <1>3, <1>5 DEF PairInv, FinTrue, ToClient
<1>7. CloseTrue(c)'
  BY <1>2, <1>4, <1>5 DEF CloseTrue
<1>8. HasServer(c)'
  BY <1>2, <1>3, <1>5 DEF PairInv, HasServer, ToClient
<1>9. HasClient(c)'
  BY <1>2, <1>5 DEF HasClient, Dialed
<1>10. ClosedDialed(c)'
  BY <1>5 DEF PairInv, ClosedDialed, Dialed
<1> QED BY <1>3, <1>6, <1>7, <1>8, <1>9, <1>10 DEF PairInv

LEMMA TimerPairs ==
    ASSUME IInv, NEW c \in Conns, PairInv(c), clientCheckACKRecved(c)
    PROVE  PairInv(c)' /\ panicked' = panicked
<1>1. cli \in [Conns -> Client] /\ cli[c] \in Client /\ SrvInv(c)
  BY Facts
<1>2. /\ ServerStays /\ UNCHANGED <<toServer, toClient, panicked>>
      /\ CalmServer(c) /\ SameMail(c) /\ UNCHANGED srv /\ UNCHANGED spool
  BY StillServer, StillMail DEF clientCheckACKRecved, ServerStays, spoolVars
<1>3. CASE c \in cpool /\ ~cli[c].conn_ack_recved
  <2>1. /\ c \notin cpool' /\ c \notin cpool2'
        /\ cli'[c].client_socket_close = cli[c].client_socket_close
        /\ cli'[c].server_socket_close = cli[c].server_socket_close
        /\ cli'[c].conn_ack_recved = cli[c].conn_ack_recved
        /\ cli'[c].closes = cli[c].closes
    BY <1>1, <1>3 DEF clientCheckACKRecved, RmClient, Client
  <2>2. FinTrue(c)' /\ CloseTrue(c)' /\ HasServer(c)' /\ ClosedDialed(c)'
    BY <1>2, <2>1
    DEF PairInv, FinTrue, CloseTrue, HasServer, ClosedDialed, Dialed, SameMail, ToClient
  <2>3. HasClient(c)'
    BY <1>2, <1>3, <2>1 DEF PairInv, HasClient, Dialed, SameMail
  <2> QED BY <1>2, <2>2, <2>3 DEF PairInv
<1>4. CASE ~(c \in cpool /\ ~cli[c].conn_ack_recved)
  <2>1. CalmClient(c)
    BY <1>1, <1>4 DEF clientCheckACKRecved, CalmClient, cpoolVars, Client
  <2> QED BY <1>2, <2>1, CalmKeeps
<1> QED BY <1>3, <1>4

LEMMA CliAckPairs ==
    ASSUME IInv, NEW c \in Conns, PairInv(c), CliAck(c)
    PROVE  PairInv(c)' /\ panicked' = panicked
<1>1. cli \in [Conns -> Client] /\ cli[c] \in Client
  BY Facts
<1>2. /\ UNCHANGED <<srv, spool, toServer, panicked, cpool>> /\ c \in cpool /\ c \in cpool2'
      /\ cli'[c].client_socket_close = cli[c].client_socket_close
      /\ cli'[c].server_socket_close = cli[c].server_socket_close
      /\ cli'[c].conn_ack_recved
      /\ cli'[c].closes = cli[c].closes
  BY <1>1 DEF CliAck, ServerStays, spoolVars, Client
<1>3. /\ ToClient("ACK", c) /\ ~ToClient("ACK", c)' /\ (ToClient("FIN", c)' <=> ToClient("FIN", c))
      /\ InOrder(toClient, c) => InOrder(toClient', c)
  BY TakenFromServer DEF CliAck
<1>4. FinTrue(c)' /\ CloseTrue(c)' /\ ClosedDialed(c)'
  BY <1>2, <1>3 DEF PairInv, FinTrue, CloseTrue, ClosedDialed, Dialed, InOrder, ToServer
<1>5. HasServer(c)'
  BY <1>2, <1>3 DEF PairInv, HasServer
<1>6. HasClient(c)'
  BY <1>2 DEF HasClient
<1> QED BY <1>2, <1>4, <1>5, <1>6 DEF PairInv

\* A message of the server that finds no channel, or a packet that does.
LEMMA LatePairs ==
    ASSUME IInv, NEW c \in Conns, PairInv(c), CliLateAck(c) \/ CliFinUnknown(c) \/ CliUnknownConv(c)
    PROVE  PairInv(c)' /\ panicked' = panicked
<1>1. /\ UNCHANGED <<cli, srv, spool, cpool, cpool2, panicked>> /\ c \notin cpool2 /\ CliInv(c)
  BY Facts
  DEF CliLateAck, CliFinUnknown, CliUnknownConv, ServerStays, ClientStays, spoolVars, cpoolVars, CliInv
<1>2. /\ toServer \in Seq(Message) /\ Msg("FIN", c) \in Message
  BY Messages DEF IInv, TypeOK
<1>3. CASE CliLateAck(c)
  <2>1. /\ c \notin cpool /\ ~ToClient("ACK", c)' /\ (ToClient("FIN", c)' <=> ToClient("FIN", c))
        /\ InOrder(toClient, c) => InOrder(toClient', c)
    BY <1>3, TakenFromServer DEF CliLateAck
  <2>2. ToServer("FIN", c)' \/ "senderr" \in Faults
    BY <1>3, SentToServer DEF CliLateAck, SendErr, Fault
  <2>3. FinTrue(c)' /\ CloseTrue(c)' /\ ClosedDialed(c)' /\ HasServer(c)'
    BY <1>1, <2>1 DEF PairInv, FinTrue, CloseTrue, ClosedDialed, HasServer, Dialed, InOrder
  <2>4. HasClient(c)'
    BY <1>1, <2>1, <2>2 DEF HasClient
  <2> QED BY <1>1, <2>3, <2>4 DEF PairInv
<1>4. CASE CliFinUnknown(c)
  <2>1. /\ c \notin cpool /\ (ToClient("ACK", c)' <=> ToClient("ACK", c))
        /\ (ToClient("FIN", c)' => ToClient("FIN", c)) /\ toServer' = toServer
        /\ InOrder(toClient, c) => InOrder(toClient', c)
    BY <1>4, TakenFromServer DEF CliFinUnknown
  <2>2. FinTrue(c)' /\ CloseTrue(c)' /\ ClosedDialed(c)' /\ HasServer(c)'
    BY <1>1, <2>1 DEF PairInv, FinTrue, CloseTrue, ClosedDialed, HasServer, Dialed, InOrder
  <2>3. HasClient(c)'
    BY <1>1, <2>1 DEF PairInv, HasClient, ToServer
  <2> QED BY <1>1, <2>2, <2>3 DEF PairInv
<1>5. CASE CliUnknownConv(c)
  <2>1. toClient' = toClient /\ (c \in cpool => "overtake" \in Faults)
    BY <1>5 DEF CliUnknownConv
  <2>2. ToServer("FIN", c) => ToServer("FIN", c)'
    BY <1>2, <1>5, AppendMail DEF CliUnknownConv, SendToServer, SendErr, ToServer
  <2>3. FinTrue(c)' /\ CloseTrue(c)' /\ ClosedDialed(c)' /\ HasServer(c)'
    BY <1>1, <2>1 DEF PairInv, FinTrue, CloseTrue, ClosedDialed, HasServer, Dialed, ToClient
  <2>4. HasClient(c)'
    BY <1>1, <2>1, <2>2 DEF PairInv, HasClient, ToClient, Dialed
  <2> QED BY <1>1, <2>3, <2>4 DEF PairInv
<1> QED BY <1>3, <1>4, <1>5

\* What the client's promiseChannelClose comes to.
Left(c)  == c \notin cpool' /\ c \notin cpool2'
Kept(c)  == UNCHANGED <<cpool, cpool2, toServer>>

LEMMA CliPromiseDone ==
    ASSUME IInv, NEW c \in Conns, NEW ch \in Client, CliPromise(c, ch)
    PROVE  /\ cli'[c].server_socket_close = ch.server_socket_close
           /\ cli'[c].conn_ack_recved = ch.conn_ack_recved
           /\ cli'[c].closes = ch.closes
           /\ ch.client_socket_close \/ ch.server_socket_close => cli'[c].client_socket_close
           /\ \/ Kept(c) /\ ch.client_socket_close /\ "senderr" \in Faults /\ panicked' = panicked
              \/ Left(c) /\ ch.client_socket_close /\ ToServer("FIN", c)' /\ panicked' = panicked
              \/ Left(c) /\ ch.server_socket_close /\ toServer' = toServer /\ panicked' = panicked
              \/ Kept(c) /\ ch.server_socket_close /\ panicked' = panicked
              \/ Kept(c) /\ ~ch.client_socket_close /\ ~ch.server_socket_close
<1>1. cli \in [Conns -> Client]
  BY Facts
<1>2. CASE /\ ch.client_socket_close /\ ~ch.server_socket_close /\ SendErr(toServer)
           /\ cli' = [cli EXCEPT ![c] = ch] /\ UNCHANGED cpoolVars /\ UNCHANGED panicked
  <2>1. cli'[c] = ch /\ ch.client_socket_close = TRUE
    BY <1>1, <1>2 DEF Client
  <2> QED BY <1>2, <2>1 DEF SendErr, Fault, Kept, cpoolVars
<1>3. CASE /\ ch.client_socket_close /\ ~ch.server_socket_close /\ SendToServer(Msg("FIN", c))
           /\ cli' = [cli EXCEPT ![c] = [ch EXCEPT !.reasons = @ + 1]] /\ RmClient(c) /\ UNCHANGED panicked
  <2>1. cli'[c] = [ch EXCEPT !.reasons = @ + 1] /\ ch.client_socket_close = TRUE
    BY <1>1, <1>3 DEF Client
  <2>2. ToServer("FIN", c)' /\ Left(c)
    BY <1>3, SentToServer DEF RmClient, Left
  <2> QED BY <1>3, <2>1, <2>2 DEF Client
<1>4. CASE /\ ch.client_socket_close /\ ch.server_socket_close
           /\ cli' = [cli EXCEPT ![c] = [ch EXCEPT !.reasons = @ + 1]]
           /\ RmClient(c) /\ UNCHANGED <<toServer, faults, panicked>>
  <2>1. cli'[c] = [ch EXCEPT !.reasons = @ + 1] /\ ch.client_socket_close = TRUE
    BY <1>1, <1>4 DEF Client
  <2>2. /\ cli'[c].server_socket_close = ch.server_socket_close
        /\ cli'[c].conn_ack_recved = ch.conn_ack_recved /\ cli'[c].closes = ch.closes
        /\ cli'[c].client_socket_close = TRUE
    BY <2>1 DEF Client
  <2>3. Left(c) /\ toServer' = toServer /\ panicked' = panicked
    BY <1>4 DEF RmClient, Left
  <2> QED BY <1>4, <2>2, <2>3
<1>5. CASE /\ ~ch.client_socket_close /\ ch.server_socket_close
           /\ cli' = [cli EXCEPT ![c] = [ch EXCEPT !.reasons = @ + 1, !.conn = "shut",
                                                   !.client_socket_close = TRUE]]
           /\ UNCHANGED <<cpoolVars, toServer, faults, panicked>>
  <2>1. /\ cli'[c] = [ch EXCEPT !.reasons = @ + 1, !.conn = "shut", !.client_socket_close = TRUE]
        /\ ch.server_socket_close = TRUE
    BY <1>1, <1>5 DEF Client
  <2>2. /\ cli'[c].server_socket_close = ch.server_socket_close
        /\ cli'[c].conn_ack_recved = ch.conn_ack_recved /\ cli'[c].closes = ch.closes
        /\ cli'[c].client_socket_close = TRUE
    BY <2>1 DEF Client
  <2>3. Kept(c) /\ panicked' = panicked
    BY <1>5 DEF Kept, cpoolVars
  <2> QED BY <1>5, <2>2, <2>3
<1>6. CASE /\ ~ch.client_socket_close /\ ~ch.server_socket_close
           /\ cli' = [cli EXCEPT ![c] = ch] /\ UNCHANGED <<cpoolVars, toServer, faults>>
  <2>1. cli'[c] = ch /\ ch.client_socket_close = FALSE /\ ch.server_socket_close = FALSE
    BY <1>1, <1>6 DEF Client
  <2> QED BY <1>6, <2>1 DEF Kept, cpoolVars
<1> QED BY <1>2, <1>3, <1>4, <1>5, <1>6 DEF CliPromise

\* The client forgets the channel.
LEMMA LeftPairs ==
    ASSUME NEW c \in Conns, PairInv(c), Left(c), UNCHANGED <<srv, spool>>,
           cli'[c].server_socket_close => srv[c].server_socket_close,
           cli'[c].closes > 0 => cli'[c].client_socket_close,
           ToClient("FIN", c)' => ToClient("FIN", c), InOrder(toClient', c),
           srv[c].conn = "open" => ToServer("FIN", c)'
    PROVE  PairInv(c)'
<1>1. FinTrue(c)' /\ CloseTrue(c)' /\ ClosedDialed(c)' /\ HasServer(c)'
  BY DEF PairInv, FinTrue, CloseTrue, ClosedDialed, HasServer, Left, Dialed, InOrder
<1>2. HasClient(c)'
  BY DEF HasClient, Left
<1> QED BY <1>1, <1>2 DEF PairInv

\* It keeps it, and is closing it, or it has no conv yet.
LEMMA KeptPairs ==
    ASSUME NEW c \in Conns, PairInv(c), Kept(c), UNCHANGED <<srv, spool>>,
           cli'[c].server_socket_close => srv[c].server_socket_close,
           cli'[c].conn_ack_recved = cli[c].conn_ack_recved,
           cli'[c].closes > 0 => cli'[c].client_socket_close,
           cli'[c].client_socket_close \/ c \notin cpool2,
           ToClient("ACK", c)' <=> ToClient("ACK", c),
           ToClient("FIN", c)' => ToClient("FIN", c), InOrder(toClient', c),
           ToClient("ACK", c) => (ToClient("FIN", c)' <=> ToClient("FIN", c))
    PROVE  PairInv(c)'
<1>1. FinTrue(c)' /\ CloseTrue(c)' /\ ClosedDialed(c)'
  BY DEF PairInv, FinTrue, CloseTrue, ClosedDialed, Kept, Dialed, InOrder, ToServer
<1>2. HasServer(c)'
  BY DEF PairInv, HasServer, Kept
<1>3. HasClient(c)'
  BY DEF PairInv, HasClient, Kept, ToServer, Dialed
<1> QED BY <1>1, <1>2, <1>3 DEF PairInv

LEMMA CliFinPairs ==
    ASSUME IInv, NEW c \in Conns, PairInv(c), CliFin(c) PROVE PairInv(c)' /\ panicked' = panicked
<1> DEFINE ch == [cli[c] EXCEPT !.server_socket_close = TRUE]
<1>1. /\ cli[c] \in Client /\ SrvInv(c) /\ CliPromise(c, ch) /\ UNCHANGED <<srv, spool>>
  BY Facts DEF CliFin, ServerStays, spoolVars
<1>2. /\ ch \in Client /\ ch.server_socket_close = TRUE
      /\ ch.conn_ack_recved = cli[c].conn_ack_recved /\ ch.closes = cli[c].closes
  BY <1>1 DEF Client
<1> HIDE DEF ch
<1>3. /\ ToClient("FIN", c) /\ (ToClient("ACK", c)' <=> ToClient("ACK", c)) /\ InOrder(toClient', c)
      /\ ~ToClient("ACK", c)
  BY TakenFromServer DEF CliFin, PairInv, FinTrue, InOrder
<1>4. srv[c].server_socket_close /\ srv[c].conn # "open"
  BY <1>1, <1>3 DEF PairInv, FinTrue, SrvInv
<1>5. /\ cli'[c].conn_ack_recved = cli[c].conn_ack_recved /\ cli'[c].client_socket_close
      /\ panicked' = panicked /\ (Kept(c) \/ Left(c))
  BY <1>1, <1>2, CliPromiseDone
<1> QED BY <1>1, <1>3, <1>4, <1>5, LeftPairs, KeptPairs

LEMMA CliFinNoConvPairs ==
    ASSUME IInv, NEW c \in Conns, PairInv(c), CliFinNoConv(c)
    PROVE  PairInv(c)' /\ ~(Faults \subseteq {"overtake"})
<1>1. /\ cli[c] \in Client /\ SrvInv(c) /\ CliPromise(c, cli[c]) /\ UNCHANGED <<srv, spool>>
      /\ c \notin cpool2 /\ c \in cpool
  BY Facts DEF CliFinNoConv, ServerStays, spoolVars
<1>2. /\ ToClient("FIN", c) /\ (ToClient("ACK", c)' <=> ToClient("ACK", c)) /\ InOrder(toClient', c)
      /\ ~ToClient("ACK", c)
  BY TakenFromServer DEF CliFinNoConv, PairInv, FinTrue, InOrder
<1>3. srv[c].server_socket_close /\ srv[c].conn # "open"
  BY <1>1, <1>2 DEF PairInv, FinTrue, SrvInv
<1>4. /\ cli'[c].conn_ack_recved = cli[c].conn_ack_recved /\ cli'[c].closes = cli[c].closes
      /\ cli[c].client_socket_close => cli'[c].client_socket_close
      /\ Kept(c) \/ Left(c)
  BY <1>1, CliPromiseDone
<1>5. cli'[c].closes > 0 => cli'[c].client_socket_close
  BY <1>4 DEF PairInv, FinTrue
<1>6. PairInv(c)'
  BY <1>1, <1>2, <1>3, <1>4, <1>5, LeftPairs, KeptPairs
\* Without a failed send, lost message or failed dial the channel has been
\* dialed and its ACK is behind the FIN: it is not.
<1>7. ASSUME Faults \subseteq {"overtake"} PROVE FALSE
  <2>1. "dial" \notin Faults /\ Faults \cap {"senderr", "loss"} = {}
    BY <1>7
  <2>2. cli[c].conn_ack_recved
    BY <1>1, <1>2, <1>3, <2>1 DEF PairInv, ClosedDialed, HasClient
  <2> QED BY <1>1, <2>2 DEF PairInv, FinTrue
<1> QED BY <1>6, <1>7

LEMMA CliCloseEventPairs ==
    ASSUME IInv, NEW c \in Conns, PairInv(c), CliCloseEvent(c) PROVE PairInv(c)' /\ panicked' = panicked
<1> DEFINE ch == [cli[c] EXCEPT !.closes = @ - 1]
<1>1. /\ cli[c] \in Client /\ SrvInv(c) /\ CliPromise(c, ch) /\ UNCHANGED <<srv, spool, toClient>>
      /\ cli[c].closes > 0
  BY Facts DEF CliCloseEvent, ServerStays, spoolVars
<1>2. cli[c].client_socket_close = TRUE /\ cli[c].closes - 1 \in Nat
  BY <1>1 DEF PairInv, FinTrue, Client
<1>3. /\ ch \in Client /\ ch.client_socket_close = TRUE
      /\ ch.server_socket_close = cli[c].server_socket_close
      /\ ch.conn_ack_recved = cli[c].conn_ack_recved
  BY <1>1, <1>2 DEF Client
<1> HIDE DEF ch
<1>4. /\ cli'[c].conn_ack_recved = cli[c].conn_ack_recved /\ cli'[c].client_socket_close
      /\ cli'[c].server_socket_close => cli[c].server_socket_close
      /\ panicked' = panicked
      /\ Kept(c) \/ (Left(c) /\ (ToServer("FIN", c)' \/ cli[c].server_socket_close))
  BY <1>1, <1>3, CliPromiseDone
<1>5. /\ ToClient("ACK", c)' <=> ToClient("ACK", c)
      /\ ToClient("FIN", c)' <=> ToClient("FIN", c)
      /\ InOrder(toClient', c)
      /\ cli[c].server_socket_close => srv[c].server_socket_close /\ srv[c].conn # "open"
  BY <1>1 DEF PairInv, FinTrue, InOrder, ToClient, SrvInv
<1> QED BY <1>1, <1>4, <1>5, LeftPairs, KeptPairs

\* A FIN of the server goes behind what is on its way.
LEMMA SentToClient ==
    ASSUME IInv, NEW c \in Conns, PairInv(c), NEW cmd \in {"ACK", "FIN"}, SendToClient(Msg(cmd, c)),
           cmd = "ACK" => ~ToClient("FIN", c)
    PROVE  /\ ToClient(cmd, c)' /\ InOrder(toClient', c)
           /\ ToClient("ACK", c) => ToClient("ACK", c)'
           /\ ToClient("FIN", c) => ToClient("FIN", c)'
           /\ cmd = "ACK" => ~ToClient("FIN", c)'
<1>1. /\ toClient \in Seq(Message) /\ Msg(cmd, c) \in Message /\ toClient' = Append(toClient, Msg(cmd, c))
      /\ InOrder(toClient, c)
  BY Messages DEF IInv, TypeOK, SendToClient, PairInv, FinTrue, InOrder
<1>2. /\ Msg("FIN", c) # Msg("ACK", c)
      /\ Msg(cmd, c) = Msg("ACK", c) => cmd = "ACK"
      /\ cmd = "ACK" => Msg(cmd, c) # Msg("FIN", c)
  BY Messages
<1> QED BY <1>1, <1>2, AppendMail, Appends DEF ToClient, InOrder

LEMMA SrvPromiseDone ==
    ASSUME IInv, NEW c \in Conns, PairInv(c), NEW ch \in Server, SrvPromise(c, ch),
           ch.server_socket_close \/ ch.client_socket_close
    PROVE  /\ srv'[c].client_socket_close = ch.client_socket_close
           /\ srv'[c].server_socket_close
           /\ \/ srv'[c].conn = ch.conn
              \/ ~ch.server_socket_close /\ ch.client_socket_close /\ srv'[c].conn = "shut"
           /\ panicked' \subseteq panicked \cup {"server"}
           /\ \/ spool' = spool /\ toClient' = toClient
              \/ c \notin spool' /\ SendToClient(Msg("FIN", c))
              \/ c \notin spool' /\ ch.client_socket_close /\ toClient' = toClient
<1>1. srv \in [Conns -> Server]
  BY Facts
<1>2. CASE /\ ch.server_socket_close /\ ch.server_kcp_close /\ ~ch.client_socket_close /\ SendErr(toClient)
           /\ srv' = [srv EXCEPT ![c] = ch] /\ UNCHANGED spoolVars /\ UNCHANGED panicked
  <2>1. srv'[c] = ch
    BY <1>1, <1>2
  <2> QED BY <1>2, <2>1 DEF SendErr, spoolVars
<1>3. CASE /\ ch.server_socket_close /\ UNCHANGED panicked
           /\ srv' = [srv EXCEPT ![c] = [ch EXCEPT !.reasons = @ + 1]]
           /\ \/ UNCHANGED <<spoolVars, toClient>>
              \/ SendToClient(Msg("FIN", c)) /\ RmServer(c)
              \/ ch.client_socket_close /\ RmServer(c) /\ UNCHANGED toClient
  <2>1. srv'[c] = [ch EXCEPT !.reasons = @ + 1]
    BY <1>1, <1>3
  <2>2. /\ srv'[c].client_socket_close = ch.client_socket_close
        /\ srv'[c].server_socket_close = ch.server_socket_close /\ srv'[c].conn = ch.conn
    BY <2>1 DEF Server
  <2>3. \/ spool' = spool /\ toClient' = toClient
        \/ c \notin spool' /\ SendToClient(Msg("FIN", c))
        \/ c \notin spool' /\ ch.client_socket_close /\ toClient' = toClient
    BY <1>3 DEF spoolVars, RmServer
  <2> QED BY <1>3, <2>2, <2>3
<1>4. CASE /\ ~ch.server_socket_close /\ ch.client_socket_close
           /\ srv' = [srv EXCEPT ![c] = [ch EXCEPT !.reasons = @ + 1, !.conn = "shut",
                                                   !.server_socket_close = TRUE]]
           /\ panicked' = IF ch.conn = "none" THEN panicked \cup {"server"} ELSE panicked
           /\ UNCHANGED <<spoolVars, toClient, faults>>
  <2>1. srv'[c] = [ch EXCEPT !.reasons = @ + 1, !.conn = "shut", !.server_socket_close = TRUE]
    BY <1>1, <1>4
  <2>2. /\ srv'[c].client_socket_close = ch.client_socket_close
        /\ srv'[c].server_socket_close = TRUE /\ srv'[c].conn = "shut"
    BY <2>1 DEF Server
  <2>3. spool' = spool /\ toClient' = toClient /\ panicked' \subseteq panicked \cup {"server"}
    BY <1>4 DEF spoolVars
  <2> QED BY <1>4, <2>2, <2>3
<1> QED BY <1>2, <1>3, <1>4 DEF SrvPromise

\* The server's promiseChannelClose, of a channel record ch: the backend is
\* done, or a true FIN of the client has come.
LEMMA SrvPromisePairs ==
    ASSUME IInv, NEW c \in Conns, PairInv(c), NEW ch \in Server, SrvPromise(c, ch), ClientStays,
           ch.server_socket_close = srv[c].server_socket_close, ch.conn = srv[c].conn,
           srv[c].client_socket_close => ch.client_socket_close,
           ch.client_socket_close => srv[c].server_socket_close \/ Dialed(c),
           ch.client_socket_close /\ c \in cpool => "overtake" \in Faults,
           ch.server_socket_close \/ ch.client_socket_close,
           ToServer("FIN", c)' => ToServer("FIN", c),
           ~ch.client_socket_close => (ToServer("FIN", c)' <=> ToServer("FIN", c))
    PROVE  PairInv(c)' /\ panicked' \subseteq panicked \cup {"server"}
<1>1. UNCHANGED <<cli, cpool, cpool2>> /\ CliInv(c)
  BY Facts DEF ClientStays, cpoolVars
<1>2. /\ srv'[c].client_socket_close = ch.client_socket_close /\ srv'[c].server_socket_close
      /\ srv'[c].conn = srv[c].conn \/ (Dialed(c) /\ ch.client_socket_close /\ srv'[c].conn = "shut")
      /\ panicked' \subseteq panicked \cup {"server"}
      /\ \/ spool' = spool /\ toClient' = toClient
         \/ c \notin spool' /\ SendToClient(Msg("FIN", c))
         \/ c \notin spool' /\ ch.client_socket_close /\ toClient' = toClient
  BY SrvPromiseDone
<1>3. /\ ToClient("ACK", c) => ToClient("ACK", c)'
      /\ ToClient("FIN", c) => ToClient("FIN", c)'
      /\ InOrder(toClient', c)
      /\ \/ /\ spool' = spool
            /\ (ToClient("ACK", c)' <=> ToClient("ACK", c)) /\ (ToClient("FIN", c)' <=> ToClient("FIN", c))
         \/ c \notin spool' /\ (ToClient("FIN", c)' \/ ch.client_socket_close)
  <2>1. CASE (spool' = spool \/ (c \notin spool' /\ ch.client_socket_close)) /\ toClient' = toClient
    BY <2>1 DEF ToClient, PairInv, FinTrue, InOrder
  <2>2. CASE c \notin spool' /\ SendToClient(Msg("FIN", c))
    BY <2>2, SentToClient
  <2> QED BY <1>2, <2>1, <2>2
<1>4. FinTrue(c)'
  BY <1>1, <1>2, <1>3 DEF PairInv, FinTrue, InOrder
<1>5. CloseTrue(c)'
  BY <1>1, <1>2 DEF PairInv, CloseTrue
<1>6. HasServer(c)'
  BY <1>1, <1>3 DEF PairInv, HasServer, CliInv
<1>7. HasClient(c)'
  <2>1. Dialed(c)' => Dialed(c)
    BY <1>2 DEF Dialed
  <2>2. c \in spool' /\ srv'[c].conn = "open" => c \in spool /\ srv[c].conn = "open"
    BY <1>2
  <2> QED BY <1>1, <1>2, <1>3, <2>1, <2>2 DEF PairInv, HasClient
<1>8. ClosedDialed(c)'
  BY <1>2 DEF PairInv, ClosedDialed, Dialed
<1> QED BY <1>2, <1>4, <1>5, <1>6, <1>7, <1>8 DEF PairInv

LEMMA SrvDialedPairs ==
    ASSUME IInv, NEW c \in Conns, PairInv(c), SrvDialed(c) PROVE PairInv(c)' /\ panicked' = panicked
<1>1. /\ srv \in [Conns -> Server] /\ srv[c] \in Server /\ SrvInv(c)
      /\ UNCHANGED <<cli, cpool, cpool2, spool, toServer, panicked>>
  BY Facts DEF SrvDialed, ClientStays, cpoolVars, spoolVars
<1>2. /\ c \in spool /\ ~srv[c].server_socket_close
      /\ srv'[c].client_socket_close = srv[c].client_socket_close
      /\ srv'[c].server_socket_close = srv[c].server_socket_close /\ srv'[c].conn = "open"
  BY <1>1 DEF SrvDialed, SrvInv, Starting, Server
<1>3. ~ToClient("FIN", c)
  BY <1>2 DEF PairInv, FinTrue
<1>4. /\ ~ToClient("FIN", c)' /\ InOrder(toClient', c)
      /\ ToClient("ACK", c)' \/ "senderr" \in Faults
  <2>1. CASE SendToClient(Msg("ACK", c))
    BY <1>3, <2>1, SentToClient
  <2>2. CASE SendErr(toClient)
    BY <1>3, <2>2 DEF SendErr, Fault, PairInv, FinTrue, InOrder, ToClient
  <2> QED BY <2>1, <2>2 DEF SrvDialed
<1>5. FinTrue(c)' /\ CloseTrue(c)' /\ ClosedDialed(c)'
  BY <1>1, <1>2, <1>4 DEF PairInv, FinTrue, CloseTrue, ClosedDialed, Dialed, InOrder, ToServer
<1>6. HasServer(c)'
  BY <1>1, <1>2 DEF HasServer
<1>7. HasClient(c)'
  BY <1>1, <1>4 DEF HasClient
<1> QED BY <1>1, <1>5, <1>6, <1>7 DEF PairInv

LEMMA FinFromClient ==
    ASSUME IInv, NEW c \in Conns, FromClient("FIN", c)
    PROVE  ToServer("FIN", c) /\ Dialed(c) /\ (ToServer("FIN", c)' => ToServer("FIN", c))
<1>1. /\ toServer \in Seq(Message) /\ toServer # <<>> /\ toServer' = Tail(toServer)
      /\ Head(toServer) = Msg("FIN", c) /\ MailInv(c)
  BY Facts DEF IInv, TypeOK, FromClient
<1> QED BY <1>1, Tails DEF ToServer, MailInv

LEMMA SrvFinPairs ==
    ASSUME IInv, NEW c \in Conns, PairInv(c), SrvFin(c)
    PROVE  PairInv(c)' /\ panicked' \subseteq panicked \cup {"server"}
<1> DEFINE ch == [srv[c] EXCEPT !.client_socket_close = TRUE]
<1>1. srv[c] \in Server /\ SrvPromise(c, ch) /\ ClientStays
  BY Facts DEF SrvFin
<1>2. /\ ch \in Server /\ ch.client_socket_close = TRUE
      /\ ch.server_socket_close = srv[c].server_socket_close /\ ch.conn = srv[c].conn
  BY <1>1 DEF Server
<1> HIDE DEF ch
<1>3. ToServer("FIN", c) /\ Dialed(c) /\ (ToServer("FIN", c)' => ToServer("FIN", c))
  BY FinFromClient DEF SrvFin
<1>4. c \in cpool => "overtake" \in Faults
  BY <1>3 DEF PairInv, CloseTrue
<1> QED BY <1>1, <1>2, <1>3, <1>4, SrvPromisePairs

LEMMA SrvFinUnknownPairs ==
    ASSUME IInv, NEW c \in Conns, PairInv(c), SrvFinUnknown(c)
    PROVE  PairInv(c)' /\ panicked' = panicked
<1>1. /\ UNCHANGED <<cli, cpool, cpool2, srv, spool, toClient, panicked>> /\ c \notin spool
      /\ ToServer("FIN", c)' => ToServer("FIN", c)
  BY Facts, FinFromClient
  DEF SrvFinUnknown, ClientStays, ServerStays, cpoolVars, spoolVars, SrvInv
<1>2. FinTrue(c)' /\ CloseTrue(c)' /\ ClosedDialed(c)' /\ HasServer(c)'
  BY <1>1 DEF PairInv, FinTrue, CloseTrue, ClosedDialed, HasServer, Dialed, ToClient
<1>3. HasClient(c)'
  BY <1>1 DEF PairInv, HasClient, Dialed, ToClient
<1> QED BY <1>1, <1>2, <1>3 DEF PairInv

\* The close of the backend, and the second look at it.
LEMMA SrvClosePairs ==
    ASSUME IInv, NEW c \in Conns, PairInv(c), SrvCloseEvent(c) \/ kcpCheckClose(c)
    PROVE  PairInv(c)' /\ panicked' \subseteq panicked \cup {"server"}
<1>1. srv[c] \in Server /\ SrvInv(c) /\ ClientStays /\ toServer' = toServer
  BY Facts DEF SrvCloseEvent, kcpCheckClose
<1>2. PICK ch \in Server :
         /\ SrvPromise(c, ch) /\ srv[c].server_socket_close
         /\ ch.client_socket_close = srv[c].client_socket_close
         /\ ch.server_socket_close = srv[c].server_socket_close /\ ch.conn = srv[c].conn
  <2>1. CASE SrvCloseEvent(c)
    <3> DEFINE r == [srv[c] EXCEPT !.closes = @ - 1]
    <3>1. SrvPromise(c, r) /\ srv[c].closes - 1 \in Nat /\ srv[c].server_socket_close
      BY <1>1, <2>1 DEF SrvCloseEvent, SrvInv, Server
    <3>2. /\ r \in Server /\ r.client_socket_close = srv[c].client_socket_close
          /\ r.server_socket_close = srv[c].server_socket_close /\ r.conn = srv[c].conn
      BY <1>1, <3>1 DEF Server
    <3> HIDE DEF r
    <3> QED BY <3>1, <3>2
  <2>2. CASE kcpCheckClose(c)
    <3> DEFINE r == [srv[c] EXCEPT !.server_kcp_close = TRUE]
    <3>1. SrvPromise(c, r) /\ srv[c].server_socket_close
      BY <2>2 DEF kcpCheckClose
    <3>2. /\ r \in Server /\ r.client_socket_close = srv[c].client_socket_close
          /\ r.server_socket_close = srv[c].server_socket_close /\ r.conn = srv[c].conn
      BY <1>1 DEF Server
    <3> HIDE DEF r
    <3> QED BY <3>1, <3>2
  <2> QED BY <2>1, <2>2
<1>3. ch.client_socket_close /\ c \in cpool => "overtake" \in Faults
  BY <1>2 DEF PairInv, CloseTrue
<1>4. ToServer("FIN", c)' <=> ToServer("FIN", c)
  BY <1>1 DEF ToServer
<1> QED BY <1>1, <1>2, <1>3, <1>4, SrvPromisePairs

\* Messages lost, of whatever channel.
LEMMA LosePairs ==
    ASSUME IInv, LoseToServer \/ LoseToClient, NEW c \in Conns, PairInv(c)
    PROVE  PairInv(c)' /\ panicked' = panicked
<1>1. /\ UNCHANGED <<cli, srv, cpool, cpool2, spool, panicked>> /\ "loss" \in Faults
  BY DEF LoseToServer, LoseToClient, cpoolVars, spoolVars, Fault
<1>2. toServer \in Seq(Message) /\ toClient \in Seq(Message)
  BY DEF IInv, TypeOK
<1>3. /\ ToServer("FIN", c)' => ToServer("FIN", c)
      /\ ToClient("FIN", c)' => ToClient("FIN", c)
      /\ InOrder(toClient, c) => InOrder(toClient', c)
  <2>1. CASE LoseToServer
    BY <1>2, <2>1, Tails DEF LoseToServer, ToServer, ToClient
  <2>2. CASE LoseToClient
    BY <1>2, <2>2, Tails, TailMail DEF LoseToClient, ToServer, ToClient, InOrder
  <2> QED BY <2>1, <2>2
<1>4. FinTrue(c)' /\ CloseTrue(c)' /\ ClosedDialed(c)'
  BY <1>1, <1>3 DEF PairInv, FinTrue, CloseTrue, ClosedDialed, Dialed, InOrder
<1>5. HasServer(c)' /\ HasClient(c)'
  BY <1>1 DEF HasServer, HasClient
<1> QED BY <1>1, <1>4, <1>5 DEF PairInv

-----------------------------------------------------------------------------
(* The theorems about the two ends *)

LEMMA InitPairs == Init => PairsInv
<1> SUFFICES ASSUME Init PROVE PairsInv
  OBVIOUS
<1>1. ASSUME NEW c \in Conns PROVE PairInv(c)
  <2>1. /\ \A cmd : ~ToClient(cmd, c) /\ ~ToServer(cmd, c)
        /\ InOrder(toClient, c)
    BY DEF Init, ToClient, ToServer, OnItsWay, InOrder, Before
  <2>2. cli[c] = NewClient /\ srv[c] = NewServer /\ c \notin cpool /\ c \notin cpool2 /\ c \notin spool
    BY DEF Init
  <2>3. FinTrue(c) /\ CloseTrue(c) /\ HasServer(c)
    BY <2>1, <2>2 DEF NewClient, FinTrue, CloseTrue, HasServer, InOrder
  <2>4. HasClient(c) /\ ClosedDialed(c)
    BY <2>2 DEF NewServer, HasClient, ClosedDialed
  <2> QED BY <2>3, <2>4 DEF PairInv
<1>2. "client" \notin panicked
  BY DEF Init
<1> QED BY <1>1, <1>2 DEF PairsInv

\* The step's own channel.
LEMMA OwnPairs ==
    ASSUME IInv, NEW c \in Conns, PairInv(c),
           Outside(c) \/ ClientStep(c) \/ ServerStep(c) \/ LoseUp(c) \/ LoseDown(c)
    PROVE  /\ PairInv(c)'
           /\ panicked' \subseteq panicked \cup {"server"} \/ ~(Faults \subseteq {"overtake"})
<1>1. CASE CalmOutside(c)
  BY <1>1, OutsidePairs
<1>2. CASE ClientStep(c)
  BY <1>1, <1>2, initConnChannelPairs, TimerPairs, CliAckPairs, LatePairs, CliFinPairs,
     CliFinNoConvPairs, ReaderPairs, CliCloseEventPairs DEF ClientStep, CalmOutside
<1>3. CASE ServerStep(c)
  BY <1>1, <1>3, StartPairs, SrvDialedPairs, SrvFinPairs, SrvFinUnknownPairs, ReaderPairs,
     SrvClosePairs DEF ServerStep, CalmOutside
<1> QED BY <1>1, <1>2, <1>3 DEF CalmOutside

LEMMA StepPairs == IInv /\ PairsInv /\ [Next]_vars => PairsInv'
<1> SUFFICES ASSUME IInv, PairsInv, [Next]_vars PROVE PairsInv'
  OBVIOUS
<1>1. CASE LoseToServer \/ LoseToClient
  BY <1>1, LosePairs DEF PairsInv, LoseToServer, LoseToClient
<1>2. ASSUME NEW c \in Conns,
             Outside(c) \/ ClientStep(c) \/ ServerStep(c) \/ LoseUp(c) \/ LoseDown(c)
      PROVE  PairsInv'
  <2>1. Apart(c)
    BY <1>2, OutsideApart, ClientApart, ServerApart
  <2>2. /\ PairInv(c)'
        /\ panicked' \subseteq panicked \cup {"server"} \/ ~(Faults \subseteq {"overtake"})
    BY <1>2, OwnPairs DEF PairsInv
  <2>3. \A d \in Conns \ {c} : PairInv(d)'
    BY <2>1, OthersKeep DEF PairsInv
  <2> QED BY <2>2, <2>3 DEF PairsInv
<1>3. CASE UNCHANGED vars
  <2>1. UNCHANGED <<cli, srv, cpool, cpool2, spool, toServer, toClient, panicked>>
    BY <1>3 DEF vars, cpoolVars, spoolVars
  <2>2. ASSUME NEW c \in Conns PROVE PairInv(c)'
    <3>1. CalmClient(c) /\ CalmServer(c)
      BY <2>1 DEF CalmClient, CalmServer
    <3> QED BY <2>1, <3>1, StillMail, CalmKeeps DEF PairsInv
  <2> QED BY <2>1, <2>2 DEF PairsInv
<1> QED BY <1>1, <1>2, <1>3 DEF Next

LEMMA Pairs == Spec => [](IInv /\ PairsInv)
<1>1. Init => IInv /\ PairsInv
  BY InitInv, InitPairs
<1>2. IInv /\ PairsInv /\ [Next]_vars => IInv' /\ PairsInv'
  BY StepInv, StepPairs
<1> QED BY <1>1, <1>2, PTL DEF Spec

\* Unless a message is lost or a packet overtakes the ACK, a connected and
\* not closing channel of the client has its channel at the server, or the
\* server's FIN is on its way, whatever sends or dials fail
\* (tunneld.go:336-374).
THEOREM ClientPaired ==
    ASSUME Faults \cap {"overtake", "loss"} = {} PROVE Spec => []ClientHasServer
<1>1. ASSUME IInv, PairsInv, NEW c \in Conns,
             c \in cpool2, ~cli[c].client_socket_close, ~cli[c].server_socket_close
      PROVE  c \in spool \/ OnItsWay(toClient, Msg("FIN", c))
  BY <1>1 DEF PairsInv, PairInv, HasServer, ToClient
<1>2. IInv /\ PairsInv => ClientHasServer
  BY <1>1 DEF ClientHasServer
<1> QED BY <1>2, Pairs, PTL

\* Unless a message is lost or cannot be sent, an open channel of the server
\* has its channel at the client, or what ends it is on its way: an ACK that
\* comes too late or a FIN; whatever packets overtake and dials fail
\* (tunnelc.go:245-259, 357-390, 496-502).
THEOREM ServerPaired ==
    ASSUME Faults \cap {"senderr", "loss"} = {} PROVE Spec => []ServerHasClient
<1>1. ASSUME IInv, PairsInv, NEW c \in Conns,
             c \in spool, srv[c].conn = "open", ~srv[c].client_socket_close
      PROVE  c \in cpool \/ OnItsWay(toClient, Msg("ACK", c)) \/ OnItsWay(toServer, Msg("FIN", c))
  BY <1>1 DEF PairsInv, PairInv, HasClient, ToClient, ToServer
<1>2. IInv /\ PairsInv => ServerHasClient
  BY <1>1 DEF ServerHasClient
<1> QED BY <1>2, Pairs, PTL

\* Where no dial and no send fails and no message is lost, the client's
\* "Ooops" is out of reach (tunnelc.go:388), whatever packets are lost, doubled
\* or early.
THEOREM ClientSafe ==
    ASSUME Faults \subseteq {"overtake"} PROVE Spec => []ClientNeverOoops
<1>1. IInv /\ PairsInv => ClientNeverOoops
  BY DEF PairsInv, ClientNeverOoops
<1> QED BY <1>1, Pairs, PTL
=============================================================================
