------------------------------- MODULE Tunnel -------------------------------
(***************************************************************************)
(* The life of the channels between tunnelc.go and tunneld.go: connect by  *)
(* SYN and ACK, carry data over KCP, close by FIN.                         *)
(*                                                                         *)
(* Commands travel as Tox messages: a FIFO queue each way, from which a    *)
(* message is lost when the friend drops off line, and sending one fails   *)
(* while the friend is off line.  KCP segments travel as lossy packets     *)
(* beside those queues and may overtake them.  Each program is one event   *)
(* loop, whose handlers are one action each, and the goroutines that read  *)
(* its sockets, dial and wait; the loop takes events in any order.         *)
(*                                                                         *)
(* A channel is named by its connection: chidcli, chidsrv and conv are one *)
(* to one here.  KCP is reduced to what module KCP shows of it: per stream *)
(* acked <= rcvd <= sub, and read <= rcvd.                                 *)
(*                                                                         *)
(* The definitions named Bad... are seeded faults for the mutation runs.   *)
(***************************************************************************)
EXTENDS Integers, Sequences, FiniteSets

CONSTANTS
    Conns,      \* the connections applications make
    MaxTries,   \* retries of a SYN that cannot be sent: 10 in the code
    SendLimit,  \* the WaitSnd at which a reader waits: 5 * snd_wnd in the code
    Faults,     \* what can go wrong: "senderr", "loss", "dial", "overtake"
    MaxFaults,  \* bound: failed sends and lost messages in all
    MaxUp,      \* bound: chunks an application sends
    MaxDown,    \* bound: chunks a backend sends
    MaxChunks,  \* bound: chunks both together send
    MaxQueue    \* bound: Tox messages under way in one direction

ASSUME TunnelAssumption ==
    /\ IsFiniteSet(Conns)
    /\ \A n \in {MaxTries, SendLimit, MaxFaults, MaxUp, MaxDown, MaxChunks, MaxQueue} : n \in Nat
    /\ Faults \subseteq {"senderr", "loss", "dial", "overtake"}

VARIABLES
    cli,       \* cli[c]: the client's Channel, its socket, goroutines and events
    srv,       \* srv[c]: the same of the server
    cpool,     \* client chpool.pool, by chidcli
    cpool2,    \* client chpool.pool2, by conv
    spool,     \* server chpool.pool, by chidsrv
    spool2,    \* server chpool.pool2, by conv
    toServer,  \* Tox messages under way to the server: [cmd, conn]
    toClient,  \* and to the client
    up,        \* up[c]: the KCP stream to the server, in chunks
    down,      \* down[c]: the KCP stream to the client
    airUp,     \* airUp[c]: the lossy packets of c under way to the server
    airDown,   \* and to the client
    faults,    \* how many sends have failed or messages been lost
    panicked   \* the programs that have panicked

cpoolVars  == <<cpool, cpool2>>
spoolVars  == <<spool, spool2>>
lossyVars  == <<up, down, airUp, airDown>>
vars == <<cli, srv, cpoolVars, spoolVars, toServer, toClient, lossyVars, faults, panicked>>

\* A stream: chunks made by its source, submitted to Send, received by the
\* peer's KCP, acknowledged, and read by the peer's loop.
NewStream == [made |-> 0, sub |-> 0, rcvd |-> 0, acked |-> 0, read |-> 0]
WaitSnd(s) == s.sub - s.acked

\* Lossy packets under way: the chunks up to items, and an acknowledgement.
Packet == [items |-> 0, ack |-> 0]
Max2(a, b) == IF a >= b THEN a ELSE b
Both(p, q) == [items |-> Max2(p.items, q.items), ack |-> Max2(p.ack, q.ack)]

\* conn: "none", "open", "eof" (ended from outside), "shut" (closed here).
\* reader: "none", "read" (in conn.Read), "hold" (waits for WaitSnd), "done".
\* reads, closes: its events that the loop has not taken yet.
NewClient == [conn |-> "none", newconn |-> FALSE, tries |-> 0, timer |-> FALSE,
              conn_ack_recved |-> FALSE, client_socket_close |-> FALSE,
              server_socket_close |-> FALSE, reader |-> "none",
              reads |-> 0, closes |-> 0, reasons |-> 0]
NewServer == [conn |-> "none", task |-> "none", server_socket_close |-> FALSE,
              server_kcp_close |-> FALSE, client_socket_close |-> FALSE,
              reader |-> "none", reads |-> 0, closes |-> 0, reasons |-> 0]

Init ==
    /\ cli = [c \in Conns |-> NewClient]
    /\ srv = [c \in Conns |-> NewServer]
    /\ cpool = {} /\ cpool2 = {} /\ spool = {} /\ spool2 = {}
    /\ toServer = <<>> /\ toClient = <<>>
    /\ up      = [c \in Conns |-> NewStream]
    /\ down    = [c \in Conns |-> NewStream]
    /\ airUp   = [c \in Conns |-> Packet]
    /\ airDown = [c \in Conns |-> Packet]
    /\ faults = 0
    /\ panicked = {}
-----------------------------------------------------------------------------
(* Tox *)

Msg(cmd, c) == [cmd |-> cmd, conn |-> c]

Fault(kind) == kind \in Faults /\ faults < MaxFaults /\ faults' = faults + 1

\* FriendSendMessage queues the message ...
SendToServer(m) == Len(toServer) < MaxQueue /\ toServer' = Append(toServer, m) /\ UNCHANGED faults
SendToClient(m) == Len(toClient) < MaxQueue /\ toClient' = Append(toClient, m) /\ UNCHANGED faults
\* ... or returns an error.
SendErr(queue) == Fault("senderr") /\ UNCHANGED queue

\* The friend drops off line: a message under way is gone.
LoseToServer == /\ Fault("loss")
                /\ toServer # <<>> /\ toServer' = Tail(toServer)
                /\ UNCHANGED <<cli, srv, cpoolVars, spoolVars, toClient, lossyVars, panicked>>
LoseToClient == /\ Fault("loss")
                /\ toClient # <<>> /\ toClient' = Tail(toClient)
                /\ UNCHANGED <<cli, srv, cpoolVars, spoolVars, toServer, lossyVars, panicked>>

\* A lossy packet is lost.
LoseUp(c)   == /\ airUp[c] # Packet
               /\ airUp' = [airUp EXCEPT ![c] = Packet]
               /\ UNCHANGED <<cli, srv, cpoolVars, spoolVars, toServer, toClient,
                              up, down, airDown, faults, panicked>>
LoseDown(c) == /\ airDown[c] # Packet
               /\ airDown' = [airDown EXCEPT ![c] = Packet]
               /\ UNCHANGED <<cli, srv, cpoolVars, spoolVars, toServer, toClient,
                              up, down, airUp, faults, panicked>>

\* What a step of one program leaves alone of the other.
ServerStays == UNCHANGED <<srv, spoolVars>>
ClientStays == UNCHANGED <<cli, cpoolVars>>
Runs(program) == program \notin panicked
-----------------------------------------------------------------------------
(* The client *)

RmClient(c) == cpool' = cpool \ {c} /\ cpool2' = cpool2 \ {c}

\* A local application connects.
AppConnects(c) ==
    /\ cli[c] = NewClient
    /\ cli' = [cli EXCEPT ![c].conn = "open", ![c].newconn = TRUE]
    /\ ServerStays
    /\ UNCHANGED <<cpoolVars, toServer, toClient, lossyVars, faults, panicked>>

AppCloses(c) ==
    /\ cli[c].conn = "open"
    /\ cli' = [cli EXCEPT ![c].conn = "eof"]
    /\ ServerStays
    /\ UNCHANGED <<cpoolVars, toServer, toClient, lossyVars, faults, panicked>>

\* A new channel sends its SYN; one whose SYN cannot be sent is removed, and
\* the connection tried again later or given up.
initConnChannel(c) ==
    /\ Runs("client")
    /\ cli[c].newconn
    /\ \/ /\ SendToServer(Msg("SYN", c))
          /\ cpool' = cpool \cup {c}
          /\ cli' = [cli EXCEPT ![c].newconn = FALSE, ![c].timer = TRUE]
       \/ /\ SendErr(toServer)
          /\ \/ /\ cli[c].tries < MaxTries
                /\ cli' = [cli EXCEPT ![c].tries = @ + 1]
             \/ /\ cli[c].tries >= MaxTries
                /\ cli' = [cli EXCEPT ![c].newconn = FALSE, ![c].conn = "shut"]
          /\ UNCHANGED cpool
    /\ ServerStays
    /\ UNCHANGED <<cpool2, toClient, lossyVars, panicked>>

\* The socket is not closed.
BadCheckACK(c) ==
    /\ Runs("client")
    /\ cli[c].timer
    /\ c \in cpool /\ ~cli[c].conn_ack_recved
    /\ RmClient(c)
    /\ cli' = [cli EXCEPT ![c].timer = FALSE, ![c].reasons = @ + 1]
    /\ ServerStays
    /\ UNCHANGED <<toServer, toClient, lossyVars, faults, panicked>>

\* 15 seconds after the SYN.
clientCheckACKRecved(c) ==
    /\ Runs("client")
    /\ cli[c].timer
    /\ IF c \in cpool /\ ~cli[c].conn_ack_recved
       THEN /\ RmClient(c)
            /\ cli' = [cli EXCEPT ![c].timer = FALSE, ![c].conn = "shut", ![c].reasons = @ + 1]
       ELSE /\ cli' = [cli EXCEPT ![c].timer = FALSE]
            /\ UNCHANGED cpoolVars
    /\ ServerStays
    /\ UNCHANGED <<toServer, toClient, lossyVars, faults, panicked>>

\* promiseChannelClose of the client, on the channel record ch.
CliPromise(c, ch) ==
    \/ /\ ch.client_socket_close /\ ~ch.server_socket_close
       /\ \/ /\ SendErr(toServer)
             /\ cli' = [cli EXCEPT ![c] = ch]
             /\ UNCHANGED cpoolVars
          \/ /\ SendToServer(Msg("FIN", c))
             /\ cli' = [cli EXCEPT ![c] = [ch EXCEPT !.reasons = @ + 1]]
             /\ RmClient(c)
       /\ UNCHANGED panicked
    \/ /\ ch.client_socket_close /\ ch.server_socket_close
       /\ cli' = [cli EXCEPT ![c] = [ch EXCEPT !.reasons = @ + 1]]
       /\ RmClient(c)
       /\ UNCHANGED <<toServer, faults, panicked>>
    \/ /\ ~ch.client_socket_close /\ ch.server_socket_close
       /\ cli' = [cli EXCEPT ![c] = [ch EXCEPT !.reasons = @ + 1, !.conn = "shut",
                                               !.client_socket_close = TRUE]]
       /\ UNCHANGED <<cpoolVars, toServer, faults, panicked>>
    \/ /\ ~ch.client_socket_close /\ ~ch.server_socket_close
       /\ panicked' = panicked \cup {"client"}
       /\ cli' = [cli EXCEPT ![c] = ch]
       /\ UNCHANGED <<cpoolVars, toServer, faults>>

\* A message of the server is at the head of the queue.
FromServer(cmd, c) ==
    /\ Runs("client")
    /\ toClient # <<>>
    /\ Head(toClient) = Msg(cmd, c)
    /\ toClient' = Tail(toClient)

\* The ACK names the conv: the KCP object is made and the reader started.
CliAck(c) ==
    /\ FromServer("ACK", c)
    /\ c \in cpool
    /\ cpool2' = cpool2 \cup {c}
    /\ cli' = [cli EXCEPT ![c].conn_ack_recved = TRUE, ![c].reader = "read"]
    /\ ServerStays
    /\ UNCHANGED <<cpool, toServer, lossyVars, faults, panicked>>

\* Nothing goes back.
BadCliLateAck(c) ==
    /\ FromServer("ACK", c)
    /\ c \notin cpool
    /\ ServerStays /\ ClientStays
    /\ UNCHANGED <<toServer, lossyVars, faults, panicked>>

\* It comes too late: a FIN goes back.
CliLateAck(c) ==
    /\ FromServer("ACK", c)
    /\ c \notin cpool
    /\ SendToServer(Msg("FIN", c)) \/ SendErr(toServer)
    /\ ServerStays /\ ClientStays
    /\ UNCHANGED <<lossyVars, panicked>>

CliFin(c) ==
    /\ FromServer("FIN", c)
    /\ c \in cpool2
    /\ CliPromise(c, [cli[c] EXCEPT !.server_socket_close = TRUE])
    /\ ServerStays
    /\ UNCHANGED lossyVars

\* A FIN for a channel whose ACK has not come: found by its chidcli.
CliFinNoConv(c) ==
    /\ FromServer("FIN", c)
    /\ c \notin cpool2 /\ c \in cpool
    /\ CliPromise(c, cli[c])
    /\ ServerStays
    /\ UNCHANGED lossyVars

CliFinUnknown(c) ==
    /\ FromServer("FIN", c)
    /\ c \notin cpool2 /\ c \notin cpool
    /\ ServerStays /\ ClientStays
    /\ UNCHANGED <<toServer, lossyVars, faults, panicked>>

\* pollClientReadyRead reads a chunk, waits for room in KCP, queues it; when
\* the read fails it sets the flag itself and queues the close.
CliReads(c) ==
    /\ Runs("client")
    /\ cli[c].reader = "read" /\ cli[c].conn = "open"
    /\ up[c].made < MaxUp /\ up[c].made + down[c].made < MaxChunks   \* bounds
    /\ cli' = [cli EXCEPT ![c].reader = "hold"]
    /\ up' = [up EXCEPT ![c].made = @ + 1]
    /\ ServerStays
    /\ UNCHANGED <<cpoolVars, toServer, toClient, down, airUp, airDown, faults, panicked>>

CliQueues(c) ==
    /\ Runs("client")
    /\ cli[c].reader = "hold"
    /\ WaitSnd(up[c]) < SendLimit
    /\ cli' = [cli EXCEPT ![c].reader = "read", ![c].reads = @ + 1]
    /\ ServerStays
    /\ UNCHANGED <<cpoolVars, toServer, toClient, lossyVars, faults, panicked>>

\* The reader's loop does not end.
BadCliReadFails(c) ==
    /\ Runs("client")
    /\ cli[c].reader = "read" /\ cli[c].conn \in {"eof", "shut"}
    /\ cli' = [cli EXCEPT ![c].client_socket_close = TRUE, ![c].closes = @ + 1]
    /\ ServerStays
    /\ UNCHANGED <<cpoolVars, toServer, toClient, lossyVars, faults, panicked>>

CliReadFails(c) ==
    /\ Runs("client")
    /\ cli[c].reader = "read" /\ cli[c].conn \in {"eof", "shut"}
    /\ cli' = [cli EXCEPT ![c].reader = "done", ![c].client_socket_close = TRUE,
                          ![c].closes = @ + 1]
    /\ ServerStays
    /\ UNCHANGED <<cpoolVars, toServer, toClient, lossyVars, faults, panicked>>

processClientReadyRead(c) ==
    /\ Runs("client")
    /\ cli[c].reads > 0
    /\ cli' = [cli EXCEPT ![c].reads = @ - 1]
    /\ up' = [up EXCEPT ![c].sub = @ + 1]
    /\ ServerStays
    /\ UNCHANGED <<cpoolVars, toServer, toClient, down, airUp, airDown, faults, panicked>>

CliCloseEvent(c) ==
    /\ Runs("client")
    /\ cli[c].closes > 0
    /\ CliPromise(c, [cli[c] EXCEPT !.closes = @ - 1])
    /\ ServerStays
    /\ UNCHANGED <<toClient, lossyVars>>

\* serveKcp: Update sends what is not acknowledged, Recv hands one chunk over.
CliFlush(c) ==
    /\ Runs("client")
    /\ c \in cpool /\ cli[c].conn_ack_recved /\ WaitSnd(up[c]) > 0
    /\ airUp' = [airUp EXCEPT ![c] = Both(@, [items |-> up[c].sub, ack |-> down[c].rcvd])]
    /\ ServerStays /\ ClientStays
    /\ UNCHANGED <<toServer, toClient, up, down, airDown, faults, panicked>>

CliRecv(c) ==
    /\ Runs("client")
    /\ c \in cpool /\ cli[c].conn_ack_recved /\ down[c].read < down[c].rcvd
    /\ down' = [down EXCEPT ![c].read = @ + 1]
    /\ ServerStays /\ ClientStays
    /\ UNCHANGED <<toServer, toClient, up, airUp, airDown, faults, panicked>>

\* A lossy packet with the conv of a channel: Input, which acknowledges at
\* once; a copy of the packet may follow.
CliInput(c) ==
    /\ Runs("client")
    /\ airDown[c] # Packet
    /\ c \in cpool2
    /\ \E again \in BOOLEAN : airDown' = IF again THEN airDown ELSE [airDown EXCEPT ![c] = Packet]
    /\ \E k \in down[c].rcvd .. Max2(down[c].rcvd, airDown[c].items) :
          /\ down' = [down EXCEPT ![c].rcvd = k]
          /\ airUp' = IF airDown[c].items > 0
                      THEN [airUp EXCEPT ![c] = Both(@, [items |-> 0, ack |-> k])]
                      ELSE airUp
    /\ up' = [up EXCEPT ![c].acked = Max2(@, airDown[c].ack)]
    /\ ServerStays /\ ClientStays
    /\ UNCHANGED <<toServer, toClient, faults, panicked>>

\* A lossy packet with an unknown conv: its channel is gone, or the packet
\* has overtaken the ACK.  A FIN goes back.
CliUnknownConv(c) ==
    /\ Runs("client")
    /\ airDown[c] # Packet
    /\ c \notin cpool2
    /\ c \in cpool => "overtake" \in Faults
    /\ \E again \in BOOLEAN : airDown' = IF again THEN airDown ELSE [airDown EXCEPT ![c] = Packet]
    /\ SendToServer(Msg("FIN", c)) \/ SendErr(toServer)
    /\ ServerStays /\ ClientStays
    /\ UNCHANGED <<toClient, up, down, airUp, panicked>>
-----------------------------------------------------------------------------
(* The server *)

BadRmServer(c) == spool' = spool \ {c} /\ UNCHANGED spool2   \* pool2 keeps it
RmServer(c) == spool' = spool \ {c} /\ spool2' = spool2 \ {c}

\* promiseChannelClose of the server, on the channel record ch.
SrvPromise(c, ch) ==
    \/ /\ ch.server_socket_close /\ ch.server_kcp_close /\ ~ch.client_socket_close
       /\ \/ /\ SendErr(toClient)
             /\ srv' = [srv EXCEPT ![c] = ch]
             /\ UNCHANGED spoolVars
          \/ /\ SendToClient(Msg("FIN", c))
             /\ srv' = [srv EXCEPT ![c] = [ch EXCEPT !.reasons = @ + 1]]
             /\ RmServer(c)
       /\ UNCHANGED panicked
    \/ /\ ch.server_socket_close /\ ~ch.server_kcp_close /\ ~ch.client_socket_close
       /\ srv' = [srv EXCEPT ![c] = [ch EXCEPT !.reasons = @ + 1]]
       /\ UNCHANGED <<spoolVars, toClient, faults, panicked>>
    \/ /\ ~ch.server_socket_close /\ ch.client_socket_close
       /\ srv' = [srv EXCEPT ![c] = [ch EXCEPT !.reasons = @ + 1, !.conn = "shut",
                                               !.server_socket_close = TRUE]]
       /\ panicked' = IF ch.conn = "none" THEN panicked \cup {"server"} ELSE panicked
       /\ UNCHANGED <<spoolVars, toClient, faults>>
    \/ /\ ch.server_socket_close /\ ch.client_socket_close
       /\ srv' = [srv EXCEPT ![c] = [ch EXCEPT !.reasons = @ + 1]]
       /\ RmServer(c)
       /\ UNCHANGED <<toClient, faults, panicked>>
    \/ /\ ~ch.server_socket_close /\ ~ch.client_socket_close
       /\ srv' = [srv EXCEPT ![c] = ch]
       /\ panicked' = panicked \cup {"server"}
       /\ UNCHANGED <<spoolVars, toClient, faults>>

FromClient(cmd, c) ==
    /\ Runs("server")
    /\ toServer # <<>>
    /\ Head(toServer) = Msg(cmd, c)
    /\ toServer' = Tail(toServer)

\* The SYN makes the channel and starts connectToBackend beside the loop.
SrvSyn(c) ==
    /\ FromClient("SYN", c)
    /\ srv' = [srv EXCEPT ![c].task = "start"]
    /\ ClientStays
    /\ UNCHANGED <<spoolVars, toClient, lossyVars, faults, panicked>>

\* connectToBackend enters the channel into the pool, from its goroutine.
SrvPut(c) ==
    /\ Runs("server")
    /\ srv[c].task = "start"
    /\ srv' = [srv EXCEPT ![c].task = "dial"]
    /\ spool' = spool \cup {c} /\ spool2' = spool2 \cup {c}
    /\ ClientStays
    /\ UNCHANGED <<toServer, toClient, lossyVars, faults, panicked>>

\* No ACK is sent.
BadSrvDialed(c) ==
    /\ Runs("server")
    /\ srv[c].task = "dial"
    /\ srv' = [srv EXCEPT ![c].task = "done", ![c].conn = "open", ![c].reader = "read"]
    /\ ClientStays
    /\ UNCHANGED <<spoolVars, toServer, toClient, lossyVars, faults, panicked>>

\* Dial succeeds: the ACK is sent, and nobody looks whether it could be.
SrvDialed(c) ==
    /\ Runs("server")
    /\ srv[c].task = "dial"
    /\ srv' = [srv EXCEPT ![c].task = "done", ![c].conn = "open", ![c].reader = "read"]
    /\ SendToClient(Msg("ACK", c)) \/ SendErr(toClient)
    /\ ClientStays
    /\ UNCHANGED <<spoolVars, toServer, lossyVars, panicked>>

SrvDialFails(c) ==
    /\ Runs("server")
    /\ "dial" \in Faults
    /\ srv[c].task = "dial"
    /\ srv' = [srv EXCEPT ![c].task = "done", ![c].server_socket_close = TRUE, ![c].closes = @ + 1]
    /\ ClientStays
    /\ UNCHANGED <<spoolVars, toServer, toClient, lossyVars, faults, panicked>>

\* The flag of the client's close is not set.
BadSrvFin(c) ==
    /\ FromClient("FIN", c)
    /\ c \in spool2
    /\ SrvPromise(c, srv[c])
    /\ ClientStays
    /\ UNCHANGED lossyVars

SrvFin(c) ==
    /\ FromClient("FIN", c)
    /\ c \in spool2
    /\ SrvPromise(c, [srv[c] EXCEPT !.client_socket_close = TRUE])
    /\ ClientStays
    /\ UNCHANGED lossyVars

SrvFinUnknown(c) ==
    /\ FromClient("FIN", c)
    /\ c \notin spool2
    /\ ServerStays /\ ClientStays
    /\ UNCHANGED <<toClient, lossyVars, faults, panicked>>

BackendCloses(c) ==
    /\ srv[c].conn = "open"
    /\ srv' = [srv EXCEPT ![c].conn = "eof"]
    /\ ClientStays
    /\ UNCHANGED <<spoolVars, toServer, toClient, lossyVars, faults, panicked>>

\* pollServerReadyRead, as pollClientReadyRead.
SrvReads(c) ==
    /\ Runs("server")
    /\ srv[c].reader = "read" /\ srv[c].conn = "open"
    /\ down[c].made < MaxDown /\ up[c].made + down[c].made < MaxChunks   \* bounds
    /\ srv' = [srv EXCEPT ![c].reader = "hold"]
    /\ down' = [down EXCEPT ![c].made = @ + 1]
    /\ ClientStays
    /\ UNCHANGED <<spoolVars, toServer, toClient, up, airUp, airDown, faults, panicked>>

SrvQueues(c) ==
    /\ Runs("server")
    /\ srv[c].reader = "hold"
    /\ WaitSnd(down[c]) < SendLimit
    /\ srv' = [srv EXCEPT ![c].reader = "read", ![c].reads = @ + 1]
    /\ ClientStays
    /\ UNCHANGED <<spoolVars, toServer, toClient, lossyVars, faults, panicked>>

SrvReadFails(c) ==
    /\ Runs("server")
    /\ srv[c].reader = "read" /\ srv[c].conn \in {"eof", "shut"}
    /\ srv' = [srv EXCEPT ![c].reader = "done", ![c].server_socket_close = TRUE,
                          ![c].closes = @ + 1]
    /\ ClientStays
    /\ UNCHANGED <<spoolVars, toServer, toClient, lossyVars, faults, panicked>>

\* It does not wait for an event.
BadServerReadyRead(c) ==
    /\ Runs("server")
    /\ c \in spool
    /\ srv' = [srv EXCEPT ![c].reads = @ - 1]
    /\ down' = [down EXCEPT ![c].sub = @ + 1]
    /\ ClientStays
    /\ UNCHANGED <<spoolVars, toServer, toClient, up, airUp, airDown, faults, panicked>>

processServerReadyRead(c) ==
    /\ Runs("server")
    /\ srv[c].reads > 0
    /\ srv' = [srv EXCEPT ![c].reads = @ - 1]
    /\ down' = [down EXCEPT ![c].sub = @ + 1]
    /\ ClientStays
    /\ UNCHANGED <<spoolVars, toServer, toClient, up, airUp, airDown, faults, panicked>>

SrvCloseEvent(c) ==
    /\ Runs("server")
    /\ srv[c].closes > 0
    /\ SrvPromise(c, [srv[c] EXCEPT !.closes = @ - 1])
    /\ ClientStays
    /\ UNCHANGED <<toServer, lossyVars>>

\* The wrong flag is set.
BadCheckClose(c) ==
    /\ Runs("server")
    /\ c \in spool
    /\ srv[c].server_socket_close /\ ~srv[c].server_kcp_close
    /\ WaitSnd(down[c]) = 0
    /\ SrvPromise(c, [srv[c] EXCEPT !.client_socket_close = TRUE])
    /\ ClientStays
    /\ UNCHANGED <<toServer, lossyVars>>

\* Every second: a channel whose backend is done and whose KCP is empty.
kcpCheckClose(c) ==
    /\ Runs("server")
    /\ c \in spool
    /\ srv[c].server_socket_close /\ ~srv[c].server_kcp_close
    /\ WaitSnd(down[c]) = 0
    /\ SrvPromise(c, [srv[c] EXCEPT !.server_kcp_close = TRUE])
    /\ ClientStays
    /\ UNCHANGED <<toServer, lossyVars>>

SrvFlush(c) ==
    /\ Runs("server")
    /\ c \in spool /\ WaitSnd(down[c]) > 0
    /\ airDown' = [airDown EXCEPT ![c] = Both(@, [items |-> down[c].sub, ack |-> up[c].rcvd])]
    /\ ServerStays /\ ClientStays
    /\ UNCHANGED <<toServer, toClient, up, down, airUp, faults, panicked>>

\* The chunk is written to the backend, which must be connected.
SrvRecv(c) ==
    /\ Runs("server")
    /\ c \in spool /\ up[c].read < up[c].rcvd
    /\ up' = [up EXCEPT ![c].read = @ + 1]
    /\ panicked' = IF srv[c].conn = "none" THEN panicked \cup {"server"} ELSE panicked
    /\ ServerStays /\ ClientStays
    /\ UNCHANGED <<toServer, toClient, down, airUp, airDown, faults>>

SrvInput(c) ==
    /\ Runs("server")
    /\ airUp[c] # Packet
    /\ c \in spool2
    /\ \E again \in BOOLEAN : airUp' = IF again THEN airUp ELSE [airUp EXCEPT ![c] = Packet]
    /\ \E k \in up[c].rcvd .. Max2(up[c].rcvd, airUp[c].items) :
          /\ up' = [up EXCEPT ![c].rcvd = k]
          /\ airDown' = IF airUp[c].items > 0
                        THEN [airDown EXCEPT ![c] = Both(@, [items |-> 0, ack |-> k])]
                        ELSE airDown
    /\ down' = [down EXCEPT ![c].acked = Max2(@, airUp[c].ack)]
    /\ ServerStays /\ ClientStays
    /\ UNCHANGED <<toServer, toClient, faults, panicked>>

\* An unknown conv is only logged.
SrvUnknownConv(c) ==
    /\ Runs("server")
    /\ airUp[c] # Packet
    /\ c \notin spool2
    /\ airUp' = [airUp EXCEPT ![c] = Packet]
    /\ ServerStays /\ ClientStays
    /\ UNCHANGED <<toServer, toClient, up, down, airDown, faults, panicked>>
-----------------------------------------------------------------------------
Outside(c) == AppConnects(c) \/ AppCloses(c) \/ BackendCloses(c)

ClientStep(c) ==
    \/ initConnChannel(c) \/ clientCheckACKRecved(c)
    \/ CliAck(c) \/ CliLateAck(c) \/ CliFin(c) \/ CliFinNoConv(c) \/ CliFinUnknown(c)
    \/ CliReads(c) \/ CliQueues(c) \/ CliReadFails(c)
    \/ processClientReadyRead(c) \/ CliCloseEvent(c)
    \/ CliFlush(c) \/ CliRecv(c) \/ CliInput(c) \/ CliUnknownConv(c)

ServerStep(c) ==
    \/ SrvSyn(c) \/ SrvPut(c) \/ SrvDialed(c) \/ SrvDialFails(c)
    \/ SrvFin(c) \/ SrvFinUnknown(c)
    \/ SrvReads(c) \/ SrvQueues(c) \/ SrvReadFails(c)
    \/ processServerReadyRead(c) \/ SrvCloseEvent(c) \/ kcpCheckClose(c)
    \/ SrvFlush(c) \/ SrvRecv(c) \/ SrvInput(c) \/ SrvUnknownConv(c)

Next == \/ LoseToServer \/ LoseToClient
        \/ \E c \in Conns : \/ Outside(c) \/ ClientStep(c) \/ ServerStep(c)
                            \/ LoseUp(c) \/ LoseDown(c)

Spec == Init /\ [][Next]_vars
-----------------------------------------------------------------------------
(* Properties *)

Stream == [made : Nat, sub : Nat, rcvd : Nat, acked : Nat, read : Nat]
Packets == [items : Nat, ack : Nat]
Message == [cmd : {"SYN", "ACK", "FIN"}, conn : Conns]
Client == [conn : {"none", "open", "eof", "shut"}, newconn : BOOLEAN,
           tries : Nat, timer : BOOLEAN, conn_ack_recved : BOOLEAN,
           client_socket_close : BOOLEAN, server_socket_close : BOOLEAN,
           reader : {"none", "read", "hold", "done"},
           reads : Nat, closes : Nat, reasons : Nat]
Server == [conn : {"none", "open", "eof", "shut"},
           task : {"none", "start", "dial", "done"},
           server_socket_close : BOOLEAN, server_kcp_close : BOOLEAN,
           client_socket_close : BOOLEAN,
           reader : {"none", "read", "hold", "done"},
           reads : Nat, closes : Nat, reasons : Nat]

\* The types of the channels, pools, queues and streams (channel.go:59-86).
TypeOK ==
    /\ cli \in [Conns -> Client]
    /\ srv \in [Conns -> Server]
    /\ cpool \subseteq Conns /\ cpool2 \subseteq Conns
    /\ spool \subseteq Conns /\ spool2 \subseteq Conns
    /\ toServer \in Seq(Message) /\ toClient \in Seq(Message)
    /\ up \in [Conns -> Stream] /\ down \in [Conns -> Stream]
    /\ airUp \in [Conns -> Packets] /\ airDown \in [Conns -> Packets]
    /\ faults \in Nat
    /\ panicked \subseteq {"client", "server"}

OnItsWay(queue, m) == \E i \in DOMAIN queue : queue[i] = m

\* The server's panics never happen, whatever is lost or fails: "Ooops" in
\* promiseChannelClose (tunneld.go:372), a nil conn closed or written to
\* (tunneld.go:243, 362), "wtf" at a sixth close reason (channel.go:179).
ServerNeverPanics == "server" \notin panicked /\ \A c \in Conns : srv[c].reasons <= 5

\* The client never collects a sixth close reason (channel.go:179).
ClientReasons == \A c \in Conns : cli[c].reasons <= 5

\* The else of promiseChannelClose is not reached (tunnelc.go:388).
ClientNeverOoops == "client" \notin panicked

\* No channel leaves the pools with its socket open: nobody would close it,
\* and its application would wait for ever (channel.go:237-279).  It does not
\* speak of sockets ended from outside, which the program itself never closes.
NoSocketLeft == \A c \in Conns :
    /\ cli[c].conn = "open" => c \in cpool \/ cli[c].newconn
    /\ srv[c].conn = "open" => c \in spool

\* A client channel that is connected and not closing has its server channel,
\* or the FIN of it is on its way.
ClientHasServer == \A c \in Conns :
    c \in cpool2 /\ ~cli[c].client_socket_close /\ ~cli[c].server_socket_close
    => c \in spool \/ OnItsWay(toClient, Msg("FIN", c))

\* A server channel that is connected and not closing has its client channel,
\* or what ends it is on its way: a late ACK or a FIN.
ServerHasClient == \A c \in Conns :
    c \in spool /\ srv[c].conn = "open" /\ ~srv[c].client_socket_close
    => c \in cpool \/ OnItsWay(toClient, Msg("ACK", c)) \/ OnItsWay(toServer, Msg("FIN", c))

\* "server close and no data, connection finished" (tunneld.go:339): when the
\* server sends its FIN the client has acknowledged all the backend sent.
FinishedMeansNoData ==
    [][\A c \in Conns :
          Len(toClient') > Len(toClient) /\ toClient'[Len(toClient')] = Msg("FIN", c)
          => down[c].acked = down[c].made]_vars
-----------------------------------------------------------------------------
(***************************************************************************)
(* Progress.  Loops and goroutines run on, timers expire, Tox delivers in  *)
(* the end what it accepted, and lossy packets that are sent again and     *)
(* again arrive.  Applications and backends owe nothing.                   *)
(***************************************************************************)
CliMessage(c) == CliAck(c) \/ CliLateAck(c) \/ CliFin(c) \/ CliFinNoConv(c) \/ CliFinUnknown(c)
SrvMessage(c) == SrvSyn(c) \/ SrvFin(c) \/ SrvFinUnknown(c)

\* A packet brings all its chunks, or an acknowledgement that the end lacks.
CliGetsData(c) == CliInput(c) /\ 0 < airDown[c].items /\ down'[c].rcvd >= airDown[c].items
CliGetsAck(c)  == CliInput(c) /\ up[c].acked < airDown[c].ack
SrvGetsData(c) == SrvInput(c) /\ 0 < airUp[c].items /\ up'[c].rcvd >= airUp[c].items
SrvGetsAck(c)  == SrvInput(c) /\ down[c].acked < airUp[c].ack

Fairness == \A c \in Conns :
    /\ WF_vars(initConnChannel(c)) /\ WF_vars(clientCheckACKRecved(c)) /\ WF_vars(CliMessage(c))
    /\ WF_vars(CliQueues(c)) /\ WF_vars(CliReadFails(c))
    /\ WF_vars(processClientReadyRead(c)) /\ WF_vars(CliCloseEvent(c))
    /\ WF_vars(CliFlush(c)) /\ WF_vars(CliRecv(c)) /\ SF_vars(CliGetsData(c)) /\ SF_vars(CliGetsAck(c))
    /\ WF_vars(SrvPut(c)) /\ WF_vars(SrvDialed(c) \/ SrvDialFails(c)) /\ WF_vars(SrvMessage(c))
    /\ WF_vars(SrvQueues(c)) /\ WF_vars(SrvReadFails(c))
    /\ WF_vars(processServerReadyRead(c)) /\ WF_vars(SrvCloseEvent(c)) /\ WF_vars(kcpCheckClose(c))
    /\ WF_vars(SrvFlush(c)) /\ WF_vars(SrvRecv(c)) /\ SF_vars(SrvGetsData(c)) /\ SF_vars(SrvGetsAck(c))

FairSpec == Spec /\ Fairness

\* Both programs have forgotten the channel and neither holds its socket open.
\* A socket ended from outside is not closed by promiseChannelClose: when its
\* channel is forgotten it is left to Go's garbage collector.
Gone(c) == /\ c \notin cpool /\ c \notin cpool2 /\ c \notin spool /\ c \notin spool2
           /\ cli[c].conn # "open" /\ srv[c].conn # "open"

\* A reader waits for room in a KCP that is full.
Stuck(c) == \/ cli[c].reader = "hold" /\ WaitSnd(up[c]) >= SendLimit
            \/ srv[c].reader = "hold" /\ WaitSnd(down[c]) >= SendLimit

\* When the application or the backend has closed, both programs forget the
\* channel in the end (readme.md:90-91), unless a reader waits for room for
\* ever: nothing else, and no order of FINs, keeps the channel.
ClosedMeansGone == \A c \in Conns :
    ((cli[c].conn = "eof" \/ srv[c].conn = "eof") ~> Gone(c)) \/ <>[]Stuck(c)

\* After the client's FIN the server closes unconditionally (tunneld.go:358).
ClientCloseIsEnough == \A c \in Conns : srv[c].client_socket_close ~> c \notin spool
=============================================================================
