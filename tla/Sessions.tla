------------------------------ MODULE Sessions ------------------------------
(***************************************************************************)
(* Which channel a message or a packet finds.  A channel has three         *)
(* numbers: chidcli and chidsrv, counted from the same start in every life *)
(* of the client and of the server, and conv, a hash the server makes from *)
(* the client's address and the time.  ChannelPool looks channels up by    *)
(* number and by conv; the programs may die and be started again, and two  *)
(* channels may get the same conv.                                         *)
(*                                                                         *)
(* Module Tunnel takes the three numbers for one name.  This module shows  *)
(* when that is right; it leaves out what Tunnel has: retries, failed      *)
(* sends, lost messages, and how much of a stream has been delivered.      *)
(*                                                                         *)
(* The definitions named Bad... are seeded faults for the mutation runs.   *)
(***************************************************************************)
EXTENDS Integers, Sequences, FiniteSets

CONSTANTS
    Chans,     \* the client's Channel objects, one for each connection it makes
    Convs,     \* what makeKcpConv may return
    NoConv,    \* the conv before there is one
    Chanid0,   \* where chanid0 starts: 10000
    MaxRestarts,  \* bound: restarts of both programs in all
    MaxQueue   \* bound: Tox messages under way in one direction

ASSUME SessionAssumption ==
    /\ NoConv \notin Convs
    /\ Chanid0 \in Nat \ {0} /\ MaxRestarts \in Nat /\ MaxQueue \in Nat

Programs == {"client", "server"}

VARIABLES
    cch,       \* cch[k]: Channel k of the client
    sch,       \* sch[k]: the server's Channel for the SYN of Channel k
    cpool,     \* the client's chpool.pool: chidcli -> Channel
    cpool2,    \* the client's chpool.pool2: conv -> Channel
    spool,     \* the server's chpool.pool: chidsrv -> Channel
    spool2,    \* the server's chpool.pool2: conv -> Channel
    chanid,    \* chanid[p]: chanid0 of program p
    toServer,  \* Tox messages under way: [cmd, chidcli, chidsrv, conv, of]
    toClient,
    life,      \* life[p]: how often p has been started          (history)
    panicked,  \* <<p, why>>: p has died of a panic
    chanact,   \* chanact[p]: chanActiveCount
    connact    \* connact[p]: connActiveCount

cVars     == <<cch, cpool, cpool2>>
sVars     == <<sch, spool, spool2>>
queueVars == <<toServer, toClient>>
vars == <<cVars, sVars, chanid, queueVars, life, panicked, chanact, connact>>

NewCli == [life |-> 0, chid |-> 0, chidsrv |-> 0, conv |-> NoConv,
           acked |-> FALSE, client_close |-> FALSE, server_close |-> FALSE,
           readers |-> 0, closes |-> 0]

\* task: how far connectToBackend has come, then "failed" or "ended".
NewSrv == [life |-> 0, chid |-> 0, chidcli |-> 0, conv |-> NoConv,
           task |-> "none", client_close |-> FALSE, server_close |-> FALSE,
           kcp_close |-> FALSE, closes |-> 0]

\* Its ch.conn is nil.
NoConn(ch) == ch.task \in {"pool", "pool2", "dial", "failed"}

Empty == [i \in {} |-> 0]

Init ==
    /\ cch = [k \in Chans |-> NewCli]
    /\ sch = [k \in Chans |-> NewSrv]
    /\ cpool = Empty /\ cpool2 = Empty /\ spool = Empty /\ spool2 = Empty
    /\ chanid = [p \in Programs |-> Chanid0]
    /\ toServer = <<>> /\ toClient = <<>>
    /\ life = [p \in Programs |-> 1]
    /\ panicked = {}
    /\ chanact = [p \in Programs |-> 0]
    /\ connact = [p \in Programs |-> 0]
-----------------------------------------------------------------------------
(* The maps of ChannelPool. *)

Put(pool, i, k) == [j \in DOMAIN pool \cup {i} |-> IF j = i THEN k ELSE pool[j]]
Delete(pool, i) == [j \in DOMAIN pool \ {i} |-> pool[j]]
Holds(pool, k)  == \E i \in DOMAIN pool : pool[i] = k

Trigger(counter, p, d) == counter' = [counter EXCEPT ![p] = @ + d]

\* The number is not counted on.
BadNextChanid(p) == UNCHANGED chanid
nextChanid(p) == chanid' = [chanid EXCEPT ![p] = @ + 1]

\* The statistics are not told.
BadRmClient(k) ==
    /\ cpool'  = Delete(cpool, cch[k].chid)
    /\ cpool2' = Delete(cpool2, cch[k].conv)
    /\ UNCHANGED chanact

\* Removes by number, whichever channel is there, and counts every call.
rmClient(k) ==
    /\ cpool'  = Delete(cpool, cch[k].chid)
    /\ cpool2' = Delete(cpool2, cch[k].conv)
    /\ Trigger(chanact, "client", -1)

\* The conv stays.
BadRmServer(k) ==
    /\ spool'  = Delete(spool, sch[k].chid)
    /\ UNCHANGED spool2
    /\ Trigger(chanact, "server", -1)

rmServer(k) ==
    /\ spool'  = Delete(spool, sch[k].chid)
    /\ spool2' = Delete(spool2, sch[k].conv)
    /\ Trigger(chanact, "server", -1)
-----------------------------------------------------------------------------
(* Tox: messages in order, all lost when a program dies. *)

Runs(p) == \A why \in {"nil", "Ooops"} : <<p, why>> \notin panicked
CliLives(k) == Runs("client") /\ cch[k].life = life["client"]
SrvLives(k) == Runs("server") /\ sch[k].life = life["server"]

Msg(cmd, chidcli, chidsrv, conv, of) ==
    [cmd |-> cmd, chidcli |-> chidcli, chidsrv |-> chidsrv, conv |-> conv, of |-> of]

ToServer(m) == Len(toServer) < MaxQueue /\ toServer' = Append(toServer, m)
ToClient(m) == Len(toClient) < MaxQueue /\ toClient' = Append(toClient, m)

\* The message that comes next.
FromServer(cmd) == Runs("client") /\ toClient # <<>> /\ Head(toClient).cmd = cmd /\ toClient' = Tail(toClient)
FromClient(cmd) == Runs("server") /\ toServer # <<>> /\ Head(toServer).cmd = cmd /\ toServer' = Tail(toServer)

Panics(p, why) == panicked' = panicked \cup {<<p, why>>}

\* What is left of a Channel when its program dies: history.
LeftCli(ch) == [NewCli EXCEPT !.life = ch.life, !.chid = ch.chid]
LeftSrv(ch) == [NewSrv EXCEPT !.life = ch.life, !.conv = ch.conv, !.chidcli = ch.chidcli]

\* p is started again.
Restart(p) ==
    /\ life["client"] + life["server"] < MaxRestarts + 2
    /\ life' = [life EXCEPT ![p] = @ + 1]
    /\ chanid' = [chanid EXCEPT ![p] = Chanid0]
    /\ panicked' = {e \in panicked : e[1] # p}
    /\ toServer' = <<>> /\ toClient' = <<>>
    /\ chanact' = [chanact EXCEPT ![p] = 0]
    /\ connact' = [connact EXCEPT ![p] = 0]
    /\ IF p = "client"
       THEN /\ cch' = [k \in Chans |-> LeftCli(cch[k])]
            /\ cpool' = Empty /\ cpool2' = Empty
            /\ UNCHANGED sVars
       ELSE /\ sch' = [k \in Chans |-> LeftSrv(sch[k])]
            /\ spool' = Empty /\ spool2' = Empty
            /\ UNCHANGED cVars
-----------------------------------------------------------------------------
(* The client *)

ServerStays == UNCHANGED <<sVars, toClient, life>>

\* initConnChannel: a number, the pool, the SYN.
CliConnects(k) ==
    /\ Runs("client") /\ cch[k].life = 0
    /\ cch' = [cch EXCEPT ![k] = [NewCli EXCEPT !.life = life["client"],
                                   !.chid = chanid["client"]]]
    /\ nextChanid("client")
    /\ cpool' = Put(cpool, chanid["client"], k)
    /\ Trigger(chanact, "client", 1)
    /\ ToServer(Msg("SYN", chanid["client"], 0, NoConv, k))
    /\ ServerStays
    /\ UNCHANGED <<cpool2, panicked, connact>>

\* clientCheckACKRecved, 15 seconds after the SYN.
CliTimeout(k) ==
    /\ CliLives(k) /\ cch[k].chid \in DOMAIN cpool /\ ~cch[k].acked
    /\ rmClient(k)
    /\ ServerStays
    /\ UNCHANGED <<cch, chanid, toServer, panicked, connact>>

\* promiseChannelClose on the record ch of Channel k.
CliPromise(k, ch) ==
    \/ /\ ch.client_close
       /\ IF ch.server_close THEN UNCHANGED toServer
          ELSE ToServer(Msg("FIN", ch.chid, ch.chidsrv, ch.conv, k))
       /\ rmClient(k)
       /\ cch' = [cch EXCEPT ![k] = ch]
       /\ UNCHANGED panicked
    \/ /\ ~ch.client_close /\ ch.server_close
       /\ cch' = [cch EXCEPT ![k] = [ch EXCEPT !.client_close = TRUE]]
       /\ UNCHANGED <<cpool, cpool2, toServer, panicked, chanact>>
    \/ /\ ~ch.client_close /\ ~ch.server_close
       /\ Panics("client", "Ooops")
       /\ cch' = [cch EXCEPT ![k] = ch]
       /\ UNCHANGED <<cpool, cpool2, toServer, chanact>>

\* The ACK's chidsrv is not taken over.
BadAcked(ch, m) == [ch EXCEPT !.conv = m.conv, !.acked = TRUE, !.readers = @ + 1]
Acked(ch, m) == [ch EXCEPT !.conv = m.conv, !.chidsrv = m.chidsrv, !.acked = TRUE,
                           !.readers = @ + 1]

\* putClientLacks is forgotten.
BadCliAck ==
    /\ FromServer("ACK")
    /\ LET m == Head(toClient)
       IN  /\ m.chidcli \in DOMAIN cpool
           /\ cch' = [cch EXCEPT ![cpool[m.chidcli]] = Acked(@, m)]
    /\ Trigger(connact, "client", 1)
    /\ UNCHANGED <<cpool, cpool2, sVars, chanid, toServer, life, panicked, chanact>>

\* An ACK goes to the channel that now has its chidcli ...
CliAck ==
    /\ FromServer("ACK")
    /\ LET m == Head(toClient)
           k == cpool[m.chidcli]
       IN  /\ m.chidcli \in DOMAIN cpool
           /\ cch' = [cch EXCEPT ![k] = Acked(@, m)]
           /\ cpool2' = Put(cpool2, m.conv, k)
    /\ Trigger(connact, "client", 1)
    /\ UNCHANGED <<cpool, sVars, chanid, toServer, life, panicked, chanact>>

\* ... and is answered by a FIN if there is none.
CliLateAck ==
    /\ FromServer("ACK")
    /\ LET m == Head(toClient)
       IN  /\ m.chidcli \notin DOMAIN cpool
           /\ ToServer([m EXCEPT !.cmd = "FIN"])
    /\ UNCHANGED <<cVars, sVars, chanid, life, panicked, chanact, connact>>

\* A FIN goes to the channel with its conv, or else to the one with its chidcli.
CliFin ==
    /\ FromServer("FIN")
    /\ LET m == Head(toClient)
       IN  \/ /\ m.conv \in DOMAIN cpool2
              /\ LET k == cpool2[m.conv]
                 IN  CliPromise(k, [cch[k] EXCEPT !.server_close = TRUE])
           \/ /\ m.conv \notin DOMAIN cpool2 /\ m.chidcli \in DOMAIN cpool
              /\ LET k == cpool[m.chidcli] IN CliPromise(k, cch[k])
           \/ /\ m.conv \notin DOMAIN cpool2 /\ m.chidcli \notin DOMAIN cpool
              /\ UNCHANGED <<cVars, toServer, panicked, chanact>>
    /\ UNCHANGED <<sVars, chanid, life, connact>>

\* pollClientReadyRead ends: the application has closed, or the program has
\* closed the socket.
CliReaderEnds(k) ==
    /\ CliLives(k) /\ cch[k].readers > 0
    /\ cch' = [cch EXCEPT ![k].readers = @ - 1, ![k].client_close = TRUE, ![k].closes = @ + 1]
    /\ Trigger(connact, "client", -1)
    /\ ServerStays
    /\ UNCHANGED <<cpool, cpool2, chanid, toServer, panicked, chanact>>

CliCloseEvent(k) ==
    /\ CliLives(k) /\ cch[k].closes > 0
    /\ CliPromise(k, [cch[k] EXCEPT !.closes = @ - 1])
    /\ ServerStays
    /\ UNCHANGED <<chanid, connact>>
-----------------------------------------------------------------------------
(* The server *)

ClientStays == UNCHANGED <<cVars, life>>

\* The conv is left out.
BadChannel(m, conv) == [NewSrv EXCEPT !.life = life["server"], !.chid = chanid["server"],
                                      !.chidcli = m.chidcli, !.task = "pool"]
Channel(m, conv) == [NewSrv EXCEPT !.life = life["server"], !.chid = chanid["server"],
                                   !.chidcli = m.chidcli, !.conv = conv, !.task = "pool"]

\* A SYN: a Channel with a number and a conv of its own, and connectToBackend
\* as a goroutine.
SrvSyn ==
    /\ FromClient("SYN")
    /\ LET m == Head(toServer)
       IN  \E conv \in Convs : sch' = [sch EXCEPT ![m.of] = Channel(m, conv)]
    /\ nextChanid("server")
    /\ ClientStays
    /\ UNCHANGED <<spool, spool2, toClient, panicked, chanact, connact>>

\* putServer runs in that goroutine: first pool, then pool2.
SrvPut(k) ==
    /\ SrvLives(k) /\ sch[k].task = "pool"
    /\ spool' = Put(spool, sch[k].chid, k)
    /\ sch' = [sch EXCEPT ![k].task = "pool2"]
    /\ ClientStays
    /\ UNCHANGED <<spool2, chanid, queueVars, panicked, chanact, connact>>

SrvPut2(k) ==
    /\ SrvLives(k) /\ sch[k].task = "pool2"
    /\ spool2' = Put(spool2, sch[k].conv, k)
    /\ sch' = [sch EXCEPT ![k].task = "dial"]
    /\ Trigger(chanact, "server", 1)
    /\ ClientStays
    /\ UNCHANGED <<spool, chanid, queueVars, panicked, connact>>

SrvDialed(k) ==
    /\ SrvLives(k) /\ sch[k].task = "dial"
    /\ sch' = [sch EXCEPT ![k].task = "open"]
    /\ ToClient(Msg("ACK", sch[k].chidcli, sch[k].chid, sch[k].conv, k))
    /\ Trigger(connact, "server", 1)
    /\ ClientStays
    /\ UNCHANGED <<spool, spool2, chanid, toServer, panicked, chanact>>

\* The failed dial is counted off, although it was never counted on.
SrvDialFails(k) ==
    /\ SrvLives(k) /\ sch[k].task = "dial"
    /\ sch' = [sch EXCEPT ![k].task = "failed", ![k].server_close = TRUE, ![k].closes = @ + 1]
    /\ Trigger(connact, "server", -1)
    /\ ClientStays
    /\ UNCHANGED <<spool, spool2, chanid, queueVars, panicked, chanact>>

\* pollServerReadyRead ends, in the same way.
SrvReaderEnds(k) ==
    /\ SrvLives(k) /\ sch[k].task = "open"
    /\ sch' = [sch EXCEPT ![k].task = "ended", ![k].server_close = TRUE, ![k].closes = @ + 1]
    /\ Trigger(connact, "server", -1)
    /\ ClientStays
    /\ UNCHANGED <<spool, spool2, chanid, queueVars, panicked, chanact>>

\* promiseChannelClose on the record ch of the Channel for k.  The case of
\* neither close flag, a panic, is left out: no caller passes such a record.
SrvPromise(k, ch) ==
    \/ /\ ch.server_close /\ (ch.client_close \/ ch.kcp_close)
       /\ IF ch.client_close THEN UNCHANGED toClient
          ELSE ToClient(Msg("FIN", ch.chidcli, ch.chid, ch.conv, k))
       /\ rmServer(k)
       /\ sch' = [sch EXCEPT ![k] = ch]
       /\ UNCHANGED panicked
    \/ /\ ch.server_close /\ ~ch.client_close /\ ~ch.kcp_close
       /\ sch' = [sch EXCEPT ![k] = ch]
       /\ UNCHANGED <<spool, spool2, toClient, panicked, chanact>>
    \/ /\ ~ch.server_close /\ ch.client_close
       /\ sch' = [sch EXCEPT ![k] = [ch EXCEPT !.server_close = TRUE]]
       /\ IF NoConn(ch) THEN Panics("server", "nil") ELSE UNCHANGED panicked
       /\ UNCHANGED <<spool, spool2, toClient, chanact>>

SrvCloseEvent(k) ==
    /\ SrvLives(k) /\ sch[k].closes > 0
    /\ SrvPromise(k, [sch[k] EXCEPT !.closes = @ - 1])
    /\ ClientStays
    /\ UNCHANGED <<chanid, toServer, connact>>

\* A closed channel that happens to have nothing left to send.
kcpCheckClose(k) ==
    /\ SrvLives(k) /\ Holds(spool, k) /\ sch[k].server_close /\ ~sch[k].kcp_close
    /\ SrvPromise(k, [sch[k] EXCEPT !.kcp_close = TRUE])
    /\ ClientStays
    /\ UNCHANGED <<chanid, toServer, connact>>

SrvFin ==
    /\ FromClient("FIN")
    /\ LET m == Head(toServer)
       IN  IF m.conv \in DOMAIN spool2
           THEN LET k == spool2[m.conv] IN SrvPromise(k, [sch[k] EXCEPT !.client_close = TRUE])
           ELSE UNCHANGED <<sVars, toClient, panicked, chanact>>
    /\ ClientStays
    /\ UNCHANGED <<chanid, connact>>
-----------------------------------------------------------------------------
(* Data.  A packet names the conv in its KCP header; a message, once whole, *)
(* names both numbers inside.  The receiver finds a KCP object by the conv, *)
(* and then the connection to write to by the number.  A read of rdbufsz    *)
(* bytes is more than the mtu, so that a message comes in fragments: of two *)
(* channels with one conv, one object may put a message together from both. *)

\* The server's reader of k may have run; of an earlier life no task is known.
MayHaveRead(k) == sch[k].life > 0 /\ sch[k].task \in {"none", "open", "ended"}

\* A KCP object of the client takes what the backend of k sends, in a message
\* that names the chidcli of h.
Downward(h, k) ==
    /\ SrvLives(k) /\ Holds(spool, k) /\ sch[k].task \in {"open", "ended"}
    /\ Runs("client") /\ sch[k].conv \in DOMAIN cpool2
    /\ Holds(cpool, cpool2[sch[k].conv])
    /\ MayHaveRead(h) /\ sch[h].conv = sch[k].conv

\* One of the server takes what the application of k sends, in a message that
\* names the chidsrv of i; the server drops what has a conv it does not know.
Upward(i, k) ==
    /\ CliLives(k) /\ Holds(cpool, k) /\ cch[k].acked
    /\ Runs("server") /\ cch[k].conv \in DOMAIN spool2
    /\ Holds(spool, spool2[cch[k].conv])
    /\ cch[i].acked /\ cch[i].conv = cch[k].conv

\* The message names no channel, or one that has no connection; put together
\* from two, it may not even parse, and parsePacket returns nil.
DownNil(h, k) ==
    /\ Downward(h, k)
    /\ h # k \/ sch[h].chidcli \notin DOMAIN cpool
    /\ Panics("client", "nil")
    /\ UNCHANGED <<cVars, sVars, chanid, queueVars, life, chanact, connact>>

UpNil(i, k) ==
    /\ Upward(i, k)
    /\ i # k \/ (cch[i].chidsrv \in DOMAIN spool => NoConn(sch[spool[cch[i].chidsrv]]))
    /\ Panics("server", "nil")
    /\ UNCHANGED <<cVars, sVars, chanid, queueVars, life, chanact, connact>>

\* A conv the client does not know is answered by a FIN that names only it.
DownUnknown(k) ==
    /\ SrvLives(k) /\ Holds(spool, k) /\ sch[k].task \in {"open", "ended"}
    /\ Runs("client") /\ sch[k].conv \notin DOMAIN cpool2
    /\ ToServer(Msg("FIN", 0, 0, sch[k].conv, k))
    /\ \A i \in DOMAIN toServer : toServer[i].cmd # "FIN"   \* bound
    /\ UNCHANGED <<cVars, sVars, chanid, toClient, life, panicked, chanact, connact>>

ClientStep(k) == CliConnects(k) \/ CliTimeout(k) \/ CliReaderEnds(k) \/ CliCloseEvent(k)
ServerStep(k) == \/ SrvPut(k) \/ SrvPut2(k) \/ SrvDialed(k) \/ SrvDialFails(k)
                 \/ SrvReaderEnds(k) \/ SrvCloseEvent(k) \/ kcpCheckClose(k)
Data(k) == DownUnknown(k) \/ \E i \in Chans : DownNil(i, k) \/ UpNil(i, k)

Next == \/ CliAck \/ CliLateAck \/ CliFin \/ SrvSyn \/ SrvFin
        \/ \E k \in Chans : ClientStep(k) \/ ServerStep(k) \/ Data(k)
        \/ \E p \in Programs : Restart(p)

Spec == Init /\ [][Next]_vars
-----------------------------------------------------------------------------
(* Properties *)

Ids == Nat \ {0}
Message == [cmd : {"SYN", "ACK", "FIN"}, chidcli : Nat, chidsrv : Nat,
            conv : Convs \cup {NoConv}, of : Chans]

CliType == [life : Nat, chid : Nat, chidsrv : Nat, conv : Convs \cup {NoConv}, acked : BOOLEAN,
            client_close : BOOLEAN, server_close : BOOLEAN, readers : Nat, closes : Nat]
SrvType == [life : Nat, chid : Nat, chidcli : Nat, conv : Convs \cup {NoConv},
            task : {"none", "pool", "pool2", "dial", "open", "failed", "ended"},
            client_close : BOOLEAN, server_close : BOOLEAN, kcp_close : BOOLEAN, closes : Nat]

\* The types of Channel (channel.go:59), ChannelPool (196) and the messages; a
\* Channel of the server has its conv from the start.
TypeOK ==
    /\ cch \in [Chans -> CliType]
    /\ sch \in [Chans -> SrvType]
    /\ \A k \in Chans : sch[k].life > 0 => sch[k].conv \in Convs
    /\ DOMAIN cpool \subseteq Ids /\ cpool \in [DOMAIN cpool -> Chans]
    /\ DOMAIN spool \subseteq Ids /\ spool \in [DOMAIN spool -> Chans]
    /\ DOMAIN cpool2 \subseteq Convs /\ cpool2 \in [DOMAIN cpool2 -> Chans]
    /\ DOMAIN spool2 \subseteq Convs /\ spool2 \in [DOMAIN spool2 -> Chans]
    /\ chanid \in [Programs -> Ids] /\ life \in [Programs -> Ids]
    /\ toServer \in Seq(Message) /\ toClient \in Seq(Message)
    /\ panicked \subseteq Programs \X {"nil", "Ooops"}
    /\ chanact \in [Programs -> Int] /\ connact \in [Programs -> Int]

\* The server has given two channels the same conv.
Clash(i, j) == i # j /\ sch[i].life > 0 /\ sch[j].life > 0 /\ sch[i].conv = sch[j].conv
\* Channel j has the number that i had in an earlier life of the client.
Reused(i, j) == cch[i].chid = cch[j].chid /\ cch[i].life < cch[j].life

\* The server has given v to two channels.
SharedConv(v) == \E i, j \in Chans : Clash(i, j) /\ sch[i].conv = v

\* Data of one connection is never written to another, whatever restarts and
\* late messages do, but for two cases: the client was started again and
\* counted to the same chidcli before the ACK came (tunnelc.go:481;
\* channel.go:39), or the conv has been given to two channels (utils.go:90),
\* which can outlast a restart of the server.  On the way down that needs a
\* message with fragments of both; on the way up, not even that.
Isolation ==
    /\ \A h, k \in Chans : Downward(h, k) /\ sch[h].chidcli \in DOMAIN cpool =>
          LET j == cpool[sch[h].chidcli]
          IN  k = j \/ Reused(k, j) \/ (h # k /\ SharedConv(sch[k].conv))
    /\ \A i, k \in Chans : Upward(i, k) /\ cch[i].chidsrv \in DOMAIN spool =>
          LET j == spool[cch[i].chidsrv]
          IN  k = j \/ Reused(j, k) \/ SharedConv(cch[k].conv)

\* The number in a message always names a channel with a connection, else the
\* receiver calls a nil channel and dies (tunnelc.go:293, tunneld.go:241), and
\* no FIN closes the connection of a channel still dialing (tunneld.go:362):
\* this needs two channels with one conv.
NilOnlyByClash ==
    (\E p \in Programs : <<p, "nil">> \in panicked) => \E i, j \in Chans : Clash(i, j)

\* A channel in the pool that has its conv is found by it, unless another one
\* was given the same: no order of ACK, timeout, dial and close leaves a live
\* channel deaf (channel.go:215, 229).
FoundByConv ==
    /\ \A k \in Chans : Holds(cpool, k) /\ cch[k].acked =>
          \/ cch[k].conv \in DOMAIN cpool2 /\ cpool2[cch[k].conv] = k
          \/ SharedConv(cch[k].conv)
    /\ \A k \in Chans : Holds(spool, k) /\ sch[k].task # "pool2" =>
          \/ sch[k].conv \in DOMAIN spool2 /\ spool2[sch[k].conv] = k
          \/ SharedConv(sch[k].conv)

\* A removed channel is in neither map, also when it is removed twice or in
\* the middle of others coming and going.  The one leak: a client channel
\* that got a second ACK, of an earlier life, stays under its first conv
\* (channel.go:237, 275).
NoGhost ==
    /\ \A v \in DOMAIN spool2 : sch[spool2[v]].conv = v /\ Holds(spool, spool2[v])
    /\ \A v \in DOMAIN cpool2 :
          IF cch[cpool2[v]].conv = v THEN Holds(cpool, cpool2[v])
                                     ELSE \E i \in Chans : Reused(i, cpool2[v])

\* The counters of the statistics page.  Of the channels in the pools they say
\* too few: one removed twice is counted off twice.  The server's connections
\* miss one for each failed dial (stats.go:77-81, tunneld.go:275).  The
\* client's are never too few, and too many only while a reader has not seen
\* that its connection is closed, or shares it with the reader of another ACK
\* that came for an earlier channel of that number (tunnelc.go:492).
Counters ==
    LET now(p, lives) == {k \in Chans : lives[k].life = life[p]}
        at(task) == {k \in now("server", sch) : sch[k].task = task}
        real == {k \in now("client", cch) : cch[k].acked /\ ~cch[k].client_close}
    IN  /\ chanact["client"] <= Cardinality(DOMAIN cpool)
        /\ chanact["server"] <= Cardinality(DOMAIN spool)
        /\ connact["server"] = Cardinality(at("open")) - Cardinality(at("failed"))
        /\ connact["client"] >= Cardinality(real)
        /\ connact["client"] > Cardinality(real) =>
              \E k \in Chans : /\ cch[k].readers > 0
                               /\ cch[k].client_close \/ \E i \in Chans : Reused(i, k)
=============================================================================
