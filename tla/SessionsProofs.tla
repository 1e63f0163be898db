--------------------------- MODULE SessionsProofs ---------------------------
(* Proofs about Sessions: types, and which channel a number finds. *)
EXTENDS Sessions, TLAPS

-----------------------------------------------------------------------------
(* Types *)

\* What TypeOK needs to be inductive: an ACK has a conv, and a channel of this
\* life of the server a number.
Numbered ==
    /\ \A a \in DOMAIN toClient : toClient[a].cmd = "ACK" => toClient[a].conv \in Convs
    /\ \A k \in Chans : /\ sch[k].life <= life["server"]
                        /\ sch[k].life = life["server"] => sch[k].chid \in Ids

Typed == TypeOK /\ Numbered

LEMMA TypedInit == Init => Typed
<1> SUFFICES ASSUME Init PROVE Typed
  OBVIOUS
<1>1. NewCli \in CliType /\ NewSrv \in SrvType /\ NewSrv.life = 0
  BY DEF NewCli, NewSrv, CliType, SrvType
<1>2. /\ cch \in [Chans -> CliType] /\ sch \in [Chans -> SrvType]
      /\ \A k \in Chans : sch[k].life = 0
  BY <1>1 DEF Init
<1>3. /\ DOMAIN Empty = {} /\ \A S : Empty \in [{} -> S]
  BY DEF Empty
<1>4. toServer \in Seq(Message) /\ toClient \in Seq(Message) /\ DOMAIN toClient = {}
  BY DEF Init
<1>5. /\ chanid \in [Programs -> Ids] /\ life \in [Programs -> Ids] /\ life["server"] = 1
      /\ chanact \in [Programs -> Int] /\ connact \in [Programs -> Int] /\ panicked = {}
  BY SessionAssumption DEF Init, Programs, Ids
<1> QED BY <1>2, <1>3, <1>4, <1>5 DEF Init, Typed, TypeOK, Numbered

\* The operators keep the types.
LEMMA PutTyped ==
    ASSUME NEW I, NEW pool, DOMAIN pool \subseteq I, pool \in [DOMAIN pool -> Chans],
           NEW i \in I, NEW k \in Chans
    PROVE  /\ DOMAIN Put(pool, i, k) \subseteq I
           /\ Put(pool, i, k) \in [DOMAIN Put(pool, i, k) -> Chans]
BY DEF Put

LEMMA DeleteTyped ==
    ASSUME NEW I, NEW pool, DOMAIN pool \subseteq I, pool \in [DOMAIN pool -> Chans], NEW i
    PROVE  /\ DOMAIN Delete(pool, i) \subseteq I
           /\ Delete(pool, i) \in [DOMAIN Delete(pool, i) -> Chans]
BY DEF Delete

LEMMA EmptyTyped ==
    /\ \A I : DOMAIN Empty \subseteq I
    /\ Empty \in [DOMAIN Empty -> Chans]
BY DEF Empty

LEMMA MsgTyped ==
    ASSUME NEW cmd \in {"SYN", "ACK", "FIN"}, NEW i \in Nat, NEW j \in Nat,
           NEW v \in Convs \cup {NoConv}, NEW k \in Chans
    PROVE  Msg(cmd, i, j, v, k) \in Message
BY DEF Msg, Message

LEMMA HeadTyped ==
    ASSUME NEW q \in Seq(Message), q # <<>>
    PROVE  /\ Head(q) \in Message /\ Tail(q) \in Seq(Message)
           /\ Head(q) = q[1] /\ 1 \in DOMAIN q
           /\ \A a \in DOMAIN Tail(q) : a + 1 \in DOMAIN q /\ Tail(q)[a] = q[a + 1]
OBVIOUS

LEMMA AppendTyped ==
    ASSUME NEW q \in Seq(Message), NEW m \in Message
    PROVE  /\ Append(q, m) \in Seq(Message)
           /\ \A a \in DOMAIN Append(q, m) : (a \in DOMAIN q /\ Append(q, m)[a] = q[a])
                                             \/ Append(q, m)[a] = m
OBVIOUS

LEMMA TriggerTyped ==
    ASSUME NEW c \in [Programs -> Int], NEW p \in Programs, NEW d \in Int
    PROVE  [c EXCEPT ![p] = @ + d] \in [Programs -> Int]
OBVIOUS

LEMMA RecordFields ==
    /\ \A k \in Chans : cch \in [Chans -> CliType] =>
          /\ cch[k].chid \in Nat /\ cch[k].chidsrv \in Nat /\ cch[k].closes \in Nat
          /\ cch[k].readers \in Nat /\ cch[k].life \in Nat /\ cch[k].conv \in Convs \cup {NoConv}
    /\ \A k \in Chans : sch \in [Chans -> SrvType] =>
          /\ sch[k].chid \in Nat /\ sch[k].chidcli \in Nat /\ sch[k].closes \in Nat
          /\ sch[k].life \in Nat /\ sch[k].conv \in Convs \cup {NoConv}
BY DEF CliType, SrvType

LEMMA rmClientTyped ==
    ASSUME Typed, NEW k \in Chans, rmClient(k)
    PROVE  /\ DOMAIN cpool' \subseteq Ids /\ cpool' \in [DOMAIN cpool' -> Chans]
           /\ DOMAIN cpool2' \subseteq Convs /\ cpool2' \in [DOMAIN cpool2' -> Chans]
           /\ chanact' \in [Programs -> Int]
<1>1. "client" \in Programs /\ -1 \in Int
  BY DEF Programs
<1> QED BY <1>1, DeleteTyped, TriggerTyped DEF rmClient, Trigger, Typed, TypeOK

LEMMA rmServerTyped ==
    ASSUME Typed, NEW k \in Chans, rmServer(k)
    PROVE  /\ DOMAIN spool' \subseteq Ids /\ spool' \in [DOMAIN spool' -> Chans]
           /\ DOMAIN spool2' \subseteq Convs /\ spool2' \in [DOMAIN spool2' -> Chans]
           /\ chanact' \in [Programs -> Int]
<1>1. "server" \in Programs /\ -1 \in Int
  BY DEF Programs
<1> QED BY <1>1, DeleteTyped, TriggerTyped DEF rmServer, Trigger, Typed, TypeOK

\* Typed by parts: the client's, the server's, the messages, the rest.
CliOK ==
    /\ cch \in [Chans -> CliType]
    /\ DOMAIN cpool \subseteq Ids /\ cpool \in [DOMAIN cpool -> Chans]
    /\ DOMAIN cpool2 \subseteq Convs /\ cpool2 \in [DOMAIN cpool2 -> Chans]

SrvOK ==
    /\ sch \in [Chans -> SrvType]
    /\ \A k \in Chans : /\ sch[k].life > 0 => sch[k].conv \in Convs
                        /\ sch[k].life <= life["server"]
                        /\ sch[k].life = life["server"] => sch[k].chid \in Ids
    /\ DOMAIN spool \subseteq Ids /\ spool \in [DOMAIN spool -> Chans]
    /\ DOMAIN spool2 \subseteq Convs /\ spool2 \in [DOMAIN spool2 -> Chans]

QueueOK ==
    /\ toServer \in Seq(Message) /\ toClient \in Seq(Message)
    /\ \A a \in DOMAIN toClient : toClient[a].cmd = "ACK" => toClient[a].conv \in Convs

RestOK ==
    /\ chanid \in [Programs -> Ids] /\ life \in [Programs -> Ids]
    /\ panicked \subseteq Programs \X {"nil", "Ooops"}
    /\ chanact \in [Programs -> Int] /\ connact \in [Programs -> Int]

LEMMA Parts == Typed <=> CliOK /\ SrvOK /\ QueueOK /\ RestOK
BY DEF Typed, TypeOK, Numbered, CliOK, SrvOK, QueueOK, RestOK

LEMMA PartsNext == CliOK' /\ SrvOK' /\ QueueOK' /\ RestOK' => Typed'
BY DEF Typed, TypeOK, Numbered, CliOK, SrvOK, QueueOK, RestOK

\* Parts that a step leaves alone.
LEMMA CliStays == CliOK /\ UNCHANGED cVars => CliOK'
BY DEF CliOK, cVars

LEMMA SrvStays == SrvOK /\ UNCHANGED <<sVars, life>> => SrvOK'
BY DEF SrvOK, sVars

LEMMA NumberOn ==
    ASSUME RestOK, NEW p \in Programs, nextChanid(p)
    PROVE  chanid' \in [Programs -> Ids]
BY DEF RestOK, nextChanid, Ids

LEMMA CountOn ==
    ASSUME NEW d \in Int, NEW p \in Programs
    PROVE  /\ chanact \in [Programs -> Int] /\ Trigger(chanact, p, d) => chanact' \in [Programs -> Int]
           /\ connact \in [Programs -> Int] /\ Trigger(connact, p, d) => connact' \in [Programs -> Int]
BY DEF Trigger

LEMMA PanicTyped ==
    ASSUME RestOK, NEW p \in Programs, NEW why \in {"nil", "Ooops"}, Panics(p, why)
    PROVE  panicked' \subseteq Programs \X {"nil", "Ooops"}
BY DEF RestOK, Panics

LEMMA ToServerTyped ==
    ASSUME QueueOK, NEW m \in Message, ToServer(m)
    PROVE  toServer' \in Seq(Message)
BY AppendTyped DEF QueueOK, ToServer

LEMMA ToClientTyped ==
    ASSUME QueueOK, NEW m \in Message, ToClient(m), m.cmd = "ACK" => m.conv \in Convs
    PROVE  /\ toClient' \in Seq(Message)
           /\ \A a \in DOMAIN toClient' : toClient'[a].cmd = "ACK" => toClient'[a].conv \in Convs
BY AppendTyped DEF QueueOK, ToClient

\* Where Msg is used, its cmd and conv.
LEMMA MsgFields ==
    ASSUME NEW cmd, NEW i, NEW j, NEW v, NEW k
    PROVE  /\ Msg(cmd, i, j, v, k).cmd = cmd /\ Msg(cmd, i, j, v, k).conv = v
           /\ Msg(cmd, i, j, v, k).chidcli = i /\ Msg(cmd, i, j, v, k).chidsrv = j
           /\ Msg(cmd, i, j, v, k).of = k
BY DEF Msg

LEMMA FromServerTyped ==
    ASSUME QueueOK, NEW cmd, FromServer(cmd)
    PROVE  /\ Head(toClient) \in Message /\ Head(toClient).cmd = cmd
           /\ cmd = "ACK" => Head(toClient).conv \in Convs
           /\ toClient' \in Seq(Message)
           /\ \A a \in DOMAIN toClient' : toClient'[a].cmd = "ACK" => toClient'[a].conv \in Convs
<1>1. toClient \in Seq(Message) /\ toClient # <<>> /\ toClient' = Tail(toClient)
      /\ Head(toClient).cmd = cmd
  BY DEF QueueOK, FromServer
<1> QED BY <1>1, HeadTyped DEF QueueOK

LEMMA FromClientTyped ==
    ASSUME QueueOK, NEW cmd, FromClient(cmd)
    PROVE  /\ Head(toServer) \in Message /\ Head(toServer).cmd = cmd
           /\ toServer' \in Seq(Message)
<1>1. toServer \in Seq(Message) /\ toServer # <<>> /\ toServer' = Tail(toServer)
      /\ Head(toServer).cmd = cmd
  BY DEF QueueOK, FromClient
<1> QED BY <1>1, HeadTyped

LEMMA MessageFields ==
    ASSUME NEW m \in Message
    PROVE  /\ m.chidcli \in Nat /\ m.chidsrv \in Nat /\ m.conv \in Convs \cup {NoConv}
           /\ m.of \in Chans /\ [m EXCEPT !.cmd = "FIN"] \in Message
           /\ [m EXCEPT !.cmd = "FIN"].cmd = "FIN"
BY DEF Message

\* promiseChannelClose.
LEMMA CliPromiseTyped ==
    ASSUME Typed, NEW k \in Chans, NEW ch \in CliType, CliPromise(k, ch)
    PROVE  /\ CliOK' /\ toServer' \in Seq(Message)
           /\ panicked' \subseteq Programs \X {"nil", "Ooops"}
           /\ chanact' \in [Programs -> Int]
<1>1. CliOK /\ QueueOK /\ RestOK
  BY Parts
<1>2. CASE ch.client_close
  <2>1. cch' = [cch EXCEPT ![k] = ch] /\ rmClient(k) /\ UNCHANGED panicked
        /\ (UNCHANGED toServer \/ ToServer(Msg("FIN", ch.chid, ch.chidsrv, ch.conv, k)))
    BY <1>2 DEF CliPromise
  <2>2. Msg("FIN", ch.chid, ch.chidsrv, ch.conv, k) \in Message
    BY MsgTyped DEF CliType
  <2>3. toServer' \in Seq(Message)
    BY <1>1, <2>1, <2>2, ToServerTyped DEF QueueOK
  <2> QED BY <1>1, <2>1, <2>3, rmClientTyped DEF CliOK, RestOK
<1>3. CASE ~ch.client_close /\ ch.server_close
  <2>1. cch' = [cch EXCEPT ![k] = [ch EXCEPT !.client_close = TRUE]]
        /\ UNCHANGED <<cpool, cpool2, toServer, panicked, chanact>>
    BY <1>3 DEF CliPromise
  <2>2. [ch EXCEPT !.client_close = TRUE] \in CliType
    BY DEF CliType
  <2> QED BY <1>1, <2>1, <2>2 DEF CliOK, QueueOK, RestOK
<1>4. CASE ~ch.client_close /\ ~ch.server_close
  <2>1. cch' = [cch EXCEPT ![k] = ch] /\ Panics("client", "Ooops")
        /\ UNCHANGED <<cpool, cpool2, toServer, chanact>>
    BY <1>4 DEF CliPromise
  <2> QED BY <1>1, <2>1, PanicTyped DEF CliOK, QueueOK, RestOK, Programs
<1> QED BY <1>2, <1>3, <1>4

LEMMA SrvPromiseTyped ==
    ASSUME Typed, NEW k \in Chans, NEW ch \in SrvType, SrvPromise(k, ch),
           ch.life = sch[k].life, ch.chid = sch[k].chid, ch.conv = sch[k].conv,
           UNCHANGED life
    PROVE  /\ SrvOK' /\ toClient' \in Seq(Message)
           /\ \A a \in DOMAIN toClient' : toClient'[a].cmd = "ACK" => toClient'[a].conv \in Convs
           /\ panicked' \subseteq Programs \X {"nil", "Ooops"}
           /\ chanact' \in [Programs -> Int]
<1>1. SrvOK /\ QueueOK /\ RestOK
  BY Parts
<1>2. ASSUME NEW r \in SrvType, sch' = [sch EXCEPT ![k] = r], r.life = ch.life,
             r.chid = ch.chid, r.conv = ch.conv
      PROVE  /\ sch' \in [Chans -> SrvType]
             /\ \A i \in Chans : /\ sch'[i].life > 0 => sch'[i].conv \in Convs
                                 /\ sch'[i].life <= life'["server"]
                                 /\ sch'[i].life = life'["server"] => sch'[i].chid \in Ids
  BY <1>1, <1>2 DEF SrvOK
<1>3. CASE ch.server_close /\ (ch.client_close \/ ch.kcp_close)
  <2>1. sch' = [sch EXCEPT ![k] = ch] /\ rmServer(k) /\ UNCHANGED panicked
        /\ (UNCHANGED toClient \/ ToClient(Msg("FIN", ch.chidcli, ch.chid, ch.conv, k)))
    BY <1>3 DEF SrvPromise
  <2>2. Msg("FIN", ch.chidcli, ch.chid, ch.conv, k) \in Message
    BY MsgTyped DEF SrvType
  <2>3. /\ toClient' \in Seq(Message)
        /\ \A a \in DOMAIN toClient' : toClient'[a].cmd = "ACK" => toClient'[a].conv \in Convs
    BY <1>1, <2>1, <2>2, ToClientTyped, MsgFields DEF QueueOK
  <2> QED BY <1>1, <1>2, <2>1, <2>3, rmServerTyped DEF SrvOK, RestOK
<1>4. CASE ch.server_close /\ ~ch.client_close /\ ~ch.kcp_close
  <2>1. sch' = [sch EXCEPT ![k] = ch] /\ UNCHANGED <<spool, spool2, toClient, panicked, chanact>>
    BY <1>4 DEF SrvPromise
  <2> QED BY <1>1, <1>2, <2>1 DEF SrvOK, QueueOK, RestOK
<1>5. CASE ~ch.server_close
  <2> DEFINE r == [ch EXCEPT !.server_close = TRUE]
  <2>1. /\ sch' = [sch EXCEPT ![k] = r]
        /\ Panics("server", "nil") \/ UNCHANGED panicked
        /\ UNCHANGED <<spool, spool2, toClient, chanact>>
    BY <1>5 DEF SrvPromise
  <2>2. r \in SrvType /\ r.life = ch.life /\ r.chid = ch.chid /\ r.conv = ch.conv
    BY DEF SrvType
  <2>3. panicked' \subseteq Programs \X {"nil", "Ooops"}
    BY <1>1, <2>1, PanicTyped DEF RestOK, Programs
  <2> HIDE DEF r
  <2> QED BY <1>1, <1>2, <2>1, <2>2, <2>3 DEF SrvOK, QueueOK, RestOK
<1> QED BY <1>3, <1>4, <1>5

\* What the client does to a record.
LEMMA CliFinned == ASSUME NEW c \in CliType PROVE [c EXCEPT !.server_close = TRUE] \in CliType
BY DEF CliType

LEMMA CliTaken ==
    ASSUME NEW c \in CliType, c.closes > 0
    PROVE  [c EXCEPT !.closes = @ - 1] \in CliType
<1>1. c.closes - 1 \in Nat
  BY DEF CliType
<1> QED BY <1>1 DEF CliType

LEMMA CliRead ==
    ASSUME NEW c \in CliType, c.readers > 0
    PROVE  [c EXCEPT !.readers = @ - 1, !.client_close = TRUE, !.closes = @ + 1] \in CliType
<1>1. c.readers - 1 \in Nat /\ c.closes + 1 \in Nat
  BY DEF CliType
<1> QED BY <1>1 DEF CliType

LEMMA CliAcked == ASSUME NEW c \in CliType, NEW m \in Message PROVE Acked(c, m) \in CliType
<1>1. c.readers + 1 \in Nat /\ m.conv \in Convs \cup {NoConv} /\ m.chidsrv \in Nat
  BY DEF CliType, Message
<1> QED BY <1>1 DEF CliType, Acked

\* The client's actions.
LEMMA CliConnectsTyped == ASSUME Typed, NEW k \in Chans, CliConnects(k) PROVE Typed'
<1> DEFINE r == [NewCli EXCEPT !.life = life["client"], !.chid = chanid["client"]]
<1>1. CliOK /\ SrvOK /\ QueueOK /\ RestOK
  BY Parts
<1>2. "client" \in Programs /\ chanid["client"] \in Ids /\ life["client"] \in Nat
      /\ chanid["client"] \in Nat
  BY <1>1 DEF RestOK, Programs, Ids
<1>3. r \in CliType
  BY <1>2 DEF NewCli, CliType
<1> HIDE DEF r
<1>4. /\ cch' = [cch EXCEPT ![k] = r] /\ cpool' = Put(cpool, chanid["client"], k)
      /\ nextChanid("client") /\ Trigger(chanact, "client", 1)
      /\ ToServer(Msg("SYN", chanid["client"], 0, NoConv, k))
      /\ UNCHANGED <<sVars, toClient, life, cpool2, panicked, connact>>
  BY DEF CliConnects, ServerStays, r
<1>5. CliOK'
  BY <1>1, <1>2, <1>3, <1>4, PutTyped DEF CliOK
<1>6. SrvOK'
  BY <1>1, <1>4, SrvStays
<1>7. QueueOK'
  BY <1>1, <1>2, <1>4, MsgTyped, ToServerTyped DEF QueueOK
<1>8. RestOK'
  BY <1>1, <1>2, <1>4, NumberOn, CountOn DEF RestOK
<1> QED BY <1>5, <1>6, <1>7, <1>8, PartsNext

LEMMA CliTimeoutTyped == ASSUME Typed, NEW k \in Chans, CliTimeout(k) PROVE Typed'
<1>1. CliOK /\ SrvOK /\ QueueOK /\ RestOK
  BY Parts
<1>2. /\ rmClient(k) /\ UNCHANGED <<cch, sVars, toClient, life, chanid, toServer, panicked, connact>>
  BY DEF CliTimeout, ServerStays
<1>3. CliOK'
  BY <1>1, <1>2, rmClientTyped DEF CliOK
<1>4. SrvOK' /\ QueueOK'
  BY <1>1, <1>2, SrvStays DEF QueueOK
<1>5. RestOK'
  BY <1>1, <1>2, rmClientTyped DEF RestOK
<1> QED BY <1>3, <1>4, <1>5, PartsNext

LEMMA CliAckTyped == ASSUME Typed, CliAck PROVE Typed'
<1> DEFINE m == Head(toClient)
           k == cpool[m.chidcli]
<1>1. CliOK /\ SrvOK /\ QueueOK /\ RestOK
  BY Parts
<1>2. /\ FromServer("ACK") /\ m.chidcli \in DOMAIN cpool
      /\ cch' = [cch EXCEPT ![k] = Acked(cch[k], m)] /\ cpool2' = Put(cpool2, m.conv, k)
      /\ Trigger(connact, "client", 1)
      /\ UNCHANGED <<cpool, sVars, chanid, toServer, life, panicked, chanact>>
  BY DEF CliAck
<1>3. m \in Message /\ m.conv \in Convs /\ QueueOK'
  BY <1>1, <1>2, FromServerTyped DEF QueueOK
<1>4. k \in Chans
  BY <1>1, <1>2 DEF CliOK
<1>5. Acked(cch[k], m) \in CliType
  BY <1>1, <1>3, <1>4, CliAcked DEF CliOK
<1> HIDE DEF m, k
<1>6. CliOK'
  BY <1>1, <1>2, <1>3, <1>4, <1>5, PutTyped DEF CliOK
<1>7. SrvOK'
  BY <1>1, <1>2, SrvStays
<1>8. RestOK'
  BY <1>1, <1>2, CountOn DEF RestOK, Programs
<1> QED BY <1>3, <1>6, <1>7, <1>8, PartsNext

LEMMA CliLateAckTyped == ASSUME Typed, CliLateAck PROVE Typed'
<1> DEFINE m == Head(toClient)
<1>1. CliOK /\ SrvOK /\ QueueOK /\ RestOK
  BY Parts
<1>2. /\ FromServer("ACK") /\ ToServer([m EXCEPT !.cmd = "FIN"])
      /\ UNCHANGED <<cVars, sVars, chanid, life, panicked, chanact, connact>>
  BY DEF CliLateAck
<1>3. QueueOK'
  BY <1>1, <1>2, FromServerTyped, MessageFields, ToServerTyped DEF QueueOK
<1>4. CliOK' /\ SrvOK' /\ RestOK'
  BY <1>1, <1>2, CliStays, SrvStays DEF RestOK
<1> QED BY <1>3, <1>4, PartsNext

LEMMA CliFinTyped == ASSUME Typed, CliFin PROVE Typed'
<1> DEFINE m == Head(toClient)
<1>1. CliOK /\ SrvOK /\ QueueOK /\ RestOK
  BY Parts
<1>2. FromServer("FIN") /\ UNCHANGED <<sVars, chanid, life, connact>>
  BY DEF CliFin
<1>3. SrvOK'
  BY <1>1, <1>2, SrvStays
<1>4. CASE \/ m.conv \in DOMAIN cpool2
           \/ m.conv \notin DOMAIN cpool2 /\ m.chidcli \in DOMAIN cpool
  <2>1. PICK k \in Chans, ch \in CliType : CliPromise(k, ch)
    <3>1. CASE m.conv \in DOMAIN cpool2
      <4>1. cpool2[m.conv] \in Chans
        BY <1>1, <3>1 DEF CliOK
      <4>2. [cch[cpool2[m.conv]] EXCEPT !.server_close = TRUE] \in CliType
        BY <1>1, <4>1, CliFinned DEF CliOK
      <4> QED BY <3>1, <4>1, <4>2 DEF CliFin
    <3>2. CASE m.conv \notin DOMAIN cpool2 /\ m.chidcli \in DOMAIN cpool
      <4>1. cpool[m.chidcli] \in Chans
        BY <1>1, <3>2 DEF CliOK
      <4>2. cch[cpool[m.chidcli]] \in CliType
        BY <1>1, <4>1 DEF CliOK
      <4> QED BY <3>2, <4>1, <4>2 DEF CliFin
    <3> QED BY <1>4, <3>1, <3>2
  <2>2. QueueOK' /\ RestOK' /\ CliOK'
    BY <1>1, <1>2, <2>1, CliPromiseTyped, FromServerTyped DEF QueueOK, RestOK
  <2> QED BY <1>3, <2>2, PartsNext
<1>5. CASE m.conv \notin DOMAIN cpool2 /\ m.chidcli \notin DOMAIN cpool
  <2>1. UNCHANGED <<cVars, toServer, panicked, chanact>>
    BY <1>5 DEF CliFin
  <2> QED BY <1>1, <1>2, <1>3, <2>1, CliStays, FromServerTyped, PartsNext DEF QueueOK, RestOK
<1> QED BY <1>4, <1>5

LEMMA CliReaderEndsTyped == ASSUME Typed, NEW k \in Chans, CliReaderEnds(k) PROVE Typed'
<1> DEFINE r == [cch[k] EXCEPT !.readers = @ - 1, !.client_close = TRUE, !.closes = @ + 1]
<1>1. CliOK /\ SrvOK /\ QueueOK /\ RestOK
  BY Parts
<1>2. cch' = [cch EXCEPT ![k] = r] /\ cch[k].readers > 0 /\ Trigger(connact, "client", -1)
      /\ UNCHANGED <<sVars, toClient, life, cpool, cpool2, chanid, toServer, panicked, chanact>>
  BY DEF CliReaderEnds, ServerStays
<1>3. r \in CliType
  BY <1>1, <1>2, CliRead DEF CliOK
<1> HIDE DEF r
<1>4. CliOK' /\ SrvOK' /\ QueueOK'
  BY <1>1, <1>2, <1>3, SrvStays DEF CliOK, QueueOK
<1>5. RestOK'
  BY <1>1, <1>2, CountOn DEF RestOK, Programs
<1> QED BY <1>4, <1>5, PartsNext

LEMMA CliCloseEventTyped == ASSUME Typed, NEW k \in Chans, CliCloseEvent(k) PROVE Typed'
<1> DEFINE r == [cch[k] EXCEPT !.closes = @ - 1]
<1>1. CliOK /\ SrvOK /\ QueueOK /\ RestOK
  BY Parts
<1>2. cch[k].closes > 0 /\ CliPromise(k, r)
      /\ UNCHANGED <<sVars, toClient, life, chanid, connact>>
  BY DEF CliCloseEvent, ServerStays
<1>3. r \in CliType
  BY <1>1, <1>2, CliTaken DEF CliOK
<1> HIDE DEF r
<1>4. CliOK' /\ RestOK' /\ QueueOK'
  BY <1>1, <1>2, <1>3, CliPromiseTyped DEF QueueOK, RestOK
<1> QED BY <1>1, <1>2, <1>4, SrvStays, PartsNext

\* What the server does to a record.
LEMMA SrvAt ==
    ASSUME NEW c \in SrvType,
           NEW t \in {"none", "pool", "pool2", "dial", "open", "failed", "ended"}
    PROVE  [c EXCEPT !.task = t] \in SrvType
BY DEF SrvType

LEMMA SrvEnded ==
    ASSUME NEW c \in SrvType, NEW t \in {"failed", "ended"}
    PROVE  [c EXCEPT !.task = t, !.server_close = TRUE, !.closes = @ + 1] \in SrvType
<1>1. c.closes + 1 \in Nat
  BY DEF SrvType
<1> QED BY <1>1 DEF SrvType

LEMMA SrvTaken ==
    ASSUME NEW c \in SrvType, c.closes > 0
    PROVE  [c EXCEPT !.closes = @ - 1] \in SrvType
<1>1. c.closes - 1 \in Nat
  BY DEF SrvType
<1> QED BY <1>1 DEF SrvType

LEMMA SrvFlagged ==
    ASSUME NEW c \in SrvType
    PROVE  [c EXCEPT !.kcp_close = TRUE] \in SrvType /\ [c EXCEPT !.client_close = TRUE] \in SrvType
<1>1. [c EXCEPT !.kcp_close = TRUE] \in SrvType
  BY DEF SrvType
<1>2. [c EXCEPT !.client_close = TRUE] \in SrvType
  BY DEF SrvType
<1> QED BY <1>1, <1>2

LEMMA ChannelTyped ==
    ASSUME RestOK, NEW m \in Message, NEW conv \in Convs
    PROVE  /\ Channel(m, conv) \in SrvType
           /\ Channel(m, conv).life = life["server"] /\ Channel(m, conv).chid = chanid["server"]
           /\ Channel(m, conv).chid \in Ids /\ Channel(m, conv).conv = conv
           /\ Channel(m, conv).chidcli = m.chidcli
<1>1. life["server"] \in Nat /\ chanid["server"] \in Nat /\ chanid["server"] \in Ids
      /\ m.chidcli \in Nat
  BY DEF RestOK, Programs, Ids, Message
<1> QED BY <1>1 DEF Channel, NewSrv, SrvType

\* One record of the server changed, its numbers kept.
LEMMA SrvOne ==
    ASSUME SrvOK, NEW k \in Chans, NEW r \in SrvType, sch' = [sch EXCEPT ![k] = r],
           r.life = sch[k].life, r.chid = sch[k].chid, r.conv = sch[k].conv, UNCHANGED life
    PROVE  /\ sch' \in [Chans -> SrvType]
           /\ \A i \in Chans : /\ sch'[i].life > 0 => sch'[i].conv \in Convs
                               /\ sch'[i].life <= life'["server"]
                               /\ sch'[i].life = life'["server"] => sch'[i].chid \in Ids
BY DEF SrvOK

\* The server's actions.
LEMMA SrvSynTyped == ASSUME Typed, SrvSyn PROVE Typed'
<1> DEFINE m == Head(toServer)
<1>1. CliOK /\ SrvOK /\ QueueOK /\ RestOK
  BY Parts
<1>2. /\ FromClient("SYN") /\ nextChanid("server")
      /\ UNCHANGED <<cVars, life, spool, spool2, toClient, panicked, chanact, connact>>
  BY DEF SrvSyn, ClientStays
<1>3. PICK conv \in Convs : sch' = [sch EXCEPT ![m.of] = Channel(m, conv)]
  BY DEF SrvSyn
<1>4. m \in Message /\ m.of \in Chans /\ QueueOK'
  BY <1>1, <1>2, FromClientTyped, MessageFields DEF QueueOK
<1>5. SrvOK'
  <2> DEFINE r == Channel(m, conv)
  <2>1. /\ r \in SrvType /\ r.life = life["server"] /\ r.chid \in Ids /\ r.conv \in Convs
        /\ life["server"] \in Nat
    BY <1>1, <1>4, ChannelTyped DEF RestOK, Programs, Ids
  <2> HIDE DEF r, m
  <2> QED BY <1>1, <1>2, <1>3, <1>4, <2>1 DEF SrvOK, r
<1>6. RestOK'
  BY <1>1, <1>2, NumberOn DEF RestOK, Programs
<1> QED BY <1>1, <1>2, <1>4, <1>5, <1>6, CliStays, PartsNext

LEMMA SrvPutTyped == ASSUME Typed, NEW k \in Chans, SrvPut(k) PROVE Typed'
<1> DEFINE r == [sch[k] EXCEPT !.task = "pool2"]
<1>1. CliOK /\ SrvOK /\ QueueOK /\ RestOK
  BY Parts
<1>2. /\ sch[k].life = life["server"] /\ spool' = Put(spool, sch[k].chid, k)
      /\ sch' = [sch EXCEPT ![k] = r]
      /\ UNCHANGED <<cVars, life, spool2, chanid, queueVars, panicked, chanact, connact>>
  BY DEF SrvPut, ClientStays, SrvLives
<1>3. sch[k] \in SrvType /\ sch[k].chid \in Ids
  BY <1>1, <1>2 DEF SrvOK
<1>4. /\ r \in SrvType /\ r.life = sch[k].life /\ r.chid = sch[k].chid /\ r.conv = sch[k].conv
  BY <1>3, SrvAt DEF SrvType
<1> HIDE DEF r
<1>5. SrvOK'
  BY <1>1, <1>2, <1>3, <1>4, SrvOne, PutTyped DEF SrvOK
<1> QED BY <1>1, <1>2, <1>5, CliStays, PartsNext DEF QueueOK, RestOK, queueVars

LEMMA SrvPut2Typed == ASSUME Typed, NEW k \in Chans, SrvPut2(k) PROVE Typed'
<1> DEFINE r == [sch[k] EXCEPT !.task = "dial"]
<1>1. CliOK /\ SrvOK /\ QueueOK /\ RestOK
  BY Parts
<1>2. /\ sch[k].life = life["server"] /\ spool2' = Put(spool2, sch[k].conv, k)
      /\ sch' = [sch EXCEPT ![k] = r] /\ Trigger(chanact, "server", 1)
      /\ UNCHANGED <<cVars, life, spool, chanid, queueVars, panicked, connact>>
  BY DEF SrvPut2, ClientStays, SrvLives
<1>3. sch[k] \in SrvType /\ sch[k].conv \in Convs
  BY <1>1, <1>2 DEF SrvOK, RestOK, Programs, Ids
<1>4. /\ r \in SrvType /\ r.life = sch[k].life /\ r.chid = sch[k].chid /\ r.conv = sch[k].conv
  BY <1>3, SrvAt DEF SrvType
<1> HIDE DEF r
<1>5. SrvOK'
  BY <1>1, <1>2, <1>3, <1>4, SrvOne, PutTyped DEF SrvOK
<1>6. RestOK'
  BY <1>1, <1>2, CountOn DEF RestOK, Programs
<1> QED BY <1>1, <1>2, <1>5, <1>6, CliStays, PartsNext DEF QueueOK, queueVars

LEMMA SrvDialedTyped == ASSUME Typed, NEW k \in Chans, SrvDialed(k) PROVE Typed'
<1> DEFINE r == [sch[k] EXCEPT !.task = "open"]
           m == Msg("ACK", sch[k].chidcli, sch[k].chid, sch[k].conv, k)
<1>1. CliOK /\ SrvOK /\ QueueOK /\ RestOK
  BY Parts
<1>2. /\ sch[k].life = life["server"] /\ sch' = [sch EXCEPT ![k] = r]
      /\ ToClient(m) /\ Trigger(connact, "server", 1)
      /\ UNCHANGED <<cVars, life, spool, spool2, chanid, toServer, panicked, chanact>>
  BY DEF SrvDialed, ClientStays, SrvLives
<1>3. sch[k] \in SrvType /\ sch[k].conv \in Convs
  BY <1>1, <1>2 DEF SrvOK, RestOK, Programs, Ids
<1>4. /\ r \in SrvType /\ r.life = sch[k].life /\ r.chid = sch[k].chid /\ r.conv = sch[k].conv
  BY <1>3, SrvAt DEF SrvType
<1>5. m \in Message /\ m.conv \in Convs
  BY <1>3, MsgTyped, MsgFields DEF SrvType
<1> HIDE DEF r, m
<1>6. SrvOK' /\ QueueOK'
  BY <1>1, <1>2, <1>4, <1>5, SrvOne, ToClientTyped DEF SrvOK, QueueOK
<1>7. RestOK'
  BY <1>1, <1>2, CountOn DEF RestOK, Programs
<1> QED BY <1>1, <1>2, <1>6, <1>7, CliStays, PartsNext

LEMMA SrvEndsTyped ==
    ASSUME Typed, NEW k \in Chans, SrvDialFails(k) \/ SrvReaderEnds(k)
    PROVE  Typed'
<1>1. CliOK /\ SrvOK /\ QueueOK /\ RestOK
  BY Parts
<1>2. PICK t \in {"failed", "ended"} :
         sch' = [sch EXCEPT ![k] = [sch[k] EXCEPT !.task = t, !.server_close = TRUE, !.closes = @ + 1]]
  BY DEF SrvDialFails, SrvReaderEnds
<1> DEFINE r == [sch[k] EXCEPT !.task = t, !.server_close = TRUE, !.closes = @ + 1]
<1>3. /\ Trigger(connact, "server", -1)
      /\ UNCHANGED <<cVars, life, spool, spool2, chanid, queueVars, panicked, chanact>>
  BY DEF SrvDialFails, SrvReaderEnds, ClientStays
<1>4. sch[k] \in SrvType
  BY <1>1 DEF SrvOK
<1>5. /\ r \in SrvType /\ r.life = sch[k].life /\ r.chid = sch[k].chid /\ r.conv = sch[k].conv
  BY <1>4, SrvEnded DEF SrvType
<1> HIDE DEF r
<1>6. SrvOK'
  BY <1>1, <1>2, <1>3, <1>5, SrvOne DEF SrvOK, r
<1>7. RestOK'
  BY <1>1, <1>3, CountOn DEF RestOK, Programs
<1> QED BY <1>1, <1>3, <1>6, <1>7, CliStays, PartsNext DEF QueueOK, queueVars

LEMMA SrvClosesTyped ==
    ASSUME Typed, NEW k \in Chans, SrvCloseEvent(k) \/ kcpCheckClose(k)
    PROVE  Typed'
<1>1. CliOK /\ SrvOK /\ QueueOK /\ RestOK
  BY Parts
<1>2. UNCHANGED <<cVars, life, chanid, toServer, connact>>
  BY DEF SrvCloseEvent, kcpCheckClose, ClientStays
<1>3. sch[k] \in SrvType
  BY <1>1 DEF SrvOK
<1>4. PICK ch \in SrvType : /\ SrvPromise(k, ch)
                            /\ ch.life = sch[k].life /\ ch.chid = sch[k].chid /\ ch.conv = sch[k].conv
  <2>1. CASE SrvCloseEvent(k)
    <3>1. [sch[k] EXCEPT !.closes = @ - 1] \in SrvType
      BY <1>3, <2>1, SrvTaken DEF SrvCloseEvent
    <3> QED BY <1>3, <2>1, <3>1 DEF SrvCloseEvent, SrvType
  <2>2. CASE kcpCheckClose(k)
    <3>1. [sch[k] EXCEPT !.kcp_close = TRUE] \in SrvType
      BY <1>3, SrvFlagged
    <3> QED BY <1>3, <2>2, <3>1 DEF kcpCheckClose, SrvType
  <2> QED BY <2>1, <2>2
<1>5. SrvOK' /\ QueueOK' /\ RestOK'
  BY <1>1, <1>2, <1>4, SrvPromiseTyped DEF QueueOK, RestOK
<1> QED BY <1>1, <1>2, <1>5, CliStays, PartsNext

LEMMA SrvFinTyped == ASSUME Typed, SrvFin PROVE Typed'
<1> DEFINE m == Head(toServer)
           k == spool2[m.conv]
<1>1. CliOK /\ SrvOK /\ QueueOK /\ RestOK
  BY Parts
<1>2. FromClient("FIN") /\ UNCHANGED <<cVars, life, chanid, connact>>
  BY DEF SrvFin, ClientStays
<1>3. toServer' \in Seq(Message)
  BY <1>1, <1>2, FromClientTyped
<1>4. CASE m.conv \in DOMAIN spool2
  <2> DEFINE ch == [sch[k] EXCEPT !.client_close = TRUE]
  <2>1. k \in Chans /\ sch[k] \in SrvType /\ SrvPromise(k, ch)
    BY <1>1, <1>4 DEF SrvOK, SrvFin
  <2>2. /\ ch \in SrvType /\ ch.life = sch[k].life /\ ch.chid = sch[k].chid
        /\ ch.conv = sch[k].conv
    BY <2>1, SrvFlagged DEF SrvType
  <2> HIDE DEF ch, k
  <2>3. SrvOK' /\ QueueOK' /\ RestOK'
    BY <1>1, <1>2, <1>3, <2>1, <2>2, SrvPromiseTyped DEF QueueOK, RestOK
  <2> QED BY <1>1, <1>2, <2>3, CliStays, PartsNext
<1>5. CASE m.conv \notin DOMAIN spool2
  <2>1. UNCHANGED <<sVars, toClient, panicked, chanact>>
    BY <1>5 DEF SrvFin
  <2> QED BY <1>1, <1>2, <1>3, <2>1, CliStays, SrvStays, PartsNext DEF QueueOK, RestOK
<1> QED BY <1>4, <1>5

LEMMA DataTyped == ASSUME Typed, NEW k \in Chans, Data(k) PROVE Typed'
<1>1. CliOK /\ SrvOK /\ QueueOK /\ RestOK
  BY Parts
<1>2. UNCHANGED <<cVars, sVars, chanid, toClient, life, chanact, connact>>
  BY DEF Data, DownNil, UpNil, DownUnknown, queueVars
<1>3. panicked' \subseteq Programs \X {"nil", "Ooops"}
  BY <1>1, PanicTyped DEF Data, DownNil, UpNil, DownUnknown, RestOK, Programs
<1>4. toServer' \in Seq(Message)
  <2>1. CASE DownUnknown(k)
    <3>1. 0 \in Nat /\ sch[k].conv \in Convs \cup {NoConv}
      BY <1>1 DEF SrvOK, SrvType
    <3>2. Msg("FIN", 0, 0, sch[k].conv, k) \in Message
      BY <3>1, MsgTyped
    <3> QED BY <1>1, <2>1, <3>2, ToServerTyped DEF DownUnknown
  <2>2. CASE ~DownUnknown(k)
    BY <1>1, <2>2 DEF Data, DownNil, UpNil, queueVars, QueueOK
  <2> QED BY <2>1, <2>2
<1> QED BY <1>1, <1>2, <1>3, <1>4, CliStays, SrvStays, PartsNext DEF QueueOK, RestOK

LEMMA RestartTyped == ASSUME Typed, NEW p \in Programs, Restart(p) PROVE Typed'
<1>1. CliOK /\ SrvOK /\ QueueOK /\ RestOK
  BY Parts
<1>2. QueueOK'
  <2>1. toServer' = <<>> /\ toClient' = <<>>
    BY DEF Restart
  <2>2. <<>> \in Seq(Message) /\ DOMAIN <<>> = {}
    OBVIOUS
  <2> QED BY <2>1, <2>2 DEF QueueOK
<1>3. RestOK'
  <2>1. Chanid0 \in Ids /\ \A n \in Ids : n + 1 \in Ids
    BY SessionAssumption DEF Ids
  <2>2. /\ life' = [life EXCEPT ![p] = @ + 1] /\ chanid' = [chanid EXCEPT ![p] = Chanid0]
        /\ panicked' = {e \in panicked : e[1] # p}
        /\ chanact' = [chanact EXCEPT ![p] = 0] /\ connact' = [connact EXCEPT ![p] = 0]
    BY DEF Restart
  <2>3. life' \in [Programs -> Ids] /\ chanid' \in [Programs -> Ids]
    BY <1>1, <2>1, <2>2 DEF RestOK
  <2>4. chanact' \in [Programs -> Int] /\ connact' \in [Programs -> Int]
    BY <1>1, <2>2 DEF RestOK
  <2> QED BY <1>1, <2>2, <2>3, <2>4 DEF RestOK
<1>4. CliOK' /\ SrvOK'
  <2>1. CASE p = "client"
    <3>1. /\ cch' = [k \in Chans |-> LeftCli(cch[k])]
          /\ cpool' = Empty /\ cpool2' = Empty /\ UNCHANGED sVars
          /\ life'["server"] = life["server"]
      BY <1>1, <2>1 DEF Restart, RestOK, Programs
    <3>2. cch' \in [Chans -> CliType]
      <4>1. \A k \in Chans : cch[k].life \in Nat /\ cch[k].chid \in Nat
        BY <1>1 DEF CliOK, CliType
      <4>2. \A k \in Chans : LeftCli(cch[k]) \in CliType
        BY <4>1 DEF LeftCli, NewCli, CliType
      <4> QED BY <3>1, <4>2
    <3> QED BY <1>1, <3>1, <3>2, EmptyTyped DEF CliOK, SrvOK, sVars
  <2>2. CASE p = "server"
    <3>1. /\ sch' = [k \in Chans |-> LeftSrv(sch[k])]
          /\ spool' = Empty /\ spool2' = Empty /\ UNCHANGED cVars
          /\ life'["server"] = life["server"] + 1 /\ life["server"] \in Nat
      BY <1>1, <2>2 DEF Restart, RestOK, Programs, Ids
    <3>2. \A k \in Chans : /\ sch[k].life \in Nat /\ sch[k].conv \in Convs \cup {NoConv}
                           /\ sch[k].chidcli \in Nat /\ sch[k].life <= life["server"]
                           /\ sch[k].life > 0 => sch[k].conv \in Convs
      BY <1>1 DEF SrvOK, SrvType
    <3>3. \A k \in Chans : /\ sch'[k] \in SrvType
                           /\ sch'[k].life = sch[k].life /\ sch'[k].conv = sch[k].conv
      <4>1. \A k \in Chans :
               LET r == LeftSrv(sch[k])
               IN  r \in SrvType /\ r.life = sch[k].life /\ r.conv = sch[k].conv
        BY <3>2 DEF LeftSrv, NewSrv, SrvType
      <4> QED BY <3>1, <4>1
    <3>4. ASSUME NEW k \in Chans
          PROVE  /\ sch'[k].life > 0 => sch'[k].conv \in Convs
                 /\ sch'[k].life <= life'["server"] /\ sch'[k].life # life'["server"]
      <4>1. sch'[k].life = sch[k].life /\ sch'[k].conv = sch[k].conv
        BY <3>3
      <4>2. life'["server"] = life["server"] + 1 /\ life["server"] \in Nat
        BY <3>1
      <4>3. /\ sch[k].life \in Nat /\ sch[k].life <= life["server"]
            /\ sch[k].life > 0 => sch[k].conv \in Convs
        BY <3>2
      <4> QED BY <4>1, <4>2, <4>3
    <3>5. sch' \in [Chans -> SrvType]
      BY <3>1, <3>3
    <3>6. spool' = Empty /\ spool2' = Empty
      BY <3>1
    <3>7. SrvOK'
      BY <3>4, <3>5, <3>6, EmptyTyped DEF SrvOK
    <3> QED BY <1>1, <3>1, <3>7, CliStays
  <2> QED BY <2>1, <2>2 DEF Programs
<1> QED BY <1>2, <1>3, <1>4, PartsNext

LEMMA TypedStep == ASSUME Typed, [Next]_vars PROVE Typed'
<1>1. CASE CliAck \/ CliLateAck \/ CliFin
  BY <1>1, CliAckTyped, CliLateAckTyped, CliFinTyped
<1>2. CASE SrvSyn \/ SrvFin
  BY <1>2, SrvSynTyped, SrvFinTyped
<1>3. ASSUME NEW k \in Chans, ClientStep(k) PROVE Typed'
  BY <1>3, CliConnectsTyped, CliTimeoutTyped, CliReaderEndsTyped, CliCloseEventTyped
     DEF ClientStep
<1>4. ASSUME NEW k \in Chans, ServerStep(k) PROVE Typed'
  BY <1>4, SrvPutTyped, SrvPut2Typed, SrvDialedTyped, SrvEndsTyped, SrvClosesTyped DEF ServerStep
<1>5. ASSUME NEW k \in Chans, Data(k) PROVE Typed'
  BY <1>5, DataTyped
<1>6. ASSUME NEW p \in Programs, Restart(p) PROVE Typed'
  BY <1>6, RestartTyped
<1>7. CASE UNCHANGED vars
  BY <1>7 DEF vars, cVars, sVars, queueVars, Typed, TypeOK, Numbered
<1> QED BY <1>1, <1>2, <1>3, <1>4, <1>5, <1>6, <1>7 DEF Next

LEMMA TypedCorrect == Spec => []Typed
<1>1. Typed /\ [Next]_vars => Typed'
  BY TypedStep
<1> QED BY TypedInit, <1>1, PTL DEF Spec

\* The types, for any channels and convs and any number of restarts.
THEOREM SessionsTyped == Spec => []TypeOK
<1>1. Typed => TypeOK
  BY DEF Typed
<1> QED BY <1>1, TypedCorrect, PTL
-----------------------------------------------------------------------------
(* Which channel a number finds *)

\* The client's numbers are its own within one life, and the pool is true.
CliNumbers ==
    /\ \A i \in Chans :
          /\ cch[i].life <= life["client"]
          /\ cch[i].life = life["client"] => cch[i].chid < chanid["client"]
          /\ \A j \in Chans : i # j /\ cch[i].life = cch[j].life /\ cch[i].life > 0 =>
                cch[i].chid # cch[j].chid
    /\ \A n \in DOMAIN cpool : cch[cpool[n]].chid = n /\ cch[cpool[n]].life = life["client"]

\* So are the server's; its channels of this life know the client's number.
SrvNumbers ==
    /\ \A i \in Chans :
          /\ sch[i].life > 0 => cch[i].life > 0
          /\ sch[i].life = life["server"] =>
                /\ sch[i].chidcli = cch[i].chid /\ sch[i].chid < chanid["server"]
                /\ \A j \in Chans : i # j /\ sch[j].life = life["server"] =>
                      sch[i].chid # sch[j].chid
    /\ \A n \in DOMAIN spool : sch[spool[n]].chid = n /\ sch[spool[n]].life = life["server"]
    /\ \A v \in DOMAIN spool2 : sch[spool2[v]].conv = v /\ sch[spool2[v]].life = life["server"]

\* A SYN under way is the only one of its channel, and the server does not
\* know the channel yet.
SynTrue ==
    \A a \in DOMAIN toServer : toServer[a].cmd = "SYN" =>
        /\ cch[toServer[a].of].life > 0 /\ sch[toServer[a].of].life = 0
        /\ toServer[a].chidcli = cch[toServer[a].of].chid
        /\ \A b \in DOMAIN toServer : a # b /\ toServer[b].cmd = "SYN" =>
              toServer[a].of # toServer[b].of

\* An ACK under way says what the server has.
AckTrue ==
    \A a \in DOMAIN toClient : toClient[a].cmd = "ACK" =>
        LET m == toClient[a]
        IN  /\ sch[m.of].life = life["server"] /\ m.chidsrv = sch[m.of].chid
            /\ m.chidcli = sch[m.of].chidcli /\ m.conv = sch[m.of].conv

\* The ACK a channel k has came for the server's channel for i.
CameFor(i, k) ==
    /\ i = k \/ Reused(i, k)
    /\ sch[i].life > 0 /\ sch[i].conv = cch[k].conv
    /\ sch[i].life = life["server"] => sch[i].chid = cch[k].chidsrv

Answered ==
    \A k \in Chans : cch[k].acked =>
        cch[k].life = life["client"] /\ \E i \in Chans : CameFor(i, k)

IdInv == CliNumbers /\ SrvNumbers /\ SynTrue /\ AckTrue /\ Answered

LEMMA IdInit == Init => IdInv
<1> SUFFICES ASSUME Init PROVE IdInv
  OBVIOUS
<1>1. \A k \in Chans : cch[k].life = 0 /\ sch[k].life = 0 /\ ~cch[k].acked
  BY DEF Init, NewCli, NewSrv
<1>2. /\ DOMAIN cpool = {} /\ DOMAIN spool = {} /\ DOMAIN spool2 = {}
      /\ DOMAIN toServer = {} /\ DOMAIN toClient = {}
      /\ life["client"] = 1 /\ life["server"] = 1
  BY DEF Init, Empty, Programs
<1>3. CliNumbers
  BY <1>1, <1>2 DEF CliNumbers
<1>4. SrvNumbers
  BY <1>1, <1>2 DEF SrvNumbers
<1> QED BY <1>1, <1>2, <1>3, <1>4 DEF IdInv, SynTrue, AckTrue, Answered

\* Steps that give no numbers and spread none.
QuietCli ==
    /\ \A i \in Chans :
          /\ cch'[i].life = cch[i].life /\ cch'[i].chid = cch[i].chid
          /\ cch'[i].acked => /\ cch[i].acked /\ cch'[i].conv = cch[i].conv
                              /\ cch'[i].chidsrv = cch[i].chidsrv
    /\ \A n \in DOMAIN cpool' : n \in DOMAIN cpool /\ cpool'[n] = cpool[n]

QuietSrv ==
    /\ \A i \in Chans : /\ sch'[i].life = sch[i].life /\ sch'[i].chid = sch[i].chid
                        /\ sch'[i].chidcli = sch[i].chidcli /\ sch'[i].conv = sch[i].conv
    /\ \A n \in DOMAIN spool' : n \in DOMAIN spool /\ spool'[n] = spool[n]
    /\ \A v \in DOMAIN spool2' : v \in DOMAIN spool2 /\ spool2'[v] = spool2[v]

QuietToServer ==
    \E d \in {0, 1} : \A a \in DOMAIN toServer' : toServer'[a].cmd = "SYN" =>
        a + d \in DOMAIN toServer /\ toServer'[a] = toServer[a + d]

QuietToClient ==
    \E d \in {0, 1} : \A a \in DOMAIN toClient' : toClient'[a].cmd = "ACK" =>
        a + d \in DOMAIN toClient /\ toClient'[a] = toClient[a + d]

LEMMA OfTyped ==
    ASSUME NEW q \in Seq(Message)
    PROVE  \A a \in DOMAIN q : q[a].of \in Chans
<1>1. \A a \in DOMAIN q : q[a] \in Message
  OBVIOUS
<1> QED BY <1>1, MessageFields

LEMMA SynStays ==
    ASSUME Typed, Typed', SynTrue, QuietToServer,
           \A i \in Chans : /\ cch[i].life > 0 => cch'[i].life > 0 /\ cch'[i].chid = cch[i].chid
                            /\ sch'[i].life = sch[i].life
    PROVE  SynTrue'
<1>1. PICK d \in {0, 1} : \A a \in DOMAIN toServer' : toServer'[a].cmd = "SYN" =>
         a + d \in DOMAIN toServer /\ toServer'[a] = toServer[a + d]
  BY DEF QuietToServer
<1>2. toServer' \in Seq(Message) /\ toServer \in Seq(Message)
  BY DEF Typed, TypeOK
<1>3. \A a \in DOMAIN toServer : toServer[a].of \in Chans
  BY <1>2, OfTyped
<1>4. DOMAIN toServer' \subseteq Nat
  BY <1>2
<1> QED BY <1>1, <1>3, <1>4 DEF SynTrue

LEMMA AckStays ==
    ASSUME Typed, AckTrue, QuietToClient, UNCHANGED life,
           \A i \in Chans : sch[i].life = life["server"] =>
               /\ sch'[i].life = sch[i].life /\ sch'[i].chid = sch[i].chid
               /\ sch'[i].chidcli = sch[i].chidcli /\ sch'[i].conv = sch[i].conv
    PROVE  AckTrue'
<1>1. PICK d \in {0, 1} : \A a \in DOMAIN toClient' : toClient'[a].cmd = "ACK" =>
         a + d \in DOMAIN toClient /\ toClient'[a] = toClient[a + d]
  BY DEF QuietToClient
<1>2. \A a \in DOMAIN toClient : toClient[a].of \in Chans
  BY OfTyped DEF Typed, TypeOK
<1> QED BY <1>1, <1>2 DEF AckTrue

LEMMA AnsweredStays ==
    ASSUME Answered, UNCHANGED life,
           \A i \in Chans : /\ sch[i].life > 0 => /\ sch'[i].life = sch[i].life
                                                  /\ sch'[i].chid = sch[i].chid
                                                  /\ sch'[i].conv = sch[i].conv
                                                  /\ cch'[i].life = cch[i].life
                                                  /\ cch'[i].chid = cch[i].chid
                            /\ cch'[i].acked => /\ cch[i].acked /\ cch'[i].conv = cch[i].conv
                                                /\ cch'[i].chidsrv = cch[i].chidsrv
                                                /\ cch'[i].life = cch[i].life
                                                /\ cch'[i].chid = cch[i].chid
    PROVE  Answered'
<1> SUFFICES ASSUME NEW k \in Chans, cch'[k].acked
             PROVE  cch'[k].life = life'["client"] /\ \E i \in Chans : CameFor(i, k)'
  BY DEF Answered
<1>1. PICK i \in Chans : CameFor(i, k)
  BY DEF Answered
<1>2. CameFor(i, k)'
  BY <1>1 DEF CameFor, Reused
<1> QED BY <1>2 DEF Answered

Quiet == QuietCli /\ QuietSrv /\ QuietToServer /\ QuietToClient /\ UNCHANGED <<chanid, life>>

LEMMA QuietKeeps == ASSUME IdInv, Typed, Typed', Quiet PROVE IdInv'
<1> USE DEF IdInv, Quiet
<1>1. cpool' \in [DOMAIN cpool' -> Chans] /\ spool' \in [DOMAIN spool' -> Chans]
      /\ spool2' \in [DOMAIN spool2' -> Chans]
  BY DEF Typed, TypeOK
<1>2. CliNumbers'
  BY <1>1 DEF CliNumbers, QuietCli
<1>3. SrvNumbers'
  BY <1>1 DEF SrvNumbers, QuietCli, QuietSrv
<1>4. SynTrue'
  BY SynStays DEF QuietCli, QuietSrv
<1>5. AckTrue'
  BY AckStays DEF QuietSrv
<1>6. Answered'
  BY AnsweredStays DEF QuietCli, QuietSrv
<1> QED BY <1>2, <1>3, <1>4, <1>5, <1>6

\* The queues: taking the first message, and sending what is no SYN or no ACK.
LEMMA QueueMoves ==
    ASSUME NEW q \in Seq(Message), NEW r, NEW cmd,
           \/ r = q
           \/ q # <<>> /\ r = Tail(q)
           \/ \E m \in Message : m.cmd # cmd /\ r = Append(q, m)
    PROVE  \E d \in {0, 1} : \A a \in DOMAIN r : r[a].cmd = cmd =>
               a + d \in DOMAIN q /\ r[a] = q[a + d]
<1>1. CASE r = q
  <2>1. \A a \in DOMAIN q : a + 0 = a
    OBVIOUS
  <2> QED BY <1>1, <2>1
<1>2. CASE q # <<>> /\ r = Tail(q)
  BY <1>2, HeadTyped
<1>3. ASSUME NEW m \in Message, m.cmd # cmd, r = Append(q, m)
      PROVE  \E d \in {0, 1} : \A a \in DOMAIN r : r[a].cmd = cmd =>
                 a + d \in DOMAIN q /\ r[a] = q[a + d]
  <2>1. \A a \in DOMAIN r : r[a].cmd = cmd => a \in DOMAIN q /\ r[a] = q[a]
    BY <1>3, AppendTyped
  <2>2. \A a \in DOMAIN q : a + 0 = a
    OBVIOUS
  <2> QED BY <2>1, <2>2
<1> QED BY <1>1, <1>2, <1>3

LEMMA QuietQueues ==
    ASSUME Typed
    PROVE  /\ toServer' = toServer => QuietToServer
           /\ toClient' = toClient => QuietToClient
           /\ \A cmd : FromClient(cmd) => QuietToServer
           /\ \A cmd : FromServer(cmd) => QuietToClient
           /\ \A m \in Message : ToServer(m) /\ m.cmd # "SYN" => QuietToServer
           /\ \A m \in Message : ToClient(m) /\ m.cmd # "ACK" => QuietToClient
<1>1. toServer \in Seq(Message) /\ toClient \in Seq(Message)
  BY DEF Typed, TypeOK
<1>2. toServer' = toServer => QuietToServer
  BY <1>1, QueueMoves DEF QuietToServer
<1>3. toClient' = toClient => QuietToClient
  BY <1>1, QueueMoves DEF QuietToClient
<1>4. \A cmd : FromClient(cmd) => QuietToServer
  BY <1>1, QueueMoves DEF QuietToServer, FromClient
<1>5. \A cmd : FromServer(cmd) => QuietToClient
  BY <1>1, QueueMoves DEF QuietToClient, FromServer
<1>6. \A m \in Message : ToServer(m) /\ m.cmd # "SYN" => QuietToServer
  BY <1>1, QueueMoves DEF QuietToServer, ToServer
<1>7. \A m \in Message : ToClient(m) /\ m.cmd # "ACK" => QuietToClient
  BY <1>1, QueueMoves DEF QuietToClient, ToClient
<1> QED BY <1>2, <1>3, <1>4, <1>5, <1>6, <1>7

\* A record that keeps its numbers, and a removal, are quiet.
SameNumbers(c, d) ==
    /\ c.life = d.life /\ c.chid = d.chid /\ c.conv = d.conv /\ c.chidsrv = d.chidsrv
    /\ c.acked = d.acked

LEMMA QuietClient ==
    ASSUME Typed, NEW k \in Chans, NEW ch \in CliType, SameNumbers(ch, cch[k]),
           cch' = [cch EXCEPT ![k] = ch],
           rmClient(k) \/ UNCHANGED <<cpool, cpool2>>
    PROVE  QuietCli
<1>1. \A n \in DOMAIN cpool' : n \in DOMAIN cpool /\ cpool'[n] = cpool[n]
  BY DEF rmClient, Delete
<1>2. cch \in [Chans -> CliType]
  BY DEF Typed, TypeOK
<1> QED BY <1>1, <1>2 DEF QuietCli, SameNumbers

LEMMA QuietServer ==
    ASSUME Typed, NEW k \in Chans, NEW ch \in SrvType,
           ch.life = sch[k].life, ch.chid = sch[k].chid, ch.chidcli = sch[k].chidcli,
           ch.conv = sch[k].conv, sch' = [sch EXCEPT ![k] = ch],
           rmServer(k) \/ UNCHANGED <<spool, spool2>>
    PROVE  QuietSrv
<1>1. /\ \A n \in DOMAIN spool' : n \in DOMAIN spool /\ spool'[n] = spool[n]
      /\ \A n \in DOMAIN spool2' : n \in DOMAIN spool2 /\ spool2'[n] = spool2[n]
  BY DEF rmServer, Delete
<1>2. sch \in [Chans -> SrvType]
  BY DEF Typed, TypeOK
<1> QED BY <1>1, <1>2 DEF QuietSrv

LEMMA StillQuiet ==
    /\ UNCHANGED <<cch, cpool>> => QuietCli
    /\ UNCHANGED <<sch, spool, spool2>> => QuietSrv
BY DEF QuietCli, QuietSrv

LEMMA CliPromiseQuiet ==
    ASSUME Typed, NEW k \in Chans, NEW ch \in CliType, SameNumbers(ch, cch[k]),
           CliPromise(k, ch)
    PROVE  QuietCli /\ QuietToServer
<1>1. PICK r \in CliType : SameNumbers(r, cch[k]) /\ cch' = [cch EXCEPT ![k] = r]
  <2>1. [ch EXCEPT !.client_close = TRUE] \in CliType
        /\ SameNumbers([ch EXCEPT !.client_close = TRUE], cch[k])
    BY DEF CliType, SameNumbers
  <2> QED BY <2>1 DEF CliPromise
<1>2. rmClient(k) \/ UNCHANGED <<cpool, cpool2>>
  BY DEF CliPromise
<1>3. toServer' = toServer \/ ToServer(Msg("FIN", ch.chid, ch.chidsrv, ch.conv, k))
  BY DEF CliPromise
<1>4. Msg("FIN", ch.chid, ch.chidsrv, ch.conv, k) \in Message
  BY MsgTyped DEF CliType
<1>5. Msg("FIN", ch.chid, ch.chidsrv, ch.conv, k).cmd # "SYN"
  BY DEF Msg
<1> QED BY <1>1, <1>2, <1>3, <1>4, <1>5, QuietClient, QuietQueues

LEMMA SrvPromiseQuiet ==
    ASSUME Typed, NEW k \in Chans, NEW ch \in SrvType,
           ch.life = sch[k].life, ch.chid = sch[k].chid, ch.chidcli = sch[k].chidcli,
           ch.conv = sch[k].conv, SrvPromise(k, ch)
    PROVE  QuietSrv /\ QuietToClient
<1>1. PICK r \in SrvType : /\ r.life = sch[k].life /\ r.chid = sch[k].chid
                           /\ r.chidcli = sch[k].chidcli /\ r.conv = sch[k].conv
                           /\ sch' = [sch EXCEPT ![k] = r]
  <2>1. LET r == [ch EXCEPT !.server_close = TRUE]
        IN  r \in SrvType /\ r.life = ch.life /\ r.chid = ch.chid /\ r.chidcli = ch.chidcli
            /\ r.conv = ch.conv
    BY DEF SrvType
  <2> QED BY <2>1 DEF SrvPromise
<1>2. rmServer(k) \/ UNCHANGED <<spool, spool2>>
  BY DEF SrvPromise
<1>3. toClient' = toClient \/ ToClient(Msg("FIN", ch.chidcli, ch.chid, ch.conv, k))
  BY DEF SrvPromise
<1>4. Msg("FIN", ch.chidcli, ch.chid, ch.conv, k) \in Message
  BY MsgTyped DEF SrvType
<1>5. Msg("FIN", ch.chidcli, ch.chid, ch.conv, k).cmd # "ACK"
  BY DEF Msg
<1> QED BY <1>1, <1>2, <1>3, <1>4, <1>5, QuietServer, QuietQueues

\* The quiet actions of the client.
LEMMA CliQuiet ==
    ASSUME Typed, NEW k \in Chans,
           CliTimeout(k) \/ CliReaderEnds(k) \/ CliCloseEvent(k)
    PROVE  Quiet
<1>1. cch[k] \in CliType /\ UNCHANGED <<sVars, toClient, life, chanid>>
  BY DEF Typed, TypeOK, CliTimeout, CliReaderEnds, CliCloseEvent, ServerStays
<1>2. QuietSrv /\ QuietToClient
  BY <1>1, StillQuiet, QuietQueues DEF sVars
<1>3. CASE CliTimeout(k)
  <2>1. rmClient(k) /\ UNCHANGED <<cch, toServer>>
    BY <1>3 DEF CliTimeout
  <2>2. QuietCli
    BY <2>1 DEF QuietCli, rmClient, Delete
  <2> QED BY <1>1, <1>2, <2>1, <2>2, QuietQueues DEF Quiet
<1>4. CASE CliReaderEnds(k)
  <2> DEFINE r == [cch[k] EXCEPT !.readers = @ - 1, !.client_close = TRUE, !.closes = @ + 1]
  <2>1. /\ cch' = [cch EXCEPT ![k] = r] /\ cch[k].readers > 0
        /\ UNCHANGED <<cpool, cpool2, toServer>>
    BY <1>4 DEF CliReaderEnds
  <2>2. r \in CliType /\ SameNumbers(r, cch[k])
    BY <1>1, <2>1, CliRead DEF CliType, SameNumbers
  <2> HIDE DEF r
  <2> QED BY <1>1, <1>2, <2>1, <2>2, QuietClient, QuietQueues DEF Quiet
<1>5. CASE CliCloseEvent(k)
  <2> DEFINE r == [cch[k] EXCEPT !.closes = @ - 1]
  <2>1. CliPromise(k, r) /\ cch[k].closes > 0
    BY <1>5 DEF CliCloseEvent
  <2>2. r \in CliType /\ SameNumbers(r, cch[k])
    BY <1>1, <2>1, CliTaken DEF CliType, SameNumbers
  <2> HIDE DEF r
  <2> QED BY <1>1, <1>2, <2>1, <2>2, CliPromiseQuiet DEF Quiet
<1> QED BY <1>3, <1>4, <1>5

LEMMA CliLateAckQuiet == ASSUME Typed, CliLateAck PROVE Quiet
<1> DEFINE m == [Head(toClient) EXCEPT !.cmd = "FIN"]
<1>1. FromServer("ACK") /\ ToServer(m) /\ UNCHANGED <<cVars, sVars, chanid, life>>
  BY DEF CliLateAck
<1>2. m \in Message /\ m.cmd # "SYN"
  BY <1>1, Parts, FromServerTyped, MessageFields
<1> QED BY <1>1, <1>2, StillQuiet, QuietQueues DEF Quiet, cVars, sVars

LEMMA CliFinQuiet == ASSUME Typed, CliFin PROVE Quiet
<1> DEFINE m == Head(toClient)
<1>1. FromServer("FIN") /\ UNCHANGED <<sVars, chanid, life>>
  BY DEF CliFin
<1>2. QuietSrv /\ QuietToClient
  BY <1>1, StillQuiet, QuietQueues DEF sVars
<1>3. CliOK
  BY Parts
<1>4. CASE m.conv \in DOMAIN cpool2
  <2> DEFINE k  == cpool2[m.conv]
             ch == [cch[k] EXCEPT !.server_close = TRUE]
  <2>1. k \in Chans /\ cch[k] \in CliType /\ CliPromise(k, ch)
    BY <1>3, <1>4 DEF CliOK, CliFin
  <2>2. ch \in CliType /\ SameNumbers(ch, cch[k])
    BY <2>1, CliFinned DEF CliType, SameNumbers
  <2> HIDE DEF k, ch
  <2> QED BY <1>1, <1>2, <2>1, <2>2, CliPromiseQuiet DEF Quiet
<1>5. CASE m.conv \notin DOMAIN cpool2 /\ m.chidcli \in DOMAIN cpool
  <2> DEFINE k == cpool[m.chidcli]
  <2>1. k \in Chans /\ cch[k] \in CliType /\ CliPromise(k, cch[k])
    BY <1>3, <1>5 DEF CliOK, CliFin
  <2>2. SameNumbers(cch[k], cch[k])
    BY DEF SameNumbers
  <2> HIDE DEF k
  <2> QED BY <1>1, <1>2, <2>1, <2>2, CliPromiseQuiet DEF Quiet
<1>6. CASE m.conv \notin DOMAIN cpool2 /\ m.chidcli \notin DOMAIN cpool
  <2>1. UNCHANGED <<cVars, toServer>>
    BY <1>6 DEF CliFin
  <2> QED BY <1>1, <1>2, <2>1, StillQuiet, QuietQueues DEF Quiet, cVars
<1> QED BY <1>4, <1>5, <1>6

\* The quiet actions of the server, and the data.
LEMMA SrvQuiet ==
    ASSUME Typed, NEW k \in Chans,
           \/ SrvDialFails(k) \/ SrvReaderEnds(k) \/ SrvCloseEvent(k) \/ kcpCheckClose(k)
    PROVE  Quiet
<1>1. /\ sch[k] \in SrvType /\ UNCHANGED <<cVars, life, chanid, toServer>>
  BY DEF Typed, TypeOK, SrvDialFails, SrvReaderEnds, SrvCloseEvent, kcpCheckClose, ClientStays,
         queueVars
<1>2. QuietCli /\ QuietToServer
  BY <1>1, StillQuiet, QuietQueues DEF cVars
<1>3. CASE SrvDialFails(k) \/ SrvReaderEnds(k)
  <2>1. PICK t \in {"failed", "ended"} :
           sch' = [sch EXCEPT ![k] = [sch[k] EXCEPT !.task = t, !.server_close = TRUE, !.closes = @ + 1]]
    BY <1>3 DEF SrvDialFails, SrvReaderEnds
  <2> DEFINE r == [sch[k] EXCEPT !.task = t, !.server_close = TRUE, !.closes = @ + 1]
  <2>2. UNCHANGED <<spool, spool2, toClient>>
    BY <1>3 DEF SrvDialFails, SrvReaderEnds, queueVars
  <2>3. /\ r \in SrvType /\ r.life = sch[k].life /\ r.chid = sch[k].chid
        /\ r.chidcli = sch[k].chidcli /\ r.conv = sch[k].conv
    BY <1>1, SrvEnded DEF SrvType
  <2>4. sch' = [sch EXCEPT ![k] = r]
    BY <2>1
  <2> HIDE DEF r
  <2> QED BY <1>1, <1>2, <2>2, <2>3, <2>4, QuietServer, QuietQueues DEF Quiet
<1>4. CASE SrvCloseEvent(k)
  <2> DEFINE r == [sch[k] EXCEPT !.closes = @ - 1]
  <2>1. SrvPromise(k, r) /\ sch[k].closes > 0
    BY <1>4 DEF SrvCloseEvent
  <2>2. /\ r \in SrvType /\ r.life = sch[k].life /\ r.chid = sch[k].chid
        /\ r.chidcli = sch[k].chidcli /\ r.conv = sch[k].conv
    BY <1>1, <2>1, SrvTaken DEF SrvType
  <2> HIDE DEF r
  <2> QED BY <1>1, <1>2, <2>1, <2>2, SrvPromiseQuiet DEF Quiet
<1>5. CASE kcpCheckClose(k)
  <2> DEFINE r == [sch[k] EXCEPT !.kcp_close = TRUE]
  <2>1. SrvPromise(k, r)
    BY <1>5 DEF kcpCheckClose
  <2>2. /\ r \in SrvType /\ r.life = sch[k].life /\ r.chid = sch[k].chid
        /\ r.chidcli = sch[k].chidcli /\ r.conv = sch[k].conv
    BY <1>1, SrvFlagged DEF SrvType
  <2> HIDE DEF r
  <2> QED BY <1>1, <1>2, <2>1, <2>2, SrvPromiseQuiet DEF Quiet
<1> QED BY <1>3, <1>4, <1>5

LEMMA SrvFinQuiet == ASSUME Typed, SrvFin PROVE Quiet
<1> DEFINE m == Head(toServer)
<1>1. FromClient("FIN") /\ UNCHANGED <<cVars, chanid, life>>
  BY DEF SrvFin, ClientStays
<1>2. QuietCli /\ QuietToServer
  BY <1>1, StillQuiet, QuietQueues DEF cVars
<1>3. SrvOK
  BY Parts
<1>4. CASE m.conv \in DOMAIN spool2
  <2> DEFINE k  == spool2[m.conv]
             ch == [sch[k] EXCEPT !.client_close = TRUE]
  <2>1. k \in Chans /\ sch[k] \in SrvType /\ SrvPromise(k, ch)
    BY <1>3, <1>4 DEF SrvOK, SrvFin
  <2>2. /\ ch \in SrvType /\ ch.life = sch[k].life /\ ch.chid = sch[k].chid
        /\ ch.chidcli = sch[k].chidcli /\ ch.conv = sch[k].conv
    BY <2>1, SrvFlagged DEF SrvType
  <2> HIDE DEF k, ch
  <2> QED BY <1>1, <1>2, <2>1, <2>2, SrvPromiseQuiet DEF Quiet
<1>5. CASE m.conv \notin DOMAIN spool2
  <2>1. UNCHANGED <<sVars, toClient>>
    BY <1>5 DEF SrvFin
  <2> QED BY <1>1, <1>2, <2>1, StillQuiet, QuietQueues DEF Quiet, sVars
<1> QED BY <1>4, <1>5

LEMMA DataQuiet == ASSUME Typed, NEW k \in Chans, Data(k) PROVE Quiet
<1> DEFINE m == Msg("FIN", 0, 0, sch[k].conv, k)
<1>1. UNCHANGED <<cVars, sVars, chanid, toClient, life>>
  BY DEF Data, DownNil, UpNil, DownUnknown, queueVars
<1>2. toServer' = toServer \/ ToServer(m)
  BY DEF Data, DownNil, UpNil, DownUnknown, queueVars
<1>3. 0 \in Nat /\ sch[k].conv \in Convs \cup {NoConv}
  BY DEF Typed, TypeOK, SrvType
<1>4. m \in Message
  BY <1>3, MsgTyped
<1>5. m.cmd # "SYN"
  BY DEF Msg
<1> HIDE DEF m
<1> QED BY <1>1, <1>2, <1>4, <1>5, StillQuiet, QuietQueues DEF Quiet, cVars, sVars

\* The actions that give or spread numbers.
LEMMA CliConnectsIds == ASSUME IdInv, Typed, Typed', NEW k \in Chans, CliConnects(k) PROVE IdInv'
<1> USE DEF IdInv
<1> DEFINE n == chanid["client"]
           r == [NewCli EXCEPT !.life = life["client"], !.chid = n]
           m == Msg("SYN", n, 0, NoConv, k)
<1>1. /\ cch[k].life = 0 /\ cch' = [cch EXCEPT ![k] = r] /\ cpool' = Put(cpool, n, k)
      /\ chanid' = [chanid EXCEPT !["client"] = @ + 1] /\ toServer' = Append(toServer, m)
      /\ UNCHANGED <<sch, spool, spool2, toClient, life>>
  BY DEF CliConnects, ServerStays, ToServer, nextChanid, sVars
<1>2. r.life = life["client"] /\ r.chid = n /\ r.acked = FALSE
  BY DEF NewCli
<1>3. /\ n \in Nat /\ life["client"] \in Nat /\ life["client"] > 0 /\ life["server"] > 0
      /\ chanid'["client"] = n + 1 /\ chanid'["server"] = chanid["server"]
      /\ toServer \in Seq(Message)
      /\ cpool \in [DOMAIN cpool -> Chans] /\ cch \in [Chans -> CliType]
  BY <1>1 DEF Typed, TypeOK, Programs, Ids
<1>4. /\ \A i \in Chans : cch[i].chid \in Nat /\ cch[i].life \in Nat /\ sch[i].life \in Nat
  BY DEF Typed, TypeOK, CliType, SrvType
<1>5. sch[k].life = 0
  BY <1>1, <1>4 DEF SrvNumbers
<1> HIDE DEF r
<1>6. cch'[k] = r /\ \A i \in Chans : i # k => cch'[i] = cch[i]
  BY <1>1, <1>3
<1>7. CliNumbers'
  <2>1. \A i \in DOMAIN cpool' : cch'[cpool'[i]].chid = i /\ cch'[cpool'[i]].life = life["client"]
    BY <1>1, <1>2, <1>3, <1>6 DEF CliNumbers, Put
  <2> QED BY <1>1, <1>2, <1>3, <1>4, <1>6, <2>1 DEF CliNumbers
<1>8. SrvNumbers'
  BY <1>1, <1>2, <1>3, <1>5, <1>6 DEF SrvNumbers
<1>9. SynTrue'
  <2>1. m.cmd = "SYN" /\ m.of = k /\ m.chidcli = n
    BY DEF Msg
  <2> HIDE DEF m
  <2>2. \A a \in DOMAIN toServer : toServer[a].of \in Chans
    BY <1>3, OfTyped
  <2>3. /\ DOMAIN toServer' = DOMAIN toServer \cup {Len(toServer) + 1}
        /\ toServer'[Len(toServer) + 1] = m
        /\ \A a \in DOMAIN toServer : toServer'[a] = toServer[a]
    BY <1>1, <1>3
  <2>4. \A a \in DOMAIN toServer : toServer[a].cmd = "SYN" => toServer[a].of # k
    BY <1>1, <1>4 DEF SynTrue
  <2> QED BY <1>1, <1>2, <1>3, <1>5, <1>6, <2>1, <2>2, <2>3, <2>4 DEF SynTrue
<1>10. AckTrue'
  BY <1>1, AckStays, QuietQueues
<1>11. Answered'
  <2>1. \A i \in Chans : sch[i].life > 0 => i # k
    BY <1>5
  <2> QED BY <1>1, <1>2, <1>6, <2>1, AnsweredStays
<1> QED BY <1>7, <1>8, <1>9, <1>10, <1>11

LEMMA CliAckIds == ASSUME IdInv, Typed, Typed', CliAck PROVE IdInv'
<1> USE DEF IdInv
<1>1. /\ FromServer("ACK")
      /\ UNCHANGED <<cpool, sch, spool, spool2, chanid, toServer, life>>
  BY DEF CliAck, sVars
<1>2. PICK m \in Message, k \in Chans, i \in Chans :
         /\ m = Head(toClient) /\ k = cpool[m.chidcli] /\ i = m.of
         /\ m.chidcli \in DOMAIN cpool /\ cch' = [cch EXCEPT ![k] = Acked(cch[k], m)]
  <2>1. Head(toClient) \in Message
    BY <1>1, Parts, FromServerTyped
  <2>2. Head(toClient).of \in Chans
    BY <2>1, MessageFields
  <2>3. Head(toClient).chidcli \in DOMAIN cpool => cpool[Head(toClient).chidcli] \in Chans
    BY DEF Typed, TypeOK
  <2> QED BY <2>1, <2>2, <2>3 DEF CliAck
<1>3. /\ cch[k].chid = m.chidcli /\ cch[k].life = life["client"]
      /\ life["client"] \in Nat /\ life["client"] > 0
      /\ life["server"] \in Nat /\ life["server"] > 0
  <2>1. cch[k].chid = m.chidcli /\ cch[k].life = life["client"]
    BY <1>2 DEF CliNumbers
  <2>2. life["client"] \in Ids /\ life["server"] \in Ids
    BY DEF Typed, TypeOK, Programs
  <2> QED BY <2>1, <2>2 DEF Ids
<1>4. /\ sch[i].life = life["server"] /\ m.chidsrv = sch[i].chid /\ m.chidcli = sch[i].chidcli
      /\ m.conv = sch[i].conv
  <2>1. 1 \in DOMAIN toClient /\ m = toClient[1] /\ toClient[1].cmd = "ACK"
    BY <1>1, <1>2, HeadTyped DEF FromServer, Typed, TypeOK
  <2> QED BY <1>2, <2>1 DEF AckTrue
<1>5. /\ cch'[k].life = cch[k].life /\ cch'[k].chid = cch[k].chid /\ cch'[k].acked
      /\ cch'[k].conv = m.conv /\ cch'[k].chidsrv = m.chidsrv
      /\ \A j \in Chans : j # k => cch'[j] = cch[j]
  <2>1. cch \in [Chans -> CliType] /\ cch[k] \in CliType
    BY <1>2 DEF Typed, TypeOK
  <2>2. LET r == Acked(cch[k], m)
        IN  /\ r.life = cch[k].life /\ r.chid = cch[k].chid /\ r.acked
            /\ r.conv = m.conv /\ r.chidsrv = m.chidsrv
    BY <2>1 DEF Acked, CliType
  <2> QED BY <1>1, <1>2, <2>1, <2>2
<1>6. i = k \/ Reused(i, k)
  <2>1. cch[i].chid = cch[k].chid /\ cch[i].life <= cch[k].life /\ cch[i].life \in Nat
    BY <1>2, <1>3, <1>4 DEF CliNumbers, SrvNumbers, Typed, TypeOK, CliType
  <2>2. i # k => cch[i].life # cch[k].life
    BY <1>2, <1>3, <2>1 DEF CliNumbers
  <2> QED BY <1>2, <1>3, <2>1, <2>2 DEF Reused
<1>7. \A j \in Chans : cch'[j].life = cch[j].life /\ cch'[j].chid = cch[j].chid
  BY <1>5
<1>8. CliNumbers'
  <2>1. cpool \in [DOMAIN cpool -> Chans]
    BY DEF Typed, TypeOK
  <2> QED BY <1>1, <1>7, <2>1 DEF CliNumbers
<1>9. SrvNumbers'
  BY <1>1, <1>7 DEF SrvNumbers
<1>10. SynTrue' /\ AckTrue'
  BY <1>1, <1>7, SynStays, AckStays, QuietQueues
<1>11. Answered'
  <2> SUFFICES ASSUME NEW j \in Chans, cch'[j].acked
               PROVE  cch'[j].life = life'["client"] /\ \E h \in Chans : CameFor(h, j)'
    BY DEF Answered
  <2>1. CASE j = k
    <3>1. CameFor(i, k)'
      BY <1>1, <1>3, <1>4, <1>5, <1>6, <1>7 DEF CameFor, Reused
    <3> QED BY <1>1, <1>3, <1>5, <2>1, <3>1
  <2>2. CASE j # k
    <3>1. cch'[j] = cch[j] /\ cch[j].acked
      BY <1>5, <2>2
    <3>2. PICK h \in Chans : CameFor(h, j)
      BY <3>1 DEF Answered
    <3>3. CameFor(h, j)'
      BY <1>1, <1>7, <3>1, <3>2 DEF CameFor, Reused
    <3> QED BY <1>1, <3>1, <3>3 DEF Answered
  <2> QED BY <2>1, <2>2
<1> QED BY <1>8, <1>9, <1>10, <1>11

LEMMA SrvSynIds == ASSUME IdInv, Typed, Typed', SrvSyn PROVE IdInv'
<1> USE DEF IdInv
<1> DEFINE n == chanid["server"]
<1>1. /\ FromClient("SYN") /\ chanid' = [chanid EXCEPT !["server"] = @ + 1]
      /\ UNCHANGED <<cch, cpool, life, spool, spool2, toClient>>
  BY DEF SrvSyn, ClientStays, nextChanid, cVars
<1>2. PICK m \in Message, conv \in Convs :
         m = Head(toServer) /\ sch' = [sch EXCEPT ![m.of] = Channel(m, conv)]
  <2>1. Head(toServer) \in Message
    BY <1>1, Parts, FromClientTyped
  <2> QED BY <2>1 DEF SrvSyn
<1>3. PICK k \in Chans : k = m.of
  BY MessageFields
<1>4. /\ toServer \in Seq(Message) /\ 1 \in DOMAIN toServer /\ m = toServer[1] /\ m.cmd = "SYN"
      /\ toServer' = Tail(toServer)
      /\ \A a \in DOMAIN toServer' : a + 1 \in DOMAIN toServer /\ toServer'[a] = toServer[a + 1]
      /\ \A a \in DOMAIN toServer' : a \in Nat /\ a + 1 # 1
  BY <1>1, <1>2, HeadTyped DEF FromClient, Typed, TypeOK
<1>5. cch[k].life > 0 /\ sch[k].life = 0 /\ m.chidcli = cch[k].chid
  BY <1>3, <1>4 DEF SynTrue
<1>6. n \in Nat /\ life["server"] \in Nat /\ life["server"] > 0
      /\ chanid'["server"] = n + 1 /\ chanid'["client"] = chanid["client"]
  <2>1. chanid \in [Programs -> Ids] /\ life["server"] \in Ids
    BY DEF Typed, TypeOK, Programs
  <2> QED BY <1>1, <2>1 DEF Ids, Programs
<1>7. /\ sch'[k].life = life["server"] /\ sch'[k].chid = n /\ sch'[k].chidcli = m.chidcli
      /\ \A i \in Chans : i # k => sch'[i] = sch[i]
  <2>1. sch \in [Chans -> SrvType]
    BY DEF Typed, TypeOK
  <2>2. LET r == Channel(m, conv)
        IN  r.life = life["server"] /\ r.chid = n /\ r.chidcli = m.chidcli
    BY Parts, ChannelTyped
  <2> QED BY <1>2, <1>3, <2>1, <2>2
<1>8. \A i \in Chans : sch[i].life \in Nat /\ sch[i].chid \in Nat
  BY DEF Typed, TypeOK, SrvType
<1> HIDE DEF n
<1>9. CliNumbers'
  BY <1>1, <1>6 DEF CliNumbers
<1>10. SrvNumbers'
  <2>1. /\ spool \in [DOMAIN spool -> Chans] /\ spool2 \in [DOMAIN spool2 -> Chans]
    BY DEF Typed, TypeOK
  <2>2. /\ \A j \in DOMAIN spool : spool[j] # k
        /\ \A v \in DOMAIN spool2 : spool2[v] # k
    BY <1>5, <1>6 DEF SrvNumbers
  <2>3. /\ \A j \in DOMAIN spool : sch'[spool[j]] = sch[spool[j]]
        /\ \A v \in DOMAIN spool2 : sch'[spool2[v]] = sch[spool2[v]]
    BY <1>7, <2>1, <2>2
  <2>4. \A i \in Chans : i # k /\ sch[i].life = life["server"] => sch[i].chid < n
    BY DEF SrvNumbers, n
  <2>5. \A i \in Chans :
           /\ sch'[i].life > 0 => cch[i].life > 0
           /\ sch'[i].life = life["server"] =>
                 /\ sch'[i].chidcli = cch[i].chid /\ sch'[i].chid < chanid'["server"]
                 /\ \A j \in Chans : i # j /\ sch'[j].life = life["server"] =>
                       sch'[i].chid # sch'[j].chid
    <3> TAKE i \in Chans
    <3>1. CASE i = k
      BY <1>5, <1>6, <1>7, <1>8, <2>4, <3>1
    <3>2. CASE i # k
      BY <1>6, <1>7, <1>8, <2>4, <3>2 DEF SrvNumbers, n
    <3> QED BY <3>1, <3>2
  <2> QED BY <1>1, <2>3, <2>5 DEF SrvNumbers
<1>11. SynTrue'
  <2> SUFFICES ASSUME NEW a \in DOMAIN toServer', toServer'[a].cmd = "SYN"
               PROVE  /\ cch[toServer'[a].of].life > 0 /\ sch'[toServer'[a].of].life = 0
                      /\ toServer'[a].chidcli = cch[toServer'[a].of].chid
                      /\ \A b \in DOMAIN toServer' : a # b /\ toServer'[b].cmd = "SYN" =>
                            toServer'[a].of # toServer'[b].of
    BY <1>1 DEF SynTrue
  <2>1. a + 1 \in DOMAIN toServer /\ toServer'[a] = toServer[a + 1] /\ a + 1 # 1 /\ a \in Nat
    BY <1>4
  <2>2. toServer[a + 1].of # k /\ toServer[a + 1].of \in Chans
    BY <1>3, <1>4, <2>1, OfTyped DEF SynTrue
  <2>3. \A b \in DOMAIN toServer' : a # b /\ toServer'[b].cmd = "SYN" =>
           toServer'[a].of # toServer'[b].of
    <3> SUFFICES ASSUME NEW b \in DOMAIN toServer', a # b, toServer'[b].cmd = "SYN"
                 PROVE  toServer'[a].of # toServer'[b].of
      OBVIOUS
    <3>1. b + 1 \in DOMAIN toServer /\ toServer'[b] = toServer[b + 1] /\ b \in Nat /\ a + 1 # b + 1
      BY <1>4, <2>1
    <3> QED BY <2>1, <3>1 DEF SynTrue
  <2> QED BY <1>7, <2>1, <2>2, <2>3 DEF SynTrue
<1>12. AckTrue'
  <2>1. \A i \in Chans : sch[i].life = life["server"] => i # k
    BY <1>5, <1>6
  <2> QED BY <1>1, <1>7, <2>1, AckStays, QuietQueues
<1>13. Answered'
  <2>1. \A i \in Chans : sch[i].life > 0 => i # k
    BY <1>5
  <2> QED BY <1>1, <1>7, <2>1, AnsweredStays
<1> QED BY <1>9, <1>10, <1>11, <1>12, <1>13

LEMMA SrvPutIds ==
    ASSUME IdInv, Typed, Typed', NEW k \in Chans, SrvPut(k) \/ SrvPut2(k)
    PROVE  IdInv'
<1> USE DEF IdInv
<1>1. /\ sch[k].life = life["server"]
      /\ UNCHANGED <<cch, cpool, life, chanid, toServer, toClient>>
  BY DEF SrvPut, SrvPut2, SrvLives, ClientStays, cVars, queueVars
<1>2. /\ sch \in [Chans -> SrvType] /\ spool \in [DOMAIN spool -> Chans]
      /\ spool2 \in [DOMAIN spool2 -> Chans]
  BY DEF Typed, TypeOK
<1>3. \A i \in Chans : /\ sch'[i].life = sch[i].life /\ sch'[i].chid = sch[i].chid
                       /\ sch'[i].chidcli = sch[i].chidcli /\ sch'[i].conv = sch[i].conv
  <2>1. PICK t \in {"pool2", "dial"} : sch' = [sch EXCEPT ![k] = [sch[k] EXCEPT !.task = t]]
    BY DEF SrvPut, SrvPut2
  <2>2. LET r == [sch[k] EXCEPT !.task = t]
        IN  /\ r.life = sch[k].life /\ r.chid = sch[k].chid /\ r.chidcli = sch[k].chidcli
            /\ r.conv = sch[k].conv
    BY <1>2 DEF SrvType
  <2> QED BY <1>2, <2>1, <2>2
<1>4. \A j \in DOMAIN spool' : spool'[j] \in Chans /\ sch[spool'[j]].chid = j
                               /\ sch[spool'[j]].life = life["server"]
  BY <1>1, <1>2 DEF SrvPut, SrvPut2, Put, SrvNumbers
<1>5. \A v \in DOMAIN spool2' : spool2'[v] \in Chans /\ sch[spool2'[v]].conv = v
                                /\ sch[spool2'[v]].life = life["server"]
  BY <1>1, <1>2 DEF SrvPut, SrvPut2, Put, SrvNumbers
<1>6. CliNumbers'
  BY <1>1 DEF CliNumbers
<1>7. SrvNumbers'
  BY <1>1, <1>3, <1>4, <1>5 DEF SrvNumbers
<1>8. SynTrue' /\ AckTrue' /\ Answered'
  BY <1>1, <1>3, SynStays, AckStays, AnsweredStays, QuietQueues
<1> QED BY <1>6, <1>7, <1>8

LEMMA SrvDialedIds == ASSUME IdInv, Typed, Typed', NEW k \in Chans, SrvDialed(k) PROVE IdInv'
<1> USE DEF IdInv
<1> DEFINE m == Msg("ACK", sch[k].chidcli, sch[k].chid, sch[k].conv, k)
<1>1. /\ sch[k].life = life["server"] /\ toClient' = Append(toClient, m)
      /\ sch' = [sch EXCEPT ![k] = [sch[k] EXCEPT !.task = "open"]]
      /\ UNCHANGED <<cch, cpool, life, chanid, toServer, spool, spool2>>
  BY DEF SrvDialed, SrvLives, ClientStays, cVars, ToClient
<1>2. sch \in [Chans -> SrvType] /\ toClient \in Seq(Message)
  BY DEF Typed, TypeOK
<1>3. \A i \in Chans : /\ sch'[i].life = sch[i].life /\ sch'[i].chid = sch[i].chid
                       /\ sch'[i].chidcli = sch[i].chidcli /\ sch'[i].conv = sch[i].conv
  <2>1. LET r == [sch[k] EXCEPT !.task = "open"]
        IN  /\ r.life = sch[k].life /\ r.chid = sch[k].chid /\ r.chidcli = sch[k].chidcli
            /\ r.conv = sch[k].conv
    BY <1>2 DEF SrvType
  <2> QED BY <1>1, <1>2, <2>1
<1>4. QuietSrv /\ QuietCli
  BY <1>1, <1>3 DEF QuietSrv, QuietCli
<1>5. CliNumbers' /\ SynTrue' /\ Answered'
  BY <1>1, <1>3, SynStays, AnsweredStays, QuietQueues DEF CliNumbers
<1>6. SrvNumbers'
  <2>1. spool \in [DOMAIN spool -> Chans] /\ spool2 \in [DOMAIN spool2 -> Chans]
    BY DEF Typed, TypeOK
  <2> QED BY <1>1, <1>3, <2>1 DEF SrvNumbers
<1>7. AckTrue'
  <2>1. m.of = k /\ m.chidcli = sch[k].chidcli /\ m.chidsrv = sch[k].chid /\ m.conv = sch[k].conv
    BY MsgFields
  <2>2. 0 \in Nat /\ m \in Message
    <3>1. sch[k].chidcli \in Nat /\ sch[k].chid \in Nat /\ sch[k].conv \in Convs \cup {NoConv}
      BY <1>2 DEF SrvType
    <3> QED BY <3>1, MsgTyped
  <2> HIDE DEF m
  <2>3. \A a \in DOMAIN toClient' : (a \in DOMAIN toClient /\ toClient'[a] = toClient[a])
                                    \/ toClient'[a] = m
    BY <1>1, <1>2, <2>2, AppendTyped
  <2>4. \A a \in DOMAIN toClient : toClient[a].of \in Chans
    BY <1>2, OfTyped
  <2> QED BY <1>1, <1>3, <2>1, <2>3, <2>4 DEF AckTrue
<1> QED BY <1>5, <1>6, <1>7

LEMMA RestartIds == ASSUME IdInv, Typed, Typed', NEW p \in Programs, Restart(p) PROVE IdInv'
<1> USE DEF IdInv
<1>1. DOMAIN toServer' = {} /\ DOMAIN toClient' = {}
  <2>1. toServer' = <<>> /\ toClient' = <<>>
    BY DEF Restart
  <2>2. DOMAIN <<>> = {}
    OBVIOUS
  <2> QED BY <2>1, <2>2
<1>2. SynTrue' /\ AckTrue'
  BY <1>1 DEF SynTrue, AckTrue
<1>3. /\ life["client"] \in Nat /\ life["server"] \in Nat
      /\ life["client"] > 0 /\ life["server"] > 0
      /\ chanid \in [Programs -> Ids] /\ life \in [Programs -> Ids]
  <2>1. chanid \in [Programs -> Ids] /\ life \in [Programs -> Ids]
    BY DEF Typed, TypeOK
  <2>2. life["client"] \in Ids /\ life["server"] \in Ids
    BY <2>1 DEF Programs
  <2> QED BY <2>1, <2>2 DEF Ids
<1>4. \A i \in Chans : /\ cch[i].life \in Nat /\ cch[i].chid \in Nat
                       /\ sch[i].life \in Nat /\ sch[i].life <= life["server"]
  BY DEF Typed, TypeOK, Numbered, CliType, SrvType
<1>5. DOMAIN Empty = {}
  BY DEF Empty
<1>6. CASE p = "client"
  <2>1. /\ life'["client"] = life["client"] + 1 /\ life'["server"] = life["server"]
        /\ chanid'["server"] = chanid["server"]
        /\ DOMAIN cpool' = {} /\ UNCHANGED <<sch, spool, spool2>>
    BY <1>3, <1>5, <1>6 DEF Restart, sVars, Programs
  <2>2. \A i \in Chans : cch'[i].life = cch[i].life /\ cch'[i].chid = cch[i].chid /\ ~cch'[i].acked
    <3>1. cch' = [i \in Chans |-> LeftCli(cch[i])]
      BY <1>6 DEF Restart
    <3>2. \A i \in Chans : LET r == LeftCli(cch[i])
                           IN  r.life = cch[i].life /\ r.chid = cch[i].chid /\ ~r.acked
      BY DEF LeftCli, NewCli
    <3> QED BY <3>1, <3>2
  <2>3. CliNumbers'
    BY <1>3, <1>4, <2>1, <2>2 DEF CliNumbers
  <2>4. SrvNumbers'
    BY <2>1, <2>2 DEF SrvNumbers
  <2>5. Answered'
    BY <2>2 DEF Answered
  <2> QED BY <1>2, <2>3, <2>4, <2>5
<1>7. CASE p = "server"
  <2>1. /\ life'["server"] = life["server"] + 1 /\ life'["client"] = life["client"]
        /\ chanid'["client"] = chanid["client"]
        /\ DOMAIN spool' = {} /\ DOMAIN spool2' = {} /\ UNCHANGED <<cch, cpool>>
    BY <1>3, <1>5, <1>7 DEF Restart, cVars, Programs
  <2>2. \A i \in Chans : sch'[i].life = sch[i].life /\ sch'[i].conv = sch[i].conv
    <3>1. sch' = [i \in Chans |-> LeftSrv(sch[i])]
      BY <1>7 DEF Restart
    <3>2. \A i \in Chans : LET r == LeftSrv(sch[i])
                           IN  r.life = sch[i].life /\ r.conv = sch[i].conv
      BY DEF LeftSrv, NewSrv
    <3> QED BY <3>1, <3>2
  <2>3. \A i \in Chans : sch'[i].life # life'["server"]
    BY <1>3, <1>4, <2>1, <2>2
  <2>4. CliNumbers'
    BY <2>1 DEF CliNumbers
  <2>5. SrvNumbers'
    BY <2>1, <2>2, <2>3 DEF SrvNumbers
  <2>6. Answered'
    <3> SUFFICES ASSUME NEW k \in Chans, cch'[k].acked
                 PROVE  cch'[k].life = life'["client"] /\ \E i \in Chans : CameFor(i, k)'
      BY DEF Answered
    <3>1. PICK i \in Chans : CameFor(i, k)
      BY <2>1 DEF Answered
    <3>2. CameFor(i, k)'
      BY <2>1, <2>2, <2>3, <3>1 DEF CameFor, Reused
    <3> QED BY <2>1, <3>2 DEF Answered
  <2> QED BY <1>2, <2>4, <2>5, <2>6
<1> QED BY <1>6, <1>7 DEF Programs

LEMMA IdStep == ASSUME IdInv, Typed, Typed', [Next]_vars PROVE IdInv'
<1>1. CASE CliAck \/ CliLateAck \/ CliFin
  BY <1>1, CliAckIds, CliLateAckQuiet, CliFinQuiet, QuietKeeps
<1>2. CASE SrvSyn \/ SrvFin
  BY <1>2, SrvSynIds, SrvFinQuiet, QuietKeeps
<1>3. ASSUME NEW k \in Chans, ClientStep(k) PROVE IdInv'
  BY <1>3, CliConnectsIds, CliQuiet, QuietKeeps DEF ClientStep
<1>4. ASSUME NEW k \in Chans, ServerStep(k) PROVE IdInv'
  BY <1>4, SrvPutIds, SrvDialedIds, SrvQuiet, QuietKeeps DEF ServerStep
<1>5. ASSUME NEW k \in Chans, Data(k) PROVE IdInv'
  BY <1>5, DataQuiet, QuietKeeps
<1>6. ASSUME NEW p \in Programs, Restart(p) PROVE IdInv'
  BY <1>6, RestartIds
<1>7. CASE UNCHANGED vars
  <2>1. UNCHANGED <<cch, cpool, sch, spool, spool2, chanid, toServer, toClient, life>>
    BY <1>7 DEF vars, cVars, sVars, queueVars
  <2> QED BY <2>1, StillQuiet, QuietQueues, QuietKeeps DEF Quiet
<1> QED BY <1>1, <1>2, <1>3, <1>4, <1>5, <1>6, <1>7 DEF Next

LEMMA IdCorrect == Spec => []IdInv
<1>1. Typed /\ [Next]_vars => Typed'
  BY TypedStep
<1>2. IdInv /\ Typed /\ Typed' /\ [Next]_vars => IdInv'
  BY IdStep
<1> QED BY TypedInit, IdInit, <1>1, <1>2, PTL DEF Spec

\* Down: the message names the client's number of h.  If h is k, the client's
\* channel of this life with that number is k, or k is of an earlier life.
LEMMA DownIsolated ==
    ASSUME Typed, IdInv, NEW h \in Chans, NEW k \in Chans, Downward(h, k),
           sch[h].chidcli \in DOMAIN cpool
    PROVE  LET j == cpool[sch[h].chidcli]
           IN  k = j \/ Reused(k, j) \/ (h # k /\ SharedConv(sch[k].conv))
<1>1. CASE h # k
  <2>1. sch[h].life > 0 /\ sch[k].life > 0 /\ sch[h].conv = sch[k].conv
    <3>1. life["server"] > 0
      BY DEF Typed, TypeOK, Programs, Ids
    <3> QED BY <3>1 DEF Downward, MayHaveRead, SrvLives
  <2>2. Clash(h, k) /\ sch[h].conv = sch[k].conv
    BY <1>1, <2>1 DEF Clash
  <2> QED BY <1>1, <2>2 DEF SharedConv
<1>2. CASE h = k
  <2>1. PICK j \in Chans : j = cpool[sch[k].chidcli]
    BY <1>2 DEF Typed, TypeOK
  <2>2. sch[k].chidcli = cch[k].chid /\ cch[k].life <= life["client"]
    BY DEF IdInv, SrvNumbers, CliNumbers, Downward, SrvLives
  <2>3. cch[j].chid = sch[k].chidcli /\ cch[j].life = life["client"]
    BY <1>2, <2>1 DEF IdInv, CliNumbers
  <2>4. life["client"] \in Nat /\ life["client"] > 0 /\ cch[k].life \in Nat
    <3>1. life["client"] \in Ids
      BY DEF Typed, TypeOK, Programs
    <3>2. cch[k].life \in Nat
      BY DEF Typed, TypeOK, CliType
    <3> QED BY <3>1, <3>2 DEF Ids
  <2>5. j # k => cch[k].life # cch[j].life
    BY <2>2, <2>3, <2>4 DEF IdInv, CliNumbers
  <2> QED BY <1>2, <2>1, <2>2, <2>3, <2>4, <2>5 DEF Reused
<1> QED BY <1>1, <1>2

\* Two answered channels with one conv: the server has given it twice.
LEMMA AckedApart ==
    ASSUME Typed, IdInv, NEW j \in Chans, NEW k \in Chans, j # k, cch[j].acked, cch[k].acked,
           cch[j].conv = cch[k].conv
    PROVE  SharedConv(cch[j].conv)
<1>1. PICK h \in Chans : CameFor(h, j)
  BY DEF IdInv, Answered
<1>2. PICK i \in Chans : CameFor(i, k)
  BY DEF IdInv, Answered
<1>3. h # i
  <2> SUFFICES ASSUME h = i PROVE FALSE
    OBVIOUS
  <2>1. cch[j].chid = cch[k].chid
    BY <1>1, <1>2 DEF CameFor, Reused
  <2>2. cch[j].life = life["client"] /\ cch[k].life = life["client"] /\ life["client"] > 0
    BY DEF IdInv, Answered, Typed, TypeOK, Programs, Ids
  <2> QED BY <2>1, <2>2 DEF IdInv, CliNumbers
<1>4. Clash(h, i) /\ sch[h].conv = cch[j].conv
  BY <1>1, <1>2, <1>3 DEF CameFor, Clash
<1> QED BY <1>4 DEF SharedConv

\* Up: the message names the server's number of i.  If i is k, the ACK of k came
\* for a channel h: if h is of this life of the server, the number names h; if
\* not, the channel that has the conv now is another than h.
LEMMA UpIsolated ==
    ASSUME Typed, IdInv, NEW i \in Chans, NEW k \in Chans, Upward(i, k),
           cch[i].chidsrv \in DOMAIN spool
    PROVE  LET j == spool[cch[i].chidsrv]
           IN  k = j \/ Reused(j, k) \/ SharedConv(cch[k].conv)
<1>1. CASE i # k
  BY <1>1, AckedApart DEF Upward
<1>2. CASE i = k
  <2>1. PICK j \in Chans : j = spool[cch[k].chidsrv]
    BY <1>2 DEF Typed, TypeOK
  <2>2. PICK h \in Chans : CameFor(h, k)
    BY DEF IdInv, Answered, Upward
  <2>3. PICK m \in Chans : m = spool2[cch[k].conv]
    BY DEF Typed, TypeOK, Upward
  <2>4. sch[j].chid = cch[k].chidsrv /\ sch[j].life = life["server"]
    BY <1>2, <2>1 DEF IdInv, SrvNumbers
  <2>5. sch[m].conv = cch[k].conv /\ sch[m].life = life["server"]
    BY <2>3 DEF IdInv, SrvNumbers, Upward
  <2>6. CASE sch[h].life = life["server"]
    <3>1. sch[h].chid = sch[j].chid
      BY <2>2, <2>4, <2>6 DEF CameFor
    <3>2. h = j
      BY <2>4, <2>6, <3>1 DEF IdInv, SrvNumbers
    <3> QED BY <1>2, <2>1, <2>2, <3>2 DEF CameFor
  <2>7. CASE sch[h].life # life["server"]
    <3>1. life["server"] > 0
      BY DEF Typed, TypeOK, Programs, Ids
    <3>2. Clash(m, h) /\ sch[m].conv = cch[k].conv
      BY <2>2, <2>5, <2>7, <3>1 DEF Clash, CameFor
    <3> QED BY <3>2 DEF SharedConv
  <2> QED BY <2>6, <2>7
<1> QED BY <1>1, <1>2

\* Data of one connection is never written to another, but for the two cases
\* Isolation names, the fragments of two channels with one conv included: for
\* any channels and convs and any number of restarts.
THEOREM ChannelsIsolated == Spec => []Isolation
<1>1. Typed /\ IdInv => Isolation
  BY DownIsolated, UpIsolated DEF Isolation
<1> QED BY <1>1, TypedCorrect, IdCorrect, PTL
=============================================================================
