------------------------- MODULE SessionsPoolsProofs -------------------------
(* Proofs about Sessions: what the maps of ChannelPool hold, who can find no *)
(* connection, and the counters.                                            *)
EXTENDS SessionsProofs, FiniteSetTheorems

-----------------------------------------------------------------------------
(* The server's maps *)

\* The server's Channel for k is of this life of the server.
Current(k) == sch[k].life = life["server"]

\* A Channel is closed only after putServer has run to its end.  Until then it
\* has no close flag; its reader leaves the flag with the close event.
Tasks ==
    \A k \in Chans :
        /\ sch[k].closes > 0 => sch[k].server_close
        /\ Current(k) =>
              /\ sch[k].task # "none"
              /\ sch[k].task \in {"pool", "pool2"} => ~sch[k].server_close
              /\ sch[k].task = "pool2" => Holds(spool, k)
              /\ Holds(spool, k) => sch[k].task # "pool"

\* What pool2 names is in pool, and past putServer.
Spool2True ==
    \A v \in DOMAIN spool2 : /\ Holds(spool, spool2[v])
                             /\ sch[spool2[v]].task \notin {"pool", "pool2"}

\* The server's half of FoundByConv.
SrvFound ==
    \A k \in Chans : Holds(spool, k) /\ sch[k].task # "pool2" =>
        \/ sch[k].conv \in DOMAIN spool2 /\ spool2[sch[k].conv] = k
        \/ SharedConv(sch[k].conv)

SrvPools == Tasks /\ Spool2True /\ SrvFound

\* A channel is in the pool under its own number only.
LEMMA SrvHolds ==
    ASSUME Typed, IdInv
    PROVE  \A k \in Chans : /\ Holds(spool, k) <=> /\ sch[k].chid \in DOMAIN spool
                                                   /\ spool[sch[k].chid] = k
                            /\ Holds(spool, k) => Current(k)
BY DEF Typed, TypeOK, IdInv, SrvNumbers, Holds, Current

LEMMA CliHolds ==
    ASSUME Typed, IdInv
    PROVE  \A k \in Chans : /\ Holds(cpool, k) <=> /\ cch[k].chid \in DOMAIN cpool
                                                   /\ cpool[cch[k].chid] = k
                            /\ Holds(cpool, k) => cch[k].life = life["client"]
BY DEF Typed, TypeOK, IdInv, CliNumbers, Holds

\* A removal takes out the one channel and its conv.
LEMMA rmServerHolds ==
    ASSUME Typed, IdInv, NEW k \in Chans, Current(k), rmServer(k)
    PROVE  /\ \A i \in Chans : Holds(spool', i) <=> Holds(spool, i) /\ i # k
           /\ DOMAIN spool2' = DOMAIN spool2 \ {sch[k].conv}
           /\ \A v \in DOMAIN spool2' : spool2'[v] = spool2[v]
<1>1. spool' = Delete(spool, sch[k].chid) /\ spool2' = Delete(spool2, sch[k].conv)
  BY DEF rmServer
<1>2. \A n \in DOMAIN spool : /\ spool[n] \in Chans /\ sch[spool[n]].chid = n
                              /\ sch[spool[n]].life = life["server"]
  BY DEF Typed, TypeOK, IdInv, SrvNumbers
<1>3. \A n \in DOMAIN spool : n = sch[k].chid <=> spool[n] = k
  BY <1>2 DEF IdInv, SrvNumbers, Current
<1> QED BY <1>1, <1>3 DEF Delete, Holds

LEMMA rmClientHolds ==
    ASSUME Typed, IdInv, NEW k \in Chans, cch[k].life = life["client"], rmClient(k)
    PROVE  /\ \A i \in Chans : Holds(cpool', i) <=> Holds(cpool, i) /\ i # k
           /\ DOMAIN cpool2' = DOMAIN cpool2 \ {cch[k].conv}
           /\ \A v \in DOMAIN cpool2' : cpool2'[v] = cpool2[v]
<1>1. cpool' = Delete(cpool, cch[k].chid) /\ cpool2' = Delete(cpool2, cch[k].conv)
  BY DEF rmClient
<1>2. \A n \in DOMAIN cpool : /\ cpool[n] \in Chans /\ cch[cpool[n]].chid = n
                              /\ cch[cpool[n]].life = life["client"]
  BY DEF Typed, TypeOK, IdInv, CliNumbers
<1>3. life["client"] > 0
  BY DEF Typed, TypeOK, Programs, Ids
<1>4. \A n \in DOMAIN cpool : n = cch[k].chid <=> cpool[n] = k
  BY <1>2, <1>3 DEF IdInv, CliNumbers
<1> QED BY <1>1, <1>4 DEF Delete, Holds

\* The server may have sent the ACK of this channel: it has, or it has died since.
Spoken(i) == sch[i].life > 0 /\ (Current(i) => sch[i].task \in {"open", "ended"})

\* The server's history grows: what a clash was stays one.
SrvGrows ==
    \A i \in Chans : sch[i].life > 0 =>
        /\ sch'[i].life = sch[i].life /\ sch'[i].conv = sch[i].conv
        /\ Spoken(i) => Spoken(i)'

LEMMA SharedStays ==
    ASSUME SrvGrows
    PROVE  /\ \A v : SharedConv(v) => SharedConv(v)'
           /\ (\E i, j \in Chans : Clash(i, j)) => (\E i, j \in Chans : Clash(i, j)')
<1>1. \A i, j \in Chans : Clash(i, j) => Clash(i, j)' /\ sch'[i].conv = sch[i].conv
  BY DEF Clash, SrvGrows
<1> QED BY <1>1 DEF SharedConv

LEMMA PoolsInit == Init => SrvPools
<1> SUFFICES ASSUME Init PROVE SrvPools
  OBVIOUS
<1>1. \A k \in Chans : sch[k].life = 0 /\ sch[k].closes = 0
  BY DEF Init, NewSrv
<1>2. DOMAIN spool = {} /\ DOMAIN spool2 = {} /\ life["server"] = 1
  BY DEF Init, Empty, Programs
<1> QED BY <1>1, <1>2 DEF SrvPools, Tasks, Spool2True, SrvFound, Current, Holds

LEMMA LifePositive ==
    ASSUME Typed
    PROVE  /\ life["server"] \in Nat /\ life["server"] > 0
           /\ life["client"] \in Nat /\ life["client"] > 0
           /\ \A k \in Chans : sch[k].life \in Nat /\ cch[k].life \in Nat
<1>1. life \in [Programs -> Ids] /\ sch \in [Chans -> SrvType] /\ cch \in [Chans -> CliType]
  BY DEF Typed, TypeOK
<1>2. life["server"] \in Ids /\ life["client"] \in Ids
  BY <1>1 DEF Programs
<1>3. \A k \in Chans : sch[k].life \in Nat
  BY <1>1 DEF SrvType
<1>4. \A k \in Chans : cch[k].life \in Nat
  BY <1>1 DEF CliType
<1> QED BY <1>2, <1>3, <1>4 DEF Ids

LEMMA PoolsStay ==
    ASSUME SrvPools, UNCHANGED <<sVars, life>>
    PROVE  SrvPools' /\ SrvGrows
<1>1. UNCHANGED <<sch, spool, spool2, life>>
  BY DEF sVars
<1> QED BY <1>1 DEF SrvPools, Tasks, Spool2True, SrvFound, SrvGrows, Current, Holds, Spoken,
                    SharedConv, Clash

\* A step of one Channel past putServer, of whose task it keeps what Spoken
\* says; it leaves the maps alone or removes the Channel.
Past(task) == task \notin {"none", "pool", "pool2"}

LEMMA PastPools ==
    ASSUME Typed, IdInv, SrvPools, NEW k \in Chans, NEW r \in SrvType,
           sch' = [sch EXCEPT ![k] = r], Current(k), UNCHANGED life,
           r.life = sch[k].life, r.conv = sch[k].conv, r.closes > 0 => r.server_close,
           Past(sch[k].task), Past(r.task),
           sch[k].task \in {"open", "ended"} => r.task \in {"open", "ended"},
           rmServer(k) \/ UNCHANGED <<spool, spool2>>
    PROVE  SrvPools' /\ SrvGrows
<1> USE DEF SrvPools
<1>1. sch'[k] = r /\ \A i \in Chans : i # k => sch'[i] = sch[i]
  BY DEF Typed, TypeOK
<1>2. \A i \in Chans : sch'[i].life = sch[i].life /\ sch'[i].conv = sch[i].conv
  <2> TAKE i \in Chans
  <2> QED BY <1>1
<1>3. \A i \in Chans : Current(i)' <=> Current(i)
  BY <1>2 DEF Current
<1>4. SrvGrows
  BY <1>1, <1>2, <1>3 DEF SrvGrows, Spoken
<1>5. \A i \in Chans : Holds(spool, i)' => Holds(spool, i)
  BY rmServerHolds DEF Holds
<1>6. Tasks'
  <2> SUFFICES ASSUME NEW i \in Chans
               PROVE  /\ sch'[i].closes > 0 => sch'[i].server_close
                      /\ Current(i)' =>
                            /\ sch'[i].task # "none"
                            /\ sch'[i].task \in {"pool", "pool2"} => ~sch'[i].server_close
                            /\ sch'[i].task = "pool2" => Holds(spool, i)'
                            /\ Holds(spool, i)' => sch'[i].task # "pool"
    BY DEF Tasks
  <2>1. CASE i = k
    BY <1>1, <2>1 DEF Past
  <2>2. CASE i # k
    <3>1. Holds(spool, i) => Holds(spool, i)'
      <4>1. CASE rmServer(k)
        <5>1. Holds(spool', i) <=> Holds(spool, i) /\ i # k
          BY <4>1, rmServerHolds
        <5> QED BY <2>2, <5>1 DEF Holds
      <4>2. CASE UNCHANGED <<spool, spool2>>
        BY <4>2 DEF Holds
      <4> QED BY <4>1, <4>2
    <3> QED BY <1>1, <1>3, <1>5, <2>2, <3>1 DEF Tasks
  <2> QED BY <2>1, <2>2
<1>7. CASE UNCHANGED <<spool, spool2>>
  <2>1. \A i \in Chans : Holds(spool, i)' <=> Holds(spool, i)
    BY <1>7 DEF Holds
  <2>2. \A i \in Chans : /\ sch'[i].task \in {"pool", "pool2"} => sch[i].task \in {"pool", "pool2"}
                         /\ sch[i].task = "pool2" => sch'[i].task = "pool2"
    BY <1>1 DEF Past
  <2>3. Spool2True'
    BY <1>7, <2>1, <2>2 DEF Spool2True, Typed, TypeOK
  <2>4. SrvFound'
    BY <1>2, <1>4, <1>7, <2>1, <2>2, SharedStays DEF SrvFound
  <2> QED BY <1>4, <1>6, <2>3, <2>4
<1>8. CASE rmServer(k)
  <2>1. /\ \A i \in Chans : Holds(spool', i) <=> Holds(spool, i) /\ i # k
        /\ DOMAIN spool2' = DOMAIN spool2 \ {sch[k].conv}
        /\ \A v \in DOMAIN spool2' : spool2'[v] = spool2[v]
    BY <1>8, rmServerHolds
  <2>2. \A i \in Chans : Holds(spool, i)' <=> Holds(spool', i)
    BY DEF Holds
  <2>3. \A v \in DOMAIN spool2 : spool2[v] \in Chans /\ sch[spool2[v]].conv = v
    BY DEF Typed, TypeOK, IdInv, SrvNumbers
  <2>4. Spool2True'
    BY <1>1, <2>1, <2>2, <2>3 DEF Spool2True
  <2>5. SrvFound'
    <3> SUFFICES ASSUME NEW i \in Chans, Holds(spool, i)', sch'[i].task # "pool2",
                        ~SharedConv(sch[i].conv)'
                 PROVE  sch'[i].conv \in DOMAIN spool2' /\ spool2'[sch'[i].conv] = i
      BY DEF SrvFound
    <3>1. Holds(spool, i) /\ i # k /\ sch[i].task # "pool2" /\ sch'[i].conv = sch[i].conv
      BY <1>1, <2>1, <2>2
    <3>2. ~SharedConv(sch[i].conv)
      BY <1>4, <3>1, SharedStays
    <3>3. sch[i].conv \in DOMAIN spool2 /\ spool2[sch[i].conv] = i
      BY <3>1, <3>2 DEF SrvFound
    <3>4. sch[i].conv # sch[k].conv
      BY <3>1, <3>2, SrvHolds, LifePositive DEF SharedConv, Clash, Current
    <3> QED BY <2>1, <3>1, <3>3, <3>4
  <2> QED BY <1>4, <1>6, <2>4, <2>5
<1> QED BY <1>7, <1>8

\* promiseChannelClose on a record with the Channel's numbers.
LEMMA PromisePools ==
    ASSUME Typed, IdInv, SrvPools, NEW k \in Chans, NEW ch \in SrvType, SrvPromise(k, ch),
           Current(k), Past(sch[k].task), UNCHANGED life,
           ch.life = sch[k].life, ch.conv = sch[k].conv, ch.task = sch[k].task,
           ch.closes > 0 => ch.server_close
    PROVE  SrvPools' /\ SrvGrows
<1>1. PICK r \in SrvType : /\ sch' = [sch EXCEPT ![k] = r]
                           /\ r.life = sch[k].life /\ r.conv = sch[k].conv
                           /\ r.task = sch[k].task /\ (r.closes > 0 => r.server_close)
  <2>1. LET r == [ch EXCEPT !.server_close = TRUE]
        IN  /\ r \in SrvType /\ r.life = ch.life /\ r.conv = ch.conv /\ r.task = ch.task
            /\ r.server_close
    BY DEF SrvType
  <2> QED BY <2>1 DEF SrvPromise
<1>2. rmServer(k) \/ UNCHANGED <<spool, spool2>>
  BY DEF SrvPromise
<1>3. /\ Past(r.task)
      /\ sch[k].task \in {"open", "ended"} => r.task \in {"open", "ended"}
  BY <1>1
<1>4. r.life = sch[k].life /\ r.conv = sch[k].conv /\ (r.closes > 0 => r.server_close)
  BY <1>1
<1>5. sch' = [sch EXCEPT ![k] = r]
  BY <1>1
<1> QED BY <1>2, <1>3, <1>4, <1>5, PastPools

\* The steps of the server.
LEMMA SrvSteps ==
    ASSUME Typed, IdInv, SrvPools, NEW k \in Chans,
           \/ SrvDialed(k) \/ SrvDialFails(k) \/ SrvReaderEnds(k) \/ SrvCloseEvent(k)
           \/ kcpCheckClose(k)
    PROVE  SrvPools' /\ SrvGrows
<1>1. sch[k] \in SrvType /\ Current(k) /\ UNCHANGED life
  BY DEF Typed, TypeOK, SrvDialed, SrvDialFails, SrvReaderEnds, SrvCloseEvent, kcpCheckClose,
         ClientStays, SrvLives, Current
<1>2. sch[k].closes > 0 => sch[k].server_close
  BY DEF SrvPools, Tasks
<1>3. CASE SrvDialed(k)
  <2> DEFINE r == [sch[k] EXCEPT !.task = "open"]
  <2>1. sch[k].task = "dial" /\ sch' = [sch EXCEPT ![k] = r] /\ UNCHANGED <<spool, spool2>>
    BY <1>3 DEF SrvDialed
  <2>2. /\ r \in SrvType /\ r.life = sch[k].life /\ r.conv = sch[k].conv
        /\ r.closes > 0 => r.server_close
        /\ r.task = "open"
    BY <1>1, <1>2 DEF SrvType
  <2> HIDE DEF r
  <2> QED BY <1>1, <2>1, <2>2, PastPools DEF Past
<1>4. CASE SrvDialFails(k) \/ SrvReaderEnds(k)
  <2>1. PICK t \in {"failed", "ended"} :
           /\ sch' = [sch EXCEPT ![k] = [sch[k] EXCEPT !.task = t, !.server_close = TRUE, !.closes = @ + 1]]
           /\ sch[k].task \in {"dial", "open"} /\ (sch[k].task = "open" => t = "ended")
    BY <1>4 DEF SrvDialFails, SrvReaderEnds
  <2> DEFINE r == [sch[k] EXCEPT !.task = t, !.server_close = TRUE, !.closes = @ + 1]
  <2>2. /\ r \in SrvType /\ r.life = sch[k].life /\ r.conv = sch[k].conv
        /\ r.closes > 0 => r.server_close
        /\ r.task = t
    BY <1>1, SrvEnded DEF SrvType
  <2>3. sch' = [sch EXCEPT ![k] = r] /\ UNCHANGED <<spool, spool2>>
    BY <1>4, <2>1 DEF SrvDialFails, SrvReaderEnds
  <2> HIDE DEF r
  <2> QED BY <1>1, <2>1, <2>2, <2>3, PastPools DEF Past
<1>5. CASE SrvCloseEvent(k)
  <2> DEFINE r == [sch[k] EXCEPT !.closes = @ - 1]
  <2>1. SrvPromise(k, r) /\ sch[k].closes > 0
    BY <1>5 DEF SrvCloseEvent
  <2>2. r \in SrvType
    BY <1>1, <2>1, SrvTaken
  <2>3. /\ r.life = sch[k].life /\ r.conv = sch[k].conv /\ r.task = sch[k].task
        /\ r.server_close = sch[k].server_close
    BY <1>1 DEF SrvType
  <2>4. Past(sch[k].task)
    BY <1>1, <1>2, <2>1 DEF SrvPools, Tasks, Past
  <2> HIDE DEF r
  <2> QED BY <1>1, <1>2, <2>1, <2>2, <2>3, <2>4, PromisePools
<1>6. CASE kcpCheckClose(k)
  <2> DEFINE r == [sch[k] EXCEPT !.kcp_close = TRUE]
  <2>1. SrvPromise(k, r) /\ sch[k].server_close
    BY <1>6 DEF kcpCheckClose
  <2>2. /\ r \in SrvType /\ r.life = sch[k].life /\ r.conv = sch[k].conv
        /\ r.task = sch[k].task /\ r.server_close = sch[k].server_close
    BY <1>1, SrvFlagged DEF SrvType
  <2>3. Past(sch[k].task)
    BY <1>1, <2>1 DEF SrvPools, Tasks, Past
  <2> HIDE DEF r
  <2> QED BY <1>1, <2>1, <2>2, <2>3, PromisePools
<1> QED BY <1>3, <1>4, <1>5, <1>6

LEMMA SrvFinPools == ASSUME Typed, IdInv, SrvPools, SrvFin PROVE SrvPools' /\ SrvGrows
<1> DEFINE v == Head(toServer).conv
<1>1. UNCHANGED life
  BY DEF SrvFin, ClientStays
<1>2. CASE v \in DOMAIN spool2
  <2>1. PICK k \in Chans : k = spool2[v]
    BY <1>2 DEF Typed, TypeOK
  <2> DEFINE r == [sch[k] EXCEPT !.client_close = TRUE]
  <2>2. SrvPromise(k, r) /\ sch[k] \in SrvType
    BY <1>2, <2>1 DEF SrvFin, Typed, TypeOK
  <2>3. /\ r \in SrvType /\ r.life = sch[k].life /\ r.conv = sch[k].conv
        /\ r.task = sch[k].task /\ r.server_close = sch[k].server_close
        /\ r.closes = sch[k].closes
    BY <2>2, SrvFlagged DEF SrvType
  <2>4. Current(k) /\ Past(sch[k].task) /\ (sch[k].closes > 0 => sch[k].server_close)
    BY <1>2, <2>1 DEF SrvPools, Tasks, Spool2True, Past, IdInv, SrvNumbers, Current
  <2> HIDE DEF r, v
  <2> QED BY <1>1, <2>2, <2>3, <2>4, PromisePools
<1>3. CASE v \notin DOMAIN spool2
  <2>1. UNCHANGED sVars
    BY <1>3 DEF SrvFin
  <2> QED BY <1>1, <2>1, PoolsStay
<1> QED BY <1>2, <1>3

LEMMA SrvSynPools == ASSUME Typed, IdInv, SrvPools, SrvSyn PROVE SrvPools' /\ SrvGrows
<1> USE DEF SrvPools
<1>1. FromClient("SYN") /\ UNCHANGED <<spool, spool2, life>>
  BY DEF SrvSyn, ClientStays
<1>2. PICK m \in Message, k \in Chans, conv \in Convs :
         m = Head(toServer) /\ k = m.of /\ sch' = [sch EXCEPT ![k] = Channel(m, conv)]
  <2>1. Head(toServer) \in Message
    BY <1>1, Parts, FromClientTyped
  <2>2. Head(toServer).of \in Chans
    BY <2>1, MessageFields
  <2> QED BY <2>1, <2>2 DEF SrvSyn
<1>3. sch[k].life = 0
  <2>1. 1 \in DOMAIN toServer /\ m = toServer[1] /\ m.cmd = "SYN"
    BY <1>1, <1>2, HeadTyped DEF FromClient, Typed, TypeOK
  <2> QED BY <1>2, <2>1 DEF IdInv, SynTrue
<1>4. ~Holds(spool, k)
  BY <1>3, SrvHolds, LifePositive DEF Current
<1>5. /\ sch'[k].closes = 0 /\ sch'[k].task = "pool" /\ ~sch'[k].server_close
      /\ \A i \in Chans : i # k => sch'[i] = sch[i]
  <2>1. LET r == Channel(m, conv) IN r.closes = 0 /\ r.task = "pool" /\ ~r.server_close
    BY DEF Channel, NewSrv
  <2> QED BY <1>2, <2>1 DEF Typed, TypeOK
<1>6. \A i \in Chans : /\ Holds(spool, i)' <=> Holds(spool, i)
                       /\ i # k => (Current(i)' <=> Current(i))
  BY <1>1, <1>5 DEF Holds, Current
<1>7. SrvGrows
  BY <1>3, <1>5, <1>6 DEF SrvGrows, Spoken
<1>8. Tasks'
  <2> SUFFICES ASSUME NEW i \in Chans
               PROVE  /\ sch'[i].closes > 0 => sch'[i].server_close
                      /\ Current(i)' =>
                            /\ sch'[i].task # "none"
                            /\ sch'[i].task \in {"pool", "pool2"} => ~sch'[i].server_close
                            /\ sch'[i].task = "pool2" => Holds(spool, i)'
                            /\ Holds(spool, i)' => sch'[i].task # "pool"
    BY DEF Tasks
  <2>1. CASE i = k
    BY <1>4, <1>5, <1>6, <2>1
  <2>2. CASE i # k
    BY <1>5, <1>6, <2>2 DEF Tasks
  <2> QED BY <2>1, <2>2
<1>9. Spool2True'
  <2>1. \A v \in DOMAIN spool2 : spool2[v] \in Chans /\ spool2[v] # k
    BY <1>4 DEF Spool2True, Typed, TypeOK
  <2> QED BY <1>1, <1>5, <1>6, <2>1 DEF Spool2True
<1>10. SrvFound'
  <2>1. \A i \in Chans : Holds(spool, i) => sch'[i] = sch[i]
    BY <1>4, <1>5
  <2> QED BY <1>1, <1>6, <1>7, <2>1, SharedStays DEF SrvFound
<1> QED BY <1>7, <1>8, <1>9, <1>10

\* putServer: first under its number, which no other Channel has, then by conv.
LEMMA NumberOf ==
    ASSUME Typed, IdInv, NEW k \in Chans, Current(k)
    PROVE  \A n \in DOMAIN spool : spool[n] \in Chans /\ (n = sch[k].chid <=> spool[n] = k)
<1>1. \A n \in DOMAIN spool : spool[n] \in Chans
  BY DEF Typed, TypeOK
<1>2. \A n \in DOMAIN spool : sch[spool[n]].chid = n /\ Current(spool[n])
  BY DEF IdInv, SrvNumbers, Current
<1>3. \A i \in Chans : i # k /\ Current(i) => sch[i].chid # sch[k].chid
  BY DEF IdInv, SrvNumbers, Current
<1> QED BY <1>1, <1>2, <1>3

LEMMA SrvPutPools ==
    ASSUME Typed, IdInv, SrvPools, NEW k \in Chans, SrvPut(k) \/ SrvPut2(k)
    PROVE  SrvPools' /\ SrvGrows
<1> USE DEF SrvPools
<1>1. Current(k) /\ UNCHANGED life /\ sch \in [Chans -> SrvType]
  BY DEF Typed, TypeOK, SrvPut, SrvPut2, ClientStays, SrvLives, Current
<1>2. PICK t \in {"pool2", "dial"} :
         /\ sch' = [sch EXCEPT ![k] = [sch[k] EXCEPT !.task = t]]
         /\ sch[k].task = (IF t = "pool2" THEN "pool" ELSE "pool2")
         /\ t = "pool2" => spool' = Put(spool, sch[k].chid, k) /\ UNCHANGED spool2
         /\ t = "dial" => spool2' = Put(spool2, sch[k].conv, k) /\ UNCHANGED spool
  BY DEF SrvPut, SrvPut2
<1>3. /\ sch'[k].task = t /\ \A i \in Chans : i # k => sch'[i] = sch[i]
      /\ \A i \in Chans : /\ sch'[i].life = sch[i].life /\ sch'[i].conv = sch[i].conv
                          /\ sch'[i].closes = sch[i].closes
                          /\ sch'[i].server_close = sch[i].server_close
  <2>1. LET r == [sch[k] EXCEPT !.task = t]
        IN  /\ r.life = sch[k].life /\ r.conv = sch[k].conv /\ r.closes = sch[k].closes
            /\ r.server_close = sch[k].server_close /\ r.task = t
    BY <1>1 DEF SrvType
  <2> QED BY <1>1, <1>2, <2>1
<1>4. \A i \in Chans : Current(i)' <=> Current(i)
  BY <1>1, <1>3 DEF Current
<1>5. SrvGrows
  BY <1>1, <1>2, <1>3, <1>4 DEF SrvGrows, Spoken
<1>6. CASE t = "pool2"
  <2>1. \A n \in DOMAIN spool : spool[n] \in Chans /\ (n = sch[k].chid <=> spool[n] = k)
    BY <1>1, NumberOf
  <2>2. \A i \in Chans : Holds(spool, i)' <=> Holds(spool, i) \/ i = k
    BY <1>2, <1>6, <2>1 DEF Put, Holds
  <2>3. Tasks'
    BY <1>1, <1>2, <1>3, <1>4, <1>6, <2>2 DEF Tasks
  <2>4. Spool2True'
    <3>1. \A v \in DOMAIN spool2 : spool2[v] \in Chans /\ spool2[v] # k
      BY <1>2, <1>6 DEF Spool2True, Typed, TypeOK
    <3> QED BY <1>2, <1>3, <1>6, <2>2, <3>1 DEF Spool2True
  <2>5. SrvFound'
    BY <1>2, <1>3, <1>5, <1>6, <2>2, SharedStays DEF SrvFound
  <2> QED BY <1>5, <2>3, <2>4, <2>5
<1>7. CASE t = "dial"
  <2>1. \A i \in Chans : Holds(spool, i)' <=> Holds(spool, i)
    BY <1>2, <1>7 DEF Holds
  <2>2. Tasks'
    BY <1>1, <1>2, <1>3, <1>4, <1>7, <2>1 DEF Tasks
  <2>3. Holds(spool, k)
    BY <1>1, <1>2, <1>7 DEF Tasks
  <2>4. /\ DOMAIN spool2' = DOMAIN spool2 \cup {sch[k].conv} /\ spool2'[sch[k].conv] = k
        /\ \A v \in DOMAIN spool2 : v # sch[k].conv => spool2'[v] = spool2[v]
    BY <1>2, <1>7 DEF Put
  <2>5. Spool2True'
    <3>1. \A v \in DOMAIN spool2 : spool2[v] \in Chans
      BY DEF Typed, TypeOK
    <3> QED BY <1>3, <1>7, <2>1, <2>3, <2>4, <3>1 DEF Spool2True
  <2>6. SrvFound'
    <3> SUFFICES ASSUME NEW i \in Chans, Holds(spool, i)', sch'[i].task # "pool2",
                        ~SharedConv(sch[i].conv)'
                 PROVE  sch'[i].conv \in DOMAIN spool2' /\ spool2'[sch'[i].conv] = i
      BY DEF SrvFound
    <3>1. Holds(spool, i) /\ sch'[i].conv = sch[i].conv
      BY <1>3, <2>1
    <3>2. ~SharedConv(sch[i].conv)
      BY <1>5, <3>1, SharedStays
    <3>3. CASE i = k
      BY <2>4, <3>1, <3>3
    <3>4. CASE i # k
      <4>1. sch[i].conv # sch[k].conv
        BY <1>1, <3>1, <3>2, <3>4, SrvHolds, LifePositive DEF SharedConv, Clash, Current
      <4>2. sch[i].conv \in DOMAIN spool2 /\ spool2[sch[i].conv] = i
        BY <1>3, <3>1, <3>2, <3>4 DEF SrvFound
      <4> QED BY <2>4, <3>1, <4>1, <4>2
    <3> QED BY <3>3, <3>4
  <2> QED BY <1>5, <2>2, <2>5, <2>6
<1> QED BY <1>6, <1>7

LEMMA RestartPools ==
    ASSUME Typed, IdInv, SrvPools, NEW p \in Programs, Restart(p)
    PROVE  SrvPools' /\ SrvGrows
<1> USE DEF SrvPools
<1>1. life' = [life EXCEPT ![p] = @ + 1] /\ life \in [Programs -> Ids]
  BY DEF Restart, Typed, TypeOK
<1>2. CASE p = "client"
  <2>1. UNCHANGED <<sch, spool, spool2>> /\ life'["server"] = life["server"]
    BY <1>1, <1>2 DEF Restart, sVars, Programs
  <2> QED BY <2>1 DEF Tasks, Spool2True, SrvFound, SrvGrows, Current, Holds, Spoken,
                      SharedConv, Clash
<1>3. CASE p = "server"
  <2>1. DOMAIN spool' = {} /\ DOMAIN spool2' = {} /\ life'["server"] = life["server"] + 1
    BY <1>1, <1>3 DEF Restart, Empty, Programs
  <2>2. \A i \in Chans : /\ sch'[i].life = sch[i].life /\ sch'[i].conv = sch[i].conv
                         /\ sch'[i].closes = 0
    <3>1. sch' = [i \in Chans |-> LeftSrv(sch[i])]
      BY <1>3 DEF Restart
    <3>2. \A i \in Chans : LET r == LeftSrv(sch[i])
                           IN  r.life = sch[i].life /\ r.conv = sch[i].conv /\ r.closes = 0
      BY DEF LeftSrv, NewSrv
    <3> QED BY <3>1, <3>2
  <2>3. \A i \in Chans : sch'[i].life # life'["server"]
    BY <2>1, <2>2, LifePositive DEF Typed, Numbered
  <2> QED BY <2>1, <2>2, <2>3 DEF Tasks, Spool2True, SrvFound, SrvGrows, Current, Holds, Spoken
<1> QED BY <1>2, <1>3 DEF Programs

LEMMA PoolsStep ==
    ASSUME Typed, IdInv, SrvPools, [Next]_vars
    PROVE  SrvPools' /\ SrvGrows
<1>1. CASE CliAck \/ CliLateAck \/ CliFin
  <2>1. UNCHANGED <<sVars, life>>
    BY <1>1 DEF CliAck, CliLateAck, CliFin
  <2> QED BY <2>1, PoolsStay
<1>2. CASE SrvSyn \/ SrvFin
  BY <1>2, SrvSynPools, SrvFinPools
<1>3. ASSUME NEW k \in Chans, ClientStep(k) \/ Data(k) PROVE SrvPools' /\ SrvGrows
  <2>1. UNCHANGED <<sVars, life>>
    BY <1>3 DEF ClientStep, CliConnects, CliTimeout, CliReaderEnds, CliCloseEvent, ServerStays,
                Data, DownNil, UpNil, DownUnknown
  <2> QED BY <2>1, PoolsStay
<1>4. ASSUME NEW k \in Chans, ServerStep(k) PROVE SrvPools' /\ SrvGrows
  BY <1>4, SrvPutPools, SrvSteps DEF ServerStep
<1>5. ASSUME NEW p \in Programs, Restart(p) PROVE SrvPools' /\ SrvGrows
  BY <1>5, RestartPools
<1>6. CASE UNCHANGED vars
  BY <1>6, PoolsStay DEF vars
<1> QED BY <1>1, <1>2, <1>3, <1>4, <1>5, <1>6 DEF Next
-----------------------------------------------------------------------------
(* What lasts *)

\* Numbers that were given stay; a channel of this life of the server was one
\* before the step, or is new.
Lasting ==
    \A i \in Chans :
        /\ cch[i].life > 0 => cch'[i].life = cch[i].life /\ cch'[i].chid = cch[i].chid
        /\ sch[i].life > 0 /\ Current(i)' => Current(i) /\ sch'[i].chid = sch[i].chid

LEMMA QuietLasts == ASSUME Quiet PROVE Lasting
BY DEF Quiet, QuietCli, QuietSrv, Lasting, Current

LEMMA CliConnectsLasts == ASSUME Typed, NEW k \in Chans, CliConnects(k) PROVE Lasting
<1>1. cch[k].life = 0 /\ UNCHANGED <<sch, life>>
  BY DEF CliConnects, ServerStays, sVars
<1>2. \A i \in Chans : i # k => cch'[i] = cch[i]
  BY DEF CliConnects, Typed, TypeOK
<1> QED BY <1>1, <1>2 DEF Lasting, Current

LEMMA CliAckLasts == ASSUME Typed, CliAck PROVE Lasting
<1>1. UNCHANGED <<sch, life>>
  BY DEF CliAck, sVars
<1>2. PICK m, k : k \in Chans /\ cch' = [cch EXCEPT ![k] = Acked(cch[k], m)]
  BY DEF CliAck, Typed, TypeOK
<1>3. \A i \in Chans : cch'[i].life = cch[i].life /\ cch'[i].chid = cch[i].chid
  <2>1. cch[k] \in CliType /\ cch \in [Chans -> CliType]
    BY <1>2 DEF Typed, TypeOK
  <2>2. LET r == Acked(cch[k], m) IN r.life = cch[k].life /\ r.chid = cch[k].chid
    BY <2>1 DEF Acked, CliType
  <2> QED BY <1>2, <2>1, <2>2
<1> QED BY <1>1, <1>3 DEF Lasting, Current

LEMMA SrvSynLasts == ASSUME Typed, IdInv, SrvSyn PROVE Lasting
<1>1. FromClient("SYN") /\ UNCHANGED <<cch, life>>
  BY DEF SrvSyn, ClientStays, cVars
<1>2. PICK m \in Message, k \in Chans, conv \in Convs :
         m = Head(toServer) /\ k = m.of /\ sch' = [sch EXCEPT ![k] = Channel(m, conv)]
  <2>1. Head(toServer) \in Message
    BY <1>1, Parts, FromClientTyped
  <2>2. Head(toServer).of \in Chans
    BY <2>1, MessageFields
  <2> QED BY <2>1, <2>2 DEF SrvSyn
<1>3. sch[k].life = 0
  <2>1. 1 \in DOMAIN toServer /\ m = toServer[1] /\ m.cmd = "SYN"
    BY <1>1, <1>2, HeadTyped DEF FromClient, Typed, TypeOK
  <2> QED BY <1>2, <2>1 DEF IdInv, SynTrue
<1>4. \A i \in Chans : i # k => sch'[i] = sch[i]
  BY <1>2 DEF Typed, TypeOK
<1> QED BY <1>1, <1>3, <1>4 DEF Lasting, Current

LEMMA SrvOpensLasts ==
    ASSUME Typed, NEW k \in Chans, SrvPut(k) \/ SrvPut2(k) \/ SrvDialed(k)
    PROVE  Lasting
<1>1. UNCHANGED <<cch, life>>
  BY DEF SrvPut, SrvPut2, SrvDialed, ClientStays, cVars
<1>2. PICK t : sch' = [sch EXCEPT ![k] = [sch[k] EXCEPT !.task = t]]
  BY DEF SrvPut, SrvPut2, SrvDialed
<1>3. \A i \in Chans : sch'[i].life = sch[i].life /\ sch'[i].chid = sch[i].chid
  <2>1. sch[k] \in SrvType /\ sch \in [Chans -> SrvType]
    BY DEF Typed, TypeOK
  <2>2. LET r == [sch[k] EXCEPT !.task = t] IN r.life = sch[k].life /\ r.chid = sch[k].chid
    BY <2>1 DEF SrvType
  <2> QED BY <1>2, <2>1, <2>2
<1> QED BY <1>1, <1>3 DEF Lasting, Current

LEMMA RestartLasts == ASSUME Typed, NEW p \in Programs, Restart(p) PROVE Lasting
<1>1. life' = [life EXCEPT ![p] = @ + 1] /\ life \in [Programs -> Ids]
  BY DEF Restart, Typed, TypeOK
<1>2. CASE p = "client"
  <2>1. UNCHANGED sch /\ life'["server"] = life["server"]
    BY <1>1, <1>2 DEF Restart, sVars, Programs
  <2>2. \A i \in Chans : cch'[i].life = cch[i].life /\ cch'[i].chid = cch[i].chid
    <3>1. cch' = [i \in Chans |-> LeftCli(cch[i])]
      BY <1>2 DEF Restart
    <3>2. \A i \in Chans : LET r == LeftCli(cch[i])
                           IN  r.life = cch[i].life /\ r.chid = cch[i].chid
      BY DEF LeftCli, NewCli
    <3> QED BY <3>1, <3>2
  <2> QED BY <2>1, <2>2 DEF Lasting, Current
<1>3. CASE p = "server"
  <2>1. UNCHANGED cch /\ life'["server"] = life["server"] + 1
    BY <1>1, <1>3 DEF Restart, cVars, Programs
  <2>2. \A i \in Chans : sch'[i].life = sch[i].life
    <3>1. sch' = [i \in Chans |-> LeftSrv(sch[i])]
      BY <1>3 DEF Restart
    <3>2. \A i \in Chans : LET r == LeftSrv(sch[i])
                           IN  r.life = sch[i].life
      BY DEF LeftSrv, NewSrv
    <3> QED BY <3>1, <3>2
  <2>3. \A i \in Chans : ~Current(i)'
    BY <2>1, <2>2, LifePositive DEF Typed, Numbered, Current
  <2> QED BY <2>1, <2>3 DEF Lasting
<1> QED BY <1>2, <1>3 DEF Programs

LEMMA StepLasts == ASSUME Typed, IdInv, [Next]_vars PROVE Lasting
<1>1. CASE CliAck \/ CliLateAck \/ CliFin
  BY <1>1, CliAckLasts, CliLateAckQuiet, CliFinQuiet, QuietLasts
<1>2. CASE SrvSyn \/ SrvFin
  BY <1>2, SrvSynLasts, SrvFinQuiet, QuietLasts
<1>3. ASSUME NEW k \in Chans, ClientStep(k) PROVE Lasting
  BY <1>3, CliConnectsLasts, CliQuiet, QuietLasts DEF ClientStep
<1>4. ASSUME NEW k \in Chans, ServerStep(k) PROVE Lasting
  BY <1>4, SrvOpensLasts, SrvQuiet, QuietLasts DEF ServerStep
<1>5. ASSUME NEW k \in Chans, Data(k) PROVE Lasting
  BY <1>5, DataQuiet, QuietLasts
<1>6. ASSUME NEW p \in Programs, Restart(p) PROVE Lasting
  BY <1>6, RestartLasts
<1>7. CASE UNCHANGED vars
  BY <1>7 DEF vars, cVars, sVars, Lasting, Current
<1> QED BY <1>1, <1>2, <1>3, <1>4, <1>5, <1>6, <1>7 DEF Next
-----------------------------------------------------------------------------
(* The client's maps, and who spoke *)

\* Channel j has the number that the server was given for i.
SameNumber(i, j) == i = j \/ Reused(i, j)

\* Before the ACK a channel has no conv.
Unanswered == \A k \in Chans : ~cch[k].acked => cch[k].conv = NoConv

\* The server gave v to a channel i, and the client has it under the number of i.
From(i, v, j) == sch[i].life > 0 /\ sch[i].conv = v /\ SameNumber(i, j)

Pool2True ==
    \A v \in DOMAIN cpool2 : cch[cpool2[v]].acked /\ \E i \in Chans : From(i, v, cpool2[v])

\* The client's half of NoGhost, with a channel i that there was.
Kept ==
    \A v \in DOMAIN cpool2 :
        IF cch[cpool2[v]].conv = v THEN Holds(cpool, cpool2[v])
        ELSE \E i \in Chans : cch[i].life > 0 /\ Reused(i, cpool2[v])

\* The client's half of FoundByConv.
CliFound ==
    \A k \in Chans : Holds(cpool, k) /\ cch[k].acked =>
        \/ cch[k].conv \in DOMAIN cpool2 /\ cpool2[cch[k].conv] = k
        \/ SharedConv(cch[k].conv)

\* An ACK, an answered channel and a FIN with a conv show that the server spoke.
AckSpoken == \A a \in DOMAIN toClient : toClient[a].cmd = "ACK" => Spoken(toClient[a].of)
AckedSpoken == \A k \in Chans : cch[k].acked => \E i \in Chans : CameFor(i, k) /\ Spoken(i)
HasSpoken(v) == \E i \in Chans : Spoken(i) /\ sch[i].conv = v
FinSpoken ==
    \A a \in DOMAIN toServer : toServer[a].cmd = "FIN" /\ toServer[a].conv # NoConv =>
        HasSpoken(toServer[a].conv)

CliPools == Unanswered /\ Pool2True /\ Kept /\ CliFound
SpokenInv == AckSpoken /\ AckedSpoken /\ FinSpoken

LEMMA CliPoolsInit == Init => CliPools /\ SpokenInv
<1> SUFFICES ASSUME Init PROVE CliPools /\ SpokenInv
  OBVIOUS
<1>1. \A k \in Chans : ~cch[k].acked /\ cch[k].conv = NoConv
  BY DEF Init, NewCli
<1>2. DOMAIN cpool2 = {} /\ DOMAIN toServer = {} /\ DOMAIN toClient = {}
  BY DEF Init, Empty
<1> QED BY <1>1, <1>2 DEF CliPools, SpokenInv, Unanswered, Pool2True, Kept, CliFound, AckSpoken,
                          AckedSpoken, FinSpoken

\* What an ACK came for is one channel only.
LEMMA OneNumber ==
    ASSUME Typed, IdInv, NEW j \in Chans, NEW k \in Chans, j # k, NEW i \in Chans,
           cch[j].life = life["client"], cch[k].life = life["client"],
           SameNumber(i, j), SameNumber(i, k)
    PROVE  FALSE
<1>1. cch[j].chid = cch[k].chid
  BY DEF SameNumber, Reused
<1> QED BY <1>1, LifePositive DEF IdInv, CliNumbers

LEMMA FromLasts ==
    ASSUME Typed, IdInv, Lasting, SrvGrows, NEW i \in Chans, NEW j \in Chans, NEW v,
           cch[j].life > 0, From(i, v, j)
    PROVE  From(i, v, j)'
<1>1. cch[i].life > 0
  BY DEF IdInv, SrvNumbers, From
<1>2. sch'[i].life = sch[i].life /\ sch'[i].conv = sch[i].conv
  BY DEF From, SrvGrows
<1>3. /\ cch'[i].life = cch[i].life /\ cch'[i].chid = cch[i].chid
      /\ cch'[j].life = cch[j].life /\ cch'[j].chid = cch[j].chid
  BY <1>1 DEF Lasting
<1> QED BY <1>2, <1>3 DEF From, SameNumber, Reused

LEMMA CameForLasts ==
    ASSUME Typed, IdInv, Lasting, SrvGrows, NEW i \in Chans, NEW j \in Chans,
           cch[j].life > 0, CameFor(i, j), Spoken(i),
           cch'[j].conv = cch[j].conv, cch'[j].chidsrv = cch[j].chidsrv
    PROVE  CameFor(i, j)' /\ Spoken(i)'
<1>1. cch[i].life > 0 /\ sch[i].life > 0
  BY DEF IdInv, SrvNumbers, CameFor
<1>2. sch'[i].life = sch[i].life /\ sch'[i].conv = sch[i].conv /\ Spoken(i)'
  BY <1>1 DEF SrvGrows
<1>3. /\ cch'[i].life = cch[i].life /\ cch'[i].chid = cch[i].chid
      /\ cch'[j].life = cch[j].life /\ cch'[j].chid = cch[j].chid
  BY <1>1 DEF Lasting
<1>4. sch'[i].life = life'["server"] => sch'[i].chid = cch'[j].chidsrv
  BY <1>1 DEF Lasting, Current, CameFor
<1> QED BY <1>1, <1>2, <1>3, <1>4 DEF CameFor, Reused

LEMMA AckedFacts ==
    ASSUME Typed, IdInv, NEW k \in Chans, cch[k].acked
    PROVE  cch[k].life = life["client"] /\ cch[k].life > 0 /\ cch[k].conv \in Convs
<1>1. PICK i \in Chans : CameFor(i, k)
  BY DEF IdInv, Answered
<1> QED BY <1>1, LifePositive DEF IdInv, Answered, CameFor, Typed, TypeOK

\* Steps that take no ACK: what was answered stays so, and the maps stay or lose
\* a channel of this life.
CliKeeps ==
    \A i \in Chans : /\ cch'[i].acked <=> cch[i].acked
                     /\ ~cch'[i].acked => cch'[i].conv = NoConv
                     /\ cch'[i].acked => /\ cch'[i].conv = cch[i].conv
                                         /\ cch'[i].chidsrv = cch[i].chidsrv

LEMMA CliPoolsKeep ==
    ASSUME Typed, IdInv, CliPools, Lasting, SrvGrows, CliKeeps,
           \/ UNCHANGED <<cpool, cpool2>>
           \/ \E k \in Chans : cch[k].life = life["client"] /\ rmClient(k)
    PROVE  CliPools'
<1> USE DEF CliPools
<1>1. \A i \in Chans : cch[i].acked => cch'[i].acked /\ cch'[i].conv = cch[i].conv
  BY DEF CliKeeps
<1>2. \A v \in DOMAIN cpool2 : cpool2[v] \in Chans
  BY DEF Typed, TypeOK
<1>3. \A v \in DOMAIN cpool2' : v \in DOMAIN cpool2 /\ cpool2'[v] = cpool2[v]
  BY DEF rmClient, Delete
<1>4. \A i \in Chans : Holds(cpool, i)' => Holds(cpool, i)
  BY rmClientHolds DEF Holds
<1>5. Unanswered'
  BY DEF CliKeeps, Unanswered
<1>6. Pool2True'
  <2> SUFFICES ASSUME NEW v \in DOMAIN cpool2'
               PROVE  cch'[cpool2'[v]].acked /\ \E i \in Chans : From(i, v, cpool2[v])'
    BY DEF Pool2True
  <2>1. PICK j \in Chans : v \in DOMAIN cpool2 /\ cpool2'[v] = j /\ cpool2[v] = j
    BY <1>2, <1>3
  <2>2. PICK i \in Chans : From(i, v, j)
    BY <2>1 DEF Pool2True
  <2>3. cch[j].acked /\ cch[j].life > 0
    BY <2>1, AckedFacts DEF Pool2True
  <2>4. From(i, v, j)'
    BY <2>2, <2>3, FromLasts
  <2> QED BY <1>1, <2>1, <2>3, <2>4 DEF From, SameNumber, Reused
<1>7. Kept'
  <2> SUFFICES ASSUME NEW v \in DOMAIN cpool2'
               PROVE  IF cch'[cpool2'[v]].conv = v THEN Holds(cpool, cpool2[v])'
                      ELSE \E i \in Chans : cch'[i].life > 0 /\ Reused(i, cpool2[v])'
    BY DEF Kept
  <2>1. PICK j \in Chans : v \in DOMAIN cpool2 /\ cpool2'[v] = j /\ cpool2[v] = j
    BY <1>2, <1>3
  <2>2. cch[j].acked /\ cch[j].life > 0 /\ cch'[j].conv = cch[j].conv
    BY <1>1, <2>1, AckedFacts DEF Pool2True
  <2>3. CASE cch[j].conv = v
    <3>1. Holds(cpool, j)
      BY <2>1, <2>3 DEF Kept
    <3>2. CASE UNCHANGED <<cpool, cpool2>>
      BY <2>1, <2>2, <2>3, <3>1, <3>2 DEF Holds
    <3>3. ASSUME NEW k \in Chans, cch[k].life = life["client"], rmClient(k)
          PROVE  Holds(cpool', j)
      <4>1. /\ Holds(cpool', j) <=> Holds(cpool, j) /\ j # k
            /\ DOMAIN cpool2' = DOMAIN cpool2 \ {cch[k].conv}
        BY <3>3, rmClientHolds
      <4>2. v # cch[k].conv
        BY <4>1
      <4> QED BY <2>3, <3>1, <4>1, <4>2
    <3> QED BY <2>1, <2>2, <2>3, <3>2, <3>3 DEF Holds
  <2>4. CASE cch[j].conv # v
    <3>1. PICK i \in Chans : cch[i].life > 0 /\ Reused(i, j)
      BY <2>1, <2>4 DEF Kept
    <3>2. cch'[i].life > 0 /\ Reused(i, j)'
      BY <2>2, <3>1 DEF Lasting, Reused
    <3> QED BY <2>1, <2>2, <2>4, <3>2 DEF Reused
  <2> QED BY <2>3, <2>4
<1>8. CliFound'
  <2> SUFFICES ASSUME NEW j \in Chans, Holds(cpool, j)', cch'[j].acked,
                      ~SharedConv(cch[j].conv)'
               PROVE  cch'[j].conv \in DOMAIN cpool2' /\ cpool2'[cch'[j].conv] = j
    BY DEF CliFound
  <2>1. Holds(cpool, j) /\ cch[j].acked /\ cch'[j].conv = cch[j].conv
    BY <1>4 DEF CliKeeps
  <2>2. ~SharedConv(cch[j].conv)
    BY <2>1, SharedStays
  <2>3. cch[j].conv \in DOMAIN cpool2 /\ cpool2[cch[j].conv] = j
    BY <2>1, <2>2 DEF CliFound
  <2>4. ASSUME NEW k \in Chans, cch[k].life = life["client"], rmClient(k)
        PROVE  cch[j].conv \in DOMAIN cpool2' /\ cpool2'[cch[j].conv] = j
    <3>1. j # k
      <4>1. Holds(cpool', j) => j # k
        BY <2>4, rmClientHolds
      <4> QED BY <4>1 DEF Holds
    <3>2. cch[k].conv # cch[j].conv
      BY <2>1, <2>2, <3>1, AckedApart, AckedFacts, SessionAssumption DEF Unanswered
    <3> QED BY <2>3, <2>4, <3>2, rmClientHolds
  <2> QED BY <2>1, <2>3, <2>4
<1> QED BY <1>5, <1>6, <1>7, <1>8

\* A FIN under way was so before, or the server has spoken of its conv.
FinsQuiet ==
    \A a \in DOMAIN toServer' : toServer'[a].cmd = "FIN" /\ toServer'[a].conv # NoConv =>
        \/ \E b \in DOMAIN toServer : toServer'[a] = toServer[b]
        \/ HasSpoken(toServer'[a].conv)

LEMMA FinsMove ==
    ASSUME Typed
    PROVE  /\ toServer' = toServer => FinsQuiet
           /\ \A cmd : FromClient(cmd) => FinsQuiet
           /\ \A m \in Message :
                 ToServer(m) /\ (m.cmd = "FIN" /\ m.conv # NoConv => HasSpoken(m.conv)) => FinsQuiet
<1>1. toServer \in Seq(Message)
  BY DEF Typed, TypeOK
<1>2. toServer' = toServer => FinsQuiet
  BY DEF FinsQuiet
<1>3. \A cmd : FromClient(cmd) => FinsQuiet
  <2> SUFFICES ASSUME NEW cmd, FromClient(cmd) PROVE FinsQuiet
    OBVIOUS
  <2>1. toServer # <<>> /\ toServer' = Tail(toServer)
    BY DEF FromClient
  <2>2. \A a \in DOMAIN toServer' : a + 1 \in DOMAIN toServer /\ toServer'[a] = toServer[a + 1]
    BY <1>1, <2>1, HeadTyped
  <2> QED BY <2>2 DEF FinsQuiet
<1>4. ASSUME NEW m \in Message, ToServer(m), m.cmd = "FIN" /\ m.conv # NoConv => HasSpoken(m.conv)
      PROVE  FinsQuiet
  <2>1. toServer' = Append(toServer, m)
    BY <1>4 DEF ToServer
  <2>2. \A a \in DOMAIN toServer' : (a \in DOMAIN toServer /\ toServer'[a] = toServer[a])
                                    \/ toServer'[a] = m
    BY <1>1, <2>1, AppendTyped
  <2> QED BY <1>4, <2>2 DEF FinsQuiet
<1> QED BY <1>2, <1>3, <1>4

LEMMA FinSpokenKeeps ==
    ASSUME Typed, FinSpoken, SrvGrows, FinsQuiet
    PROVE  FinSpoken'
<1>1. \A v : HasSpoken(v) => HasSpoken(v)'
  BY DEF HasSpoken, SrvGrows, Spoken
<1> SUFFICES ASSUME NEW a \in DOMAIN toServer', toServer'[a].cmd = "FIN",
                    toServer'[a].conv # NoConv
             PROVE  HasSpoken(toServer[a].conv)'
  BY DEF FinSpoken
<1>2. HasSpoken(toServer'[a].conv)
  BY DEF FinsQuiet, FinSpoken
<1>3. PICK v : v = toServer'[a].conv
  OBVIOUS
<1>4. HasSpoken(v)'
  BY <1>1, <1>2, <1>3
<1> QED BY <1>3, <1>4 DEF HasSpoken

LEMMA AckSpokenKeeps ==
    ASSUME Typed, AckSpoken, SrvGrows, QuietToClient
    PROVE  AckSpoken'
<1>1. PICK d \in {0, 1} : \A a \in DOMAIN toClient' : toClient'[a].cmd = "ACK" =>
         a + d \in DOMAIN toClient /\ toClient'[a] = toClient[a + d]
  BY DEF QuietToClient
<1>2. \A a \in DOMAIN toClient : toClient[a].of \in Chans
  BY OfTyped DEF Typed, TypeOK
<1> SUFFICES ASSUME NEW a \in DOMAIN toClient', toClient'[a].cmd = "ACK"
             PROVE  Spoken(toClient[a].of)'
  BY DEF AckSpoken
<1>3. PICK i \in Chans : i = toClient'[a].of /\ Spoken(i)
  BY <1>1, <1>2 DEF AckSpoken
<1>4. Spoken(i)'
  BY <1>3 DEF SrvGrows, Spoken
<1> QED BY <1>3, <1>4 DEF Spoken, Current

LEMMA AckedSpokenKeeps ==
    ASSUME Typed, IdInv, AckedSpoken, Lasting, SrvGrows, CliKeeps
    PROVE  AckedSpoken'
<1> SUFFICES ASSUME NEW k \in Chans, cch'[k].acked
             PROVE  \E i \in Chans : CameFor(i, k)' /\ Spoken(i)'
  BY DEF AckedSpoken
<1>1. cch[k].acked /\ cch'[k].conv = cch[k].conv /\ cch'[k].chidsrv = cch[k].chidsrv
  BY DEF CliKeeps
<1>2. PICK i \in Chans : CameFor(i, k) /\ Spoken(i)
  BY <1>1 DEF AckedSpoken
<1> QED BY <1>1, <1>2, AckedFacts, CameForLasts

LEMMA KeptStep ==
    ASSUME Typed, IdInv, CliPools, SpokenInv, Lasting, SrvGrows, CliKeeps,
           \/ UNCHANGED <<cpool, cpool2>>
           \/ \E k \in Chans : cch[k].life = life["client"] /\ rmClient(k),
           QuietToClient, FinsQuiet
    PROVE  CliPools' /\ SpokenInv'
BY CliPoolsKeep, AckSpokenKeeps, AckedSpokenKeeps, FinSpokenKeeps DEF SpokenInv

LEMMA CliStill == ASSUME CliPools, UNCHANGED cVars PROVE CliKeeps /\ UNCHANGED <<cpool, cpool2>>
BY DEF CliPools, Unanswered, CliKeeps, cVars

\* A channel that was answered had its conv from a server that spoke.
LEMMA ConvSpoken ==
    ASSUME CliPools, SpokenInv, NEW k \in Chans, cch[k].conv # NoConv
    PROVE  HasSpoken(cch[k].conv)
<1>1. cch[k].acked
  BY DEF CliPools, Unanswered
<1> QED BY <1>1 DEF SpokenInv, AckedSpoken, CameFor, HasSpoken

\* promiseChannelClose of the client.
LEMMA CliPromiseKeeps ==
    ASSUME Typed, CliPools, SpokenInv, NEW k \in Chans, NEW ch \in CliType,
           SameNumbers(ch, cch[k]), CliPromise(k, ch)
    PROVE  /\ CliKeeps /\ FinsQuiet
           /\ UNCHANGED <<cpool, cpool2>> \/ rmClient(k)
<1>1. PICK r \in CliType : SameNumbers(r, cch[k]) /\ cch' = [cch EXCEPT ![k] = r]
  <2>1. [ch EXCEPT !.client_close = TRUE] \in CliType
        /\ SameNumbers([ch EXCEPT !.client_close = TRUE], cch[k])
    BY DEF CliType, SameNumbers
  <2> QED BY <2>1 DEF CliPromise
<1>2. CliKeeps
  <2>1. \A i \in Chans : SameNumbers(cch'[i], cch[i])
    BY <1>1 DEF SameNumbers, Typed, TypeOK
  <2> QED BY <2>1 DEF CliKeeps, SameNumbers, CliPools, Unanswered
<1>3. UNCHANGED <<cpool, cpool2>> \/ rmClient(k)
  BY DEF CliPromise
<1>4. toServer' = toServer \/ ToServer(Msg("FIN", ch.chid, ch.chidsrv, ch.conv, k))
  BY DEF CliPromise
<1>5. Msg("FIN", ch.chid, ch.chidsrv, ch.conv, k) \in Message
  BY MsgTyped DEF CliType
<1>6. /\ Msg("FIN", ch.chid, ch.chidsrv, ch.conv, k).conv = ch.conv /\ ch.conv = cch[k].conv
  BY MsgFields DEF SameNumbers
<1>7. FinsQuiet
  BY <1>4, <1>5, <1>6, ConvSpoken, FinsMove
<1> QED BY <1>2, <1>3, <1>7

Keeping == CliPools /\ SpokenInv /\ Lasting /\ SrvGrows

LEMMA CliActsKeep ==
    ASSUME Typed, IdInv, Keeping, NEW k \in Chans,
           CliTimeout(k) \/ CliReaderEnds(k) \/ CliCloseEvent(k)
    PROVE  CliPools' /\ SpokenInv'
<1> USE DEF Keeping
<1>1. /\ cch[k] \in CliType /\ cch[k].life = life["client"] /\ UNCHANGED toClient
      /\ cch \in [Chans -> CliType]
  BY DEF Typed, TypeOK, CliTimeout, CliReaderEnds, CliCloseEvent, ServerStays, CliLives
<1>2. QuietToClient
  BY <1>1, QuietQueues
<1>3. CASE CliTimeout(k)
  <2>1. rmClient(k) /\ UNCHANGED <<cch, toServer>>
    BY <1>3 DEF CliTimeout
  <2>2. CliKeeps
    BY <2>1 DEF CliKeeps, CliPools, Unanswered
  <2> QED BY <1>1, <1>2, <2>1, <2>2, FinsMove, KeptStep
<1>4. CASE CliReaderEnds(k)
  <2> DEFINE r == [cch[k] EXCEPT !.readers = @ - 1, !.client_close = TRUE, !.closes = @ + 1]
  <2>1. cch' = [cch EXCEPT ![k] = r] /\ UNCHANGED <<cpool, cpool2, toServer>>
    BY <1>4 DEF CliReaderEnds
  <2>2. SameNumbers(r, cch[k])
    BY <1>1 DEF CliType, SameNumbers
  <2> HIDE DEF r
  <2>3. \A i \in Chans : SameNumbers(cch'[i], cch[i])
    BY <1>1, <2>1, <2>2 DEF SameNumbers
  <2>4. CliKeeps
    BY <2>3 DEF CliKeeps, SameNumbers, CliPools, Unanswered
  <2> QED BY <1>2, <2>1, <2>4, FinsMove, KeptStep
<1>5. CASE CliCloseEvent(k)
  <2> DEFINE r == [cch[k] EXCEPT !.closes = @ - 1]
  <2>1. CliPromise(k, r) /\ cch[k].closes > 0
    BY <1>5 DEF CliCloseEvent
  <2>2. r \in CliType /\ SameNumbers(r, cch[k])
    BY <1>1, <2>1, CliTaken DEF CliType, SameNumbers
  <2> HIDE DEF r
  <2>3. CliKeeps /\ FinsQuiet /\ (UNCHANGED <<cpool, cpool2>> \/ rmClient(k))
    BY <2>1, <2>2, CliPromiseKeeps
  <2> QED BY <1>1, <1>2, <2>3, KeptStep
<1> QED BY <1>3, <1>4, <1>5

LEMMA CliFinKeeps == ASSUME Typed, IdInv, Keeping, CliFin PROVE CliPools' /\ SpokenInv'
<1> USE DEF Keeping
<1> DEFINE m == Head(toClient)
<1>1. QuietToClient
  BY QuietQueues DEF CliFin
<1>2. ASSUME NEW k \in Chans, NEW ch \in CliType, cch[k].life = life["client"],
             SameNumbers(ch, cch[k]), CliPromise(k, ch)
      PROVE  CliPools' /\ SpokenInv'
  <2>1. CliKeeps /\ FinsQuiet /\ (UNCHANGED <<cpool, cpool2>> \/ rmClient(k))
    BY <1>2, CliPromiseKeeps
  <2> QED BY <1>1, <1>2, <2>1, KeptStep
<1>3. CASE m.conv \in DOMAIN cpool2
  <2>1. PICK k \in Chans : k = cpool2[m.conv]
    BY <1>3 DEF Typed, TypeOK
  <2> DEFINE ch == [cch[k] EXCEPT !.server_close = TRUE]
  <2>2. cch[k] \in CliType /\ CliPromise(k, ch)
    BY <1>3, <2>1 DEF CliFin, Typed, TypeOK
  <2>3. ch \in CliType /\ SameNumbers(ch, cch[k])
    BY <2>2, CliFinned DEF CliType, SameNumbers
  <2>4. cch[k].life = life["client"]
    BY <1>3, <2>1, AckedFacts DEF CliPools, Pool2True
  <2> HIDE DEF ch
  <2> QED BY <1>2, <2>2, <2>3, <2>4
<1>4. CASE m.conv \notin DOMAIN cpool2 /\ m.chidcli \in DOMAIN cpool
  <2>1. PICK k \in Chans : k = cpool[m.chidcli]
    BY <1>4 DEF Typed, TypeOK
  <2>2. cch[k] \in CliType /\ CliPromise(k, cch[k])
    BY <1>4, <2>1 DEF CliFin, Typed, TypeOK
  <2>3. SameNumbers(cch[k], cch[k])
    BY DEF SameNumbers
  <2>4. cch[k].life = life["client"]
    BY <1>4, <2>1 DEF IdInv, CliNumbers
  <2> QED BY <1>2, <2>2, <2>3, <2>4
<1>5. CASE m.conv \notin DOMAIN cpool2 /\ m.chidcli \notin DOMAIN cpool
  <2>1. UNCHANGED <<cVars, toServer>>
    BY <1>5 DEF CliFin
  <2> QED BY <1>1, <2>1, CliStill, FinsMove, KeptStep
<1> QED BY <1>3, <1>4, <1>5

LEMMA CliLateAckKeeps == ASSUME Typed, IdInv, Keeping, CliLateAck PROVE CliPools' /\ SpokenInv'
<1> USE DEF Keeping
<1>1. PICK a, m : a = Head(toClient) /\ m = [a EXCEPT !.cmd = "FIN"]
  OBVIOUS
<1>2. FromServer("ACK") /\ ToServer(m) /\ UNCHANGED cVars
  BY <1>1 DEF CliLateAck
<1>3. a \in Message /\ a.cmd = "ACK" /\ m \in Message /\ a.of \in Chans
  BY <1>1, <1>2, Parts, FromServerTyped, MessageFields
<1>4. m.conv = a.conv
  BY <1>1, <1>3 DEF Message
<1>5. 1 \in DOMAIN toClient /\ a = toClient[1]
  BY <1>1, <1>2, HeadTyped DEF FromServer, Typed, TypeOK
<1>6. HasSpoken(m.conv)
  BY <1>3, <1>4, <1>5 DEF HasSpoken, SpokenInv, AckSpoken, IdInv, AckTrue
<1> QED BY <1>2, <1>3, <1>6, CliStill, FinsMove, QuietQueues, KeptStep

\* The server's steps and the data: a new ACK is of a channel just opened, a new
\* FIN of one that is or was open.
LEMMA SrvActsKeep ==
    ASSUME Typed, IdInv, Keeping, SrvSyn \/ SrvFin \/ \E k \in Chans : ServerStep(k) \/ Data(k)
    PROVE  CliPools' /\ SpokenInv'
<1> USE DEF Keeping
<1>1. UNCHANGED cVars
  BY DEF SrvSyn, SrvFin, ServerStep, SrvPut, SrvPut2, SrvDialed, SrvDialFails, SrvReaderEnds,
         SrvCloseEvent, kcpCheckClose, ClientStays, Data, DownNil, UpNil, DownUnknown
<1>2. CliKeeps /\ UNCHANGED <<cpool, cpool2>>
  BY <1>1, CliStill
<1>3. FinsQuiet
  <2>1. CASE SrvSyn \/ SrvFin
    BY <2>1, FinsMove DEF SrvSyn, SrvFin
  <2>2. ASSUME NEW k \in Chans, ServerStep(k) PROVE FinsQuiet
    <3>1. toServer' = toServer
      BY <2>2 DEF ServerStep, SrvPut, SrvPut2, SrvDialed, SrvDialFails, SrvReaderEnds,
                  SrvCloseEvent, kcpCheckClose, queueVars
    <3> QED BY <3>1, FinsMove
  <2>3. ASSUME NEW k \in Chans, Data(k) PROVE FinsQuiet
    <3>1. CASE ~DownUnknown(k)
      <4>1. toServer' = toServer
        BY <2>3, <3>1 DEF Data, DownNil, UpNil, queueVars
      <4> QED BY <4>1, FinsMove
    <3>2. CASE DownUnknown(k)
      <4>1. PICK m : m = Msg("FIN", 0, 0, sch[k].conv, k)
        OBVIOUS
      <4>2. ToServer(m) /\ SrvLives(k) /\ sch[k].task \in {"open", "ended"}
        BY <3>2, <4>1 DEF DownUnknown
      <4>3. 0 \in Nat /\ sch[k].conv \in Convs \cup {NoConv}
        BY DEF Typed, TypeOK, SrvType
      <4>4. m \in Message /\ m.conv = sch[k].conv
        BY <4>1, <4>3, MsgTyped, MsgFields
      <4>5. HasSpoken(sch[k].conv)
        BY <4>2, LifePositive DEF HasSpoken, Spoken, SrvLives
      <4> QED BY <4>2, <4>4, <4>5, FinsMove
    <3> QED BY <2>3, <3>1, <3>2 DEF Data
  <2> QED BY <2>1, <2>2, <2>3
<1>4. CASE QuietToClient
  BY <1>2, <1>3, <1>4, KeptStep
<1>5. SrvSyn \/ SrvFin \/ (\E k \in Chans : Data(k)) => QuietToClient
  BY SrvFinQuiet, DataQuiet, QuietQueues DEF Quiet, SrvSyn
<1>6. ASSUME NEW k \in Chans, ServerStep(k), ~SrvDialed(k) PROVE QuietToClient
  BY <1>6, SrvQuiet, QuietQueues DEF Quiet, ServerStep, SrvPut, SrvPut2, queueVars
<1>7. ASSUME NEW k \in Chans, SrvDialed(k) PROVE CliPools' /\ SpokenInv'
  <2>1. CliPools' /\ AckedSpoken' /\ FinSpoken'
    BY <1>2, <1>3, CliPoolsKeep, AckedSpokenKeeps, FinSpokenKeeps DEF SpokenInv
  <2>2. AckSpoken'
    <3>1. PICK m : m = Msg("ACK", sch[k].chidcli, sch[k].chid, sch[k].conv, k)
      OBVIOUS
    <3>2. toClient' = Append(toClient, m) /\ m.of = k
      BY <1>7, <3>1, MsgFields DEF SrvDialed, ToClient
    <3>3. sch \in [Chans -> SrvType] /\ toClient \in Seq(Message)
      BY DEF Typed, TypeOK
    <3>4. sch[k].chidcli \in Nat /\ sch[k].chid \in Nat /\ sch[k].conv \in Convs \cup {NoConv}
      BY <3>3 DEF SrvType
    <3>5. m \in Message
      BY <3>1, <3>4, MsgTyped
    <3>6. \A a \in DOMAIN toClient' : (a \in DOMAIN toClient /\ toClient'[a] = toClient[a])
                                      \/ toClient'[a] = m
      BY <3>2, <3>3, <3>5, AppendTyped
    <3>7. sch'[k].life = sch[k].life /\ sch'[k].task = "open" /\ sch[k].life > 0
      <4>1. /\ sch' = [sch EXCEPT ![k] = [sch[k] EXCEPT !.task = "open"]]
            /\ sch[k].life > 0 /\ sch[k] \in SrvType
        BY <1>7, <3>3, LifePositive DEF SrvDialed, SrvLives
      <4>2. LET r == [sch[k] EXCEPT !.task = "open"] IN r.task = "open" /\ r.life = sch[k].life
        BY <4>1 DEF SrvType
      <4> QED BY <3>3, <4>1, <4>2
    <3>8. Spoken(k)'
      BY <3>7 DEF Spoken
    <3> SUFFICES ASSUME NEW a \in DOMAIN toClient', toClient'[a].cmd = "ACK"
                 PROVE  Spoken(toClient[a].of)'
      BY DEF AckSpoken
    <3>9. CASE toClient'[a] = m
      BY <3>2, <3>8, <3>9 DEF Spoken, Current
    <3>10. CASE a \in DOMAIN toClient /\ toClient'[a] = toClient[a]
      <4>1. PICK i \in Chans : i = toClient'[a].of /\ Spoken(i)
        BY <3>3, <3>10, OfTyped DEF SpokenInv, AckSpoken
      <4>2. Spoken(i)'
        BY <4>1 DEF SrvGrows, Spoken
      <4> QED BY <4>1, <4>2 DEF Spoken, Current
    <3> QED BY <3>6, <3>9, <3>10
  <2> QED BY <2>1, <2>2 DEF SpokenInv
<1> QED BY <1>4, <1>5, <1>6, <1>7

LEMMA CliConnectsKeeps ==
    ASSUME Typed, IdInv, Keeping, NEW k \in Chans, CliConnects(k)
    PROVE  CliPools' /\ SpokenInv'
<1> USE DEF Keeping, CliPools, SpokenInv
<1> DEFINE n == chanid["client"]
           m == Msg("SYN", n, 0, NoConv, k)
<1>1. /\ cch[k].life = 0 /\ cpool' = Put(cpool, n, k) /\ ToServer(m)
      /\ UNCHANGED <<sVars, toClient, life, cpool2>>
      /\ cch' = [cch EXCEPT ![k] = [NewCli EXCEPT !.life = life["client"], !.chid = n]]
  BY DEF CliConnects, ServerStays
<1>2. ~cch[k].acked
  BY <1>1, AckedFacts
<1>3. /\ ~cch'[k].acked /\ cch'[k].conv = NoConv
      /\ \A i \in Chans : i # k => cch'[i] = cch[i]
  <2>1. LET r == [NewCli EXCEPT !.life = life["client"], !.chid = n]
        IN  ~r.acked /\ r.conv = NoConv
    BY DEF NewCli
  <2> QED BY <1>1, <2>1 DEF Typed, TypeOK
<1>4. CliKeeps
  BY <1>2, <1>3 DEF CliKeeps, Unanswered
<1>5. \A i \in Chans : Holds(cpool, i) => Holds(cpool, i)'
  <2>1. n \notin DOMAIN cpool
    <3>1. \A j \in DOMAIN cpool : cpool[j] \in Chans /\ j < n /\ j \in Nat
      BY DEF Typed, TypeOK, IdInv, CliNumbers, CliType
    <3>2. n \in Nat
      BY DEF Typed, TypeOK, Programs, Ids
    <3> QED BY <3>1, <3>2
  <2> QED BY <1>1, <2>1 DEF Put, Holds
<1>6. \A i \in Chans : i # k /\ Holds(cpool, i)' => Holds(cpool, i)
  BY <1>1 DEF Put, Holds
<1>7. \A v \in DOMAIN cpool2 : cpool2[v] \in Chans /\ cpool2[v] # k
  BY <1>2 DEF Pool2True, Typed, TypeOK
<1>8. Unanswered'
  BY <1>3 DEF Unanswered
<1>9. Pool2True'
  <2> SUFFICES ASSUME NEW v \in DOMAIN cpool2'
               PROVE  cch'[cpool2'[v]].acked /\ \E i \in Chans : From(i, v, cpool2[v])'
    BY DEF Pool2True
  <2>1. PICK j \in Chans : v \in DOMAIN cpool2 /\ cpool2'[v] = j /\ cpool2[v] = j /\ j # k
    BY <1>1, <1>7
  <2>2. PICK i \in Chans : From(i, v, j)
    BY <2>1 DEF Pool2True
  <2>3. cch[j].acked /\ cch[j].life > 0
    BY <2>1, AckedFacts DEF Pool2True
  <2>4. From(i, v, j)'
    BY <2>2, <2>3, FromLasts
  <2> QED BY <1>3, <2>1, <2>3, <2>4 DEF From, SameNumber, Reused
<1>10. Kept'
  <2> SUFFICES ASSUME NEW v \in DOMAIN cpool2'
               PROVE  IF cch'[cpool2'[v]].conv = v THEN Holds(cpool, cpool2[v])'
                      ELSE \E i \in Chans : cch'[i].life > 0 /\ Reused(i, cpool2[v])'
    BY DEF Kept
  <2>1. PICK j \in Chans : v \in DOMAIN cpool2 /\ cpool2'[v] = j /\ cpool2[v] = j /\ j # k
    BY <1>1, <1>7
  <2>2. cch[j].life > 0 /\ cch'[j] = cch[j]
    BY <1>3, <2>1, AckedFacts DEF Pool2True
  <2>3. CASE cch[j].conv = v
    <3>1. Holds(cpool, j)'
      BY <1>5, <2>1, <2>3 DEF Kept
    <3> QED BY <2>1, <2>2, <2>3, <3>1 DEF Holds
  <2>4. CASE cch[j].conv # v
    <3>1. PICK i \in Chans : cch[i].life > 0 /\ Reused(i, j)
      BY <2>1, <2>4 DEF Kept
    <3>2. cch'[i].life > 0 /\ Reused(i, j)'
      BY <2>2, <3>1 DEF Lasting, Reused
    <3> QED BY <2>1, <2>2, <2>4, <3>2 DEF Reused
  <2> QED BY <2>3, <2>4
<1>11. CliFound'
  <2>1. \A j \in Chans : cch'[j].acked => j # k
    BY <1>3
  <2> QED BY <1>1, <1>3, <1>6, <2>1, SharedStays DEF CliFound
<1>12. AckedSpoken' /\ AckSpoken'
  BY <1>1, <1>4, AckSpokenKeeps, AckedSpokenKeeps, QuietQueues
<1>13. FinSpoken'
  <2>1. n \in Nat /\ 0 \in Nat
    BY DEF Typed, TypeOK, Programs, Ids
  <2>2. m \in Message /\ m.cmd = "SYN"
    BY <2>1, MsgTyped, MsgFields
  <2> HIDE DEF m
  <2> QED BY <1>1, <2>2, FinsMove, FinSpokenKeeps
<1> QED BY <1>8, <1>9, <1>10, <1>11, <1>12, <1>13

LEMMA RestartKeeps ==
    ASSUME Typed, IdInv, Keeping, NEW p \in Programs, Restart(p)
    PROVE  CliPools' /\ SpokenInv'
<1> USE DEF Keeping, CliPools, SpokenInv
<1>1. DOMAIN toServer' = {} /\ DOMAIN toClient' = {}
  <2>1. toServer' = <<>> /\ toClient' = <<>>
    BY DEF Restart
  <2>2. DOMAIN <<>> = {}
    OBVIOUS
  <2> QED BY <2>1, <2>2
<1>2. AckSpoken' /\ FinSpoken'
  BY <1>1 DEF AckSpoken, FinSpoken
<1>3. CASE p = "client"
  <2>1. \A i \in Chans : ~cch'[i].acked /\ cch'[i].conv = NoConv
    <3>1. cch' = [i \in Chans |-> LeftCli(cch[i])]
      BY <1>3 DEF Restart
    <3>2. \A i \in Chans : LET r == LeftCli(cch[i])
                           IN  ~r.acked /\ r.conv = NoConv
      BY DEF LeftCli, NewCli
    <3> QED BY <3>1, <3>2
  <2>2. DOMAIN cpool2' = {}
    BY <1>3 DEF Restart, Empty
  <2> QED BY <1>2, <2>1, <2>2 DEF Unanswered, Pool2True, Kept, CliFound, AckedSpoken
<1>4. CASE p = "server"
  <2>1. UNCHANGED cVars
    BY <1>4 DEF Restart
  <2>2. CliKeeps /\ UNCHANGED <<cpool, cpool2>>
    BY <2>1, CliStill
  <2> QED BY <1>2, <2>2, CliPoolsKeep, AckedSpokenKeeps
<1> QED BY <1>3, <1>4 DEF Programs

\* An ACK: k gets the conv, and its old one, if there was one, came from an
\* earlier channel with the number.
LEMMA CliAckKeeps ==
    ASSUME Typed, IdInv, IdInv', Keeping, CliAck
    PROVE  CliPools' /\ SpokenInv'
<1> USE DEF Keeping, CliPools, SpokenInv
<1>1. FromServer("ACK") /\ UNCHANGED <<cpool, sVars, toServer, life>>
  BY DEF CliAck
<1>2. PICK m \in Message, k \in Chans, i \in Chans :
         /\ m = Head(toClient) /\ k = cpool[m.chidcli] /\ i = m.of
         /\ m.chidcli \in DOMAIN cpool /\ cch' = [cch EXCEPT ![k] = Acked(cch[k], m)]
         /\ cpool2' = Put(cpool2, m.conv, k)
  <2>1. Head(toClient) \in Message
    BY <1>1, Parts, FromServerTyped
  <2>2. Head(toClient).of \in Chans
    BY <2>1, MessageFields
  <2>3. Head(toClient).chidcli \in DOMAIN cpool => cpool[Head(toClient).chidcli] \in Chans
    BY DEF Typed, TypeOK
  <2> QED BY <2>1, <2>2, <2>3 DEF CliAck
<1>3. /\ cch[k].chid = m.chidcli /\ cch[k].life = life["client"] /\ cch[k].life > 0
      /\ Holds(cpool, k)
  BY <1>2, LifePositive DEF IdInv, CliNumbers, Holds
<1>4. /\ sch[i].life = life["server"] /\ sch[i].life > 0 /\ m.chidsrv = sch[i].chid
      /\ m.chidcli = sch[i].chidcli /\ m.conv = sch[i].conv /\ Spoken(i)
  <2>1. 1 \in DOMAIN toClient /\ m = toClient[1] /\ toClient[1].cmd = "ACK"
    BY <1>1, <1>2, HeadTyped DEF FromServer, Typed, TypeOK
  <2> QED BY <1>2, <2>1, LifePositive DEF IdInv, AckTrue, AckSpoken
<1>5. /\ cch'[k].acked /\ cch'[k].conv = m.conv /\ cch'[k].chidsrv = m.chidsrv
      /\ \A j \in Chans : j # k => cch'[j] = cch[j]
  <2>1. cch \in [Chans -> CliType] /\ cch[k] \in CliType
    BY <1>2 DEF Typed, TypeOK
  <2>2. LET r == Acked(cch[k], m)
        IN  r.acked /\ r.conv = m.conv /\ r.chidsrv = m.chidsrv
    BY <2>1 DEF Acked, CliType
  <2> QED BY <1>2, <2>1, <2>2
<1>6. /\ DOMAIN cpool2' = DOMAIN cpool2 \cup {m.conv} /\ cpool2'[m.conv] = k
      /\ \A v \in DOMAIN cpool2 : v # m.conv => cpool2'[v] = cpool2[v]
  BY <1>2 DEF Put
<1>7. SameNumber(i, k)
  <2>1. sch[i].life > 0 => cch[i].life > 0
    BY DEF IdInv, SrvNumbers
  <2>2. cch[i].chid = cch[k].chid /\ cch[i].life <= cch[k].life
    BY <1>2, <1>3, <1>4 DEF IdInv, CliNumbers, SrvNumbers
  <2>3. i # k => cch[i].life # cch[k].life
    BY <1>2, <1>3, <2>2 DEF IdInv, CliNumbers
  <2> QED BY <1>2, <1>3, <2>2, <2>3, LifePositive DEF Reused, SameNumber
<1>8. From(i, m.conv, k)
  BY <1>4, <1>7 DEF From
<1>9. \A j \in Chans : cch[j].acked => cch'[j].acked
  BY <1>5
<1>10. \A j \in Chans : Holds(cpool, j)' <=> Holds(cpool, j)
  BY <1>1 DEF Holds
<1>11. Unanswered'
  BY <1>5 DEF Unanswered
<1>12. Pool2True'
  <2> SUFFICES ASSUME NEW v \in DOMAIN cpool2'
               PROVE  cch'[cpool2'[v]].acked /\ \E h \in Chans : From(h, v, cpool2[v])'
    BY DEF Pool2True
  <2>1. CASE v = m.conv
    <3>1. From(i, v, k)'
      BY <1>3, <1>8, <2>1, FromLasts
    <3> QED BY <1>5, <1>6, <2>1, <3>1 DEF From, SameNumber, Reused
  <2>2. CASE v # m.conv
    <3>1. PICK j \in Chans : v \in DOMAIN cpool2 /\ cpool2'[v] = j /\ cpool2[v] = j
      BY <1>6, <2>2 DEF Typed, TypeOK
    <3>2. PICK h \in Chans : From(h, v, j)
      BY <3>1 DEF Pool2True
    <3>3. cch[j].acked /\ cch[j].life > 0
      BY <3>1, AckedFacts DEF Pool2True
    <3>4. From(h, v, j)'
      BY <3>2, <3>3, FromLasts
    <3> QED BY <1>9, <3>1, <3>3, <3>4 DEF From, SameNumber, Reused
  <2> QED BY <2>1, <2>2
<1>13. Kept'
  <2> SUFFICES ASSUME NEW v \in DOMAIN cpool2'
               PROVE  IF cch'[cpool2'[v]].conv = v THEN Holds(cpool, cpool2[v])'
                      ELSE \E h \in Chans : cch'[h].life > 0 /\ Reused(h, cpool2[v])'
    BY DEF Kept
  <2>1. CASE v = m.conv
    BY <1>3, <1>5, <1>6, <1>10, <2>1 DEF Holds
  <2>2. CASE v # m.conv
    <3>1. PICK j \in Chans : v \in DOMAIN cpool2 /\ cpool2'[v] = j /\ cpool2[v] = j
      BY <1>6, <2>2 DEF Typed, TypeOK
    <3>2. cch[j].life > 0
      BY <3>1, AckedFacts DEF Pool2True
    <3>3. CASE j # k /\ cch[j].conv = v
      <4>1. Holds(cpool, j)' /\ cch'[j].conv = v
        BY <1>5, <1>10, <3>1, <3>3 DEF Kept
      <4> QED BY <3>1, <4>1 DEF Holds
    <3>4. ASSUME NEW h \in Chans, cch[h].life > 0, Reused(h, j), cch'[j].conv # v
          PROVE  IF cch'[cpool2'[v]].conv = v THEN Holds(cpool, cpool2[v])'
                 ELSE \E g \in Chans : cch'[g].life > 0 /\ Reused(g, cpool2[v])'
      <4>1. cch'[h].life > 0 /\ Reused(h, j)'
        BY <3>2, <3>4 DEF Lasting, Reused
      <4> QED BY <3>1, <3>4, <4>1 DEF Reused
    <3>5. CASE j # k /\ cch[j].conv # v
      <4>1. PICK h \in Chans : cch[h].life > 0 /\ Reused(h, j)
        BY <3>1, <3>5 DEF Kept
      <4>2. cch'[j].conv # v
        BY <1>5, <3>5
      <4> QED BY <3>4, <4>1, <4>2
    <3>6. CASE j = k
      <4>1. PICK h \in Chans : From(h, v, k)
        BY <3>1, <3>6 DEF Pool2True
      <4>2. h # i /\ cch'[k].conv # v
        BY <1>4, <1>5, <2>2, <4>1 DEF From
      <4>3. cch[h].life > 0 /\ cch[i].life > 0
        BY <1>4, <4>1 DEF From, IdInv, SrvNumbers
      <4>4. Reused(h, k) \/ Reused(i, k)
        BY <1>7, <4>1, <4>2 DEF From, SameNumber
      <4> QED BY <3>4, <3>6, <4>2, <4>3, <4>4
    <3> QED BY <3>3, <3>5, <3>6
  <2> QED BY <2>1, <2>2
<1>14. CliFound'
  <2> SUFFICES ASSUME NEW j \in Chans, Holds(cpool, j)', cch'[j].acked,
                      ~SharedConv(cch[j].conv)'
               PROVE  cch'[j].conv \in DOMAIN cpool2' /\ cpool2'[cch'[j].conv] = j
    BY DEF CliFound
  <2>1. CASE j = k
    BY <1>5, <1>6, <2>1
  <2>2. CASE j # k
    <3>1. Holds(cpool, j) /\ cch[j].acked /\ cch'[j] = cch[j]
      BY <1>5, <1>10, <2>2
    <3>2. ~SharedConv(cch[j].conv)
      BY <3>1, SharedStays
    <3>3. cch[j].conv \in DOMAIN cpool2 /\ cpool2[cch[j].conv] = j
      BY <3>1, <3>2 DEF CliFound
    <3>4. cch[j].conv # m.conv
      <4> SUFFICES ASSUME cch[j].conv = m.conv PROVE FALSE
        OBVIOUS
      <4>1. PICK h \in Chans : CameFor(h, j)
        BY <3>1 DEF IdInv, Answered
      <4>2. SameNumber(h, j) /\ sch[h].life > 0 /\ sch[h].conv = m.conv
        BY <4>1 DEF CameFor, SameNumber
      <4>3. h # i
        BY <1>3, <1>7, <2>2, <3>1, <4>2, OneNumber, AckedFacts
      <4>4. Clash(h, i)
        BY <1>4, <4>2, <4>3 DEF Clash
      <4> QED BY <3>2, <4>2, <4>4 DEF SharedConv
    <3> QED BY <1>6, <3>1, <3>3, <3>4
  <2> QED BY <2>1, <2>2
<1>15. AckSpoken' /\ FinSpoken'
  BY <1>1, AckSpokenKeeps, FinSpokenKeeps, FinsMove, QuietQueues
<1>16. AckedSpoken'
  <2> SUFFICES ASSUME NEW j \in Chans, cch'[j].acked
               PROVE  \E h \in Chans : CameFor(h, j)' /\ Spoken(h)'
    BY DEF AckedSpoken
  <2>1. CASE j = k
    <3>1. From(i, m.conv, k)'
      BY <1>3, <1>8, FromLasts
    <3>2. sch' = sch
      BY <1>1 DEF sVars
    <3>3. CameFor(i, k)'
      BY <1>4, <1>5, <3>1, <3>2 DEF CameFor, From, SameNumber
    <3>4. Spoken(i)'
      BY <1>4 DEF SrvGrows
    <3> QED BY <2>1, <3>3, <3>4
  <2>2. CASE j # k
    <3>1. cch'[j] = cch[j] /\ cch[j].acked
      BY <1>5, <2>2
    <3>2. PICK h \in Chans : CameFor(h, j) /\ Spoken(h)
      BY <3>1 DEF AckedSpoken
    <3> QED BY <3>1, <3>2, AckedFacts, CameForLasts
  <2> QED BY <2>1, <2>2
<1> QED BY <1>11, <1>12, <1>13, <1>14, <1>15, <1>16

LEMMA CliPoolsStep ==
    ASSUME Typed, IdInv, IdInv', SrvPools, CliPools, SpokenInv, [Next]_vars
    PROVE  CliPools' /\ SpokenInv'
<1>1. Keeping
  BY StepLasts, PoolsStep DEF Keeping
<1>2. CASE CliAck \/ CliLateAck \/ CliFin
  BY <1>1, <1>2, CliAckKeeps, CliLateAckKeeps, CliFinKeeps
<1>3. CASE SrvSyn \/ SrvFin \/ \E k \in Chans : ServerStep(k) \/ Data(k)
  BY <1>1, <1>3, SrvActsKeep
<1>4. ASSUME NEW k \in Chans, ClientStep(k) PROVE CliPools' /\ SpokenInv'
  BY <1>1, <1>4, CliConnectsKeeps, CliActsKeep DEF ClientStep
<1>5. ASSUME NEW p \in Programs, Restart(p) PROVE CliPools' /\ SpokenInv'
  BY <1>1, <1>5, RestartKeeps
<1>6. CASE UNCHANGED vars
  <2>1. UNCHANGED <<cVars, toServer, toClient>>
    BY <1>6 DEF vars, queueVars
  <2> QED BY <1>1, <2>1, CliStill, FinsMove, QuietQueues, KeptStep DEF Keeping
<1> QED BY <1>2, <1>3, <1>4, <1>5, <1>6 DEF Next

PoolsInv == SrvPools /\ CliPools /\ SpokenInv

LEMMA PoolsCorrect == Spec => []PoolsInv
<1>1. Init => PoolsInv
  BY PoolsInit, CliPoolsInit DEF PoolsInv
<1>2. Typed /\ IdInv /\ IdInv' /\ PoolsInv /\ [Next]_vars => PoolsInv'
  BY PoolsStep, CliPoolsStep DEF PoolsInv
<1> QED BY <1>1, <1>2, TypedCorrect, IdCorrect, PTL DEF Spec

\* A channel in the pool that has its conv is found by it, unless the server has
\* given it twice: for any channels and convs, restarts and late messages.
THEOREM FoundByTheirConv == Spec => []FoundByConv
<1>1. PoolsInv => FoundByConv
  BY DEF PoolsInv, SrvPools, CliPools, SrvFound, CliFound, FoundByConv
<1> QED BY <1>1, PoolsCorrect, PTL

\* A removed channel is in neither map, but for the client's second ACK.
THEOREM NoGhosts == Spec => []NoGhost
<1>1. IdInv /\ PoolsInv => NoGhost
  BY DEF PoolsInv, SrvPools, CliPools, IdInv, SrvNumbers, Spool2True, Kept, NoGhost
<1> QED BY <1>1, IdCorrect, PoolsCorrect, PTL
-----------------------------------------------------------------------------
(* Nil connections *)

LEMMA NilInit == Init => NilOnlyByClash
BY DEF Init, NilOnlyByClash

\* Two channels of the server with one conv.
LEMMA TwoClash ==
    ASSUME NEW i \in Chans, NEW k \in Chans, i # k, sch[i].life > 0, sch[k].life > 0,
           sch[i].conv = sch[k].conv
    PROVE  \E a, b \in Chans : Clash(a, b)
BY DEF Clash

\* The server's FIN for a channel still dialing: the conv of the FIN is another's.
LEMMA SrvFinNil ==
    ASSUME Typed, IdInv, PoolsInv, SrvFin, panicked' # panicked
    PROVE  \E a, b \in Chans : Clash(a, b)
<1> DEFINE m == Head(toServer)
<1>1. m.conv \in DOMAIN spool2
  BY DEF SrvFin
<1>2. PICK k \in Chans : k = spool2[m.conv]
  BY <1>1 DEF Typed, TypeOK
<1>3. SrvPromise(k, [sch[k] EXCEPT !.client_close = TRUE])
  BY <1>1, <1>2 DEF SrvFin
<1>4. sch[k] \in SrvType
  BY DEF Typed, TypeOK
<1>5. NoConn(sch[k])
  <2>1. [sch[k] EXCEPT !.client_close = TRUE].task = sch[k].task
    BY <1>4 DEF SrvType
  <2> QED BY <1>3, <2>1 DEF SrvPromise, NoConn
<1>6. /\ sch[k].life = life["server"] /\ sch[k].life > 0 /\ sch[k].conv = m.conv
  BY <1>1, <1>2, LifePositive DEF IdInv, SrvNumbers
<1>7. m.cmd = "FIN" /\ 1 \in DOMAIN toServer /\ m = toServer[1] /\ m.conv # NoConv
  <2>1. m.cmd = "FIN" /\ 1 \in DOMAIN toServer /\ m = toServer[1]
    BY HeadTyped DEF SrvFin, FromClient, Typed, TypeOK
  <2> QED BY <1>1, <2>1, SessionAssumption DEF Typed, TypeOK
<1> HIDE DEF m
<1>8. PICK i \in Chans : Spoken(i) /\ sch[i].conv = m.conv
  BY <1>7 DEF PoolsInv, SpokenInv, FinSpoken, HasSpoken
<1>9. i # k
  BY <1>5, <1>6, <1>8 DEF Spoken, Current, NoConn
<1> QED BY <1>6, <1>8, <1>9, TwoClash DEF Spoken

\* Down: fragments of two channels with one conv, or the client has the conv
\* under the number of another channel.
LEMMA DownNilClash ==
    ASSUME Typed, IdInv, PoolsInv, NEW h \in Chans, NEW k \in Chans, DownNil(h, k)
    PROVE  \E a, b \in Chans : Clash(a, b)
<1>1. CASE h # k
  <2>1. sch[h].life > 0 /\ sch[k].life > 0 /\ sch[h].conv = sch[k].conv
    BY LifePositive DEF DownNil, Downward, MayHaveRead, SrvLives
  <2> QED BY <1>1, <2>1 DEF Clash
<1>2. CASE h = k
  <2>1. /\ sch[k].life = life["server"] /\ sch[k].life > 0 /\ sch[k].conv \in DOMAIN cpool2
        /\ Holds(cpool, cpool2[sch[k].conv]) /\ sch[k].chidcli \notin DOMAIN cpool
    BY <1>2, LifePositive DEF DownNil, Downward, SrvLives
  <2>2. PICK v, j : v = sch[k].conv /\ j = cpool2[v] /\ j \in Chans
    BY <2>1 DEF Typed, TypeOK
  <2>3. PICK i \in Chans : From(i, v, j)
    BY <2>1, <2>2 DEF PoolsInv, CliPools, Pool2True
  <2>4. sch[k].chidcli = cch[k].chid
    BY <2>1 DEF IdInv, SrvNumbers
  <2>5. cch[j].chid \in DOMAIN cpool
    BY <2>1, <2>2, CliHolds
  <2>6. i # k
    BY <2>1, <2>3, <2>4, <2>5 DEF From, SameNumber, Reused
  <2> QED BY <2>1, <2>2, <2>3, <2>6, TwoClash DEF From
<1> QED BY <1>1, <1>2

\* Up: the same, or the server has the conv under another channel than the ACK
\* came for.
LEMMA UpNilClash ==
    ASSUME Typed, IdInv, PoolsInv, NEW h \in Chans, NEW k \in Chans, UpNil(h, k)
    PROVE  \E a, b \in Chans : Clash(a, b)
<1>1. CASE h # k
  <2>1. SharedConv(cch[h].conv)
    BY <1>1, AckedApart DEF UpNil, Upward
  <2> QED BY <2>1 DEF SharedConv
<1>2. CASE h = k
  <2>1. /\ cch[k].acked /\ cch[k].conv \in DOMAIN spool2
        /\ Holds(spool, spool2[cch[k].conv])
        /\ cch[k].chidsrv \in DOMAIN spool => NoConn(sch[spool[cch[k].chidsrv]])
    BY <1>2 DEF UpNil, Upward
  <2>2. PICK j \in Chans : j = spool2[cch[k].conv]
    BY <2>1 DEF Typed, TypeOK
  <2>3. /\ sch[j].life = life["server"] /\ sch[j].life > 0 /\ sch[j].conv = cch[k].conv
    BY <2>1, <2>2, LifePositive DEF IdInv, SrvNumbers
  <2>4. PICK i \in Chans : CameFor(i, k) /\ Spoken(i)
    BY <2>1 DEF PoolsInv, SpokenInv, AckedSpoken
  <2>5. sch[j].chid \in DOMAIN spool /\ spool[sch[j].chid] = j
    BY <2>1, <2>2, SrvHolds
  <2>6. i # j
    <3> SUFFICES ASSUME i = j PROVE FALSE
      OBVIOUS
    <3>1. cch[k].chidsrv = sch[j].chid
      BY <2>3, <2>4 DEF CameFor
    <3>2. sch[j].task \in {"open", "ended"}
      BY <2>3, <2>4 DEF Spoken, Current
    <3> QED BY <2>1, <2>5, <3>1, <3>2 DEF NoConn
  <2> QED BY <2>3, <2>4, <2>6, TwoClash DEF CameFor
<1> QED BY <1>1, <1>2

\* No other step panics for a nil connection.
LEMMA NilStep ==
    ASSUME Typed, IdInv, PoolsInv, NilOnlyByClash, [Next]_vars
    PROVE  NilOnlyByClash'
<1>1. (\E i, j \in Chans : Clash(i, j)) => (\E i, j \in Chans : Clash(i, j)')
  BY PoolsStep, SharedStays DEF PoolsInv
<1>2. ASSUME \A p \in Programs : <<p, "nil">> \in panicked' => <<p, "nil">> \in panicked
      PROVE  NilOnlyByClash'
  BY <1>1, <1>2 DEF NilOnlyByClash
<1>3. ASSUME \E i, j \in Chans : Clash(i, j) PROVE NilOnlyByClash'
  BY <1>1, <1>3 DEF NilOnlyByClash
<1>4. CASE CliAck \/ CliLateAck \/ SrvSyn
  BY <1>2, <1>4 DEF CliAck, CliLateAck, SrvSyn
<1>5. CASE CliFin
  BY <1>2, <1>5 DEF CliFin, CliPromise, Panics
<1>6. CASE SrvFin
  BY <1>2, <1>3, <1>6, SrvFinNil
<1>7. ASSUME NEW k \in Chans, ClientStep(k) PROVE NilOnlyByClash'
  BY <1>2, <1>7 DEF ClientStep, CliConnects, CliTimeout, CliReaderEnds, CliCloseEvent,
                    CliPromise, Panics
<1>8. ASSUME NEW k \in Chans, ServerStep(k) PROVE NilOnlyByClash'
  <2>1. CASE SrvPut(k) \/ SrvPut2(k) \/ SrvDialed(k) \/ SrvDialFails(k) \/ SrvReaderEnds(k)
    BY <1>2, <2>1 DEF SrvPut, SrvPut2, SrvDialed, SrvDialFails, SrvReaderEnds
  <2>2. ASSUME NEW ch, SrvPromise(k, ch), ch.server_close PROVE NilOnlyByClash'
    BY <1>2, <2>2 DEF SrvPromise
  <2>3. sch[k] \in SrvType
    BY DEF Typed, TypeOK
  <2>4. CASE SrvCloseEvent(k)
    <3>1. PICK r : r = [sch[k] EXCEPT !.closes = @ - 1]
      OBVIOUS
    <3>2. SrvPromise(k, r) /\ sch[k].server_close
      BY <2>4, <3>1 DEF SrvCloseEvent, PoolsInv, SrvPools, Tasks
    <3>3. r.server_close
      BY <2>3, <3>1, <3>2 DEF SrvType
    <3> QED BY <2>2, <3>2, <3>3
  <2>5. CASE kcpCheckClose(k)
    <3>1. PICK r : r = [sch[k] EXCEPT !.kcp_close = TRUE]
      OBVIOUS
    <3>2. SrvPromise(k, r) /\ sch[k].server_close
      BY <2>5, <3>1 DEF kcpCheckClose
    <3>3. r.server_close
      BY <2>3, <3>1, <3>2 DEF SrvType
    <3> QED BY <2>2, <3>2, <3>3
  <2> QED BY <1>8, <2>1, <2>4, <2>5 DEF ServerStep
<1>9. ASSUME NEW k \in Chans, Data(k) PROVE NilOnlyByClash'
  <2>1. CASE DownUnknown(k)
    BY <1>2, <2>1 DEF DownUnknown
  <2> QED BY <1>3, <1>9, <2>1, DownNilClash, UpNilClash DEF Data
<1>10. ASSUME NEW p \in Programs, Restart(p) PROVE NilOnlyByClash'
  BY <1>2, <1>10 DEF Restart
<1>11. CASE UNCHANGED vars
  BY <1>2, <1>11 DEF vars
<1> QED BY <1>4, <1>5, <1>6, <1>7, <1>8, <1>9, <1>10, <1>11 DEF Next

\* Neither program calls a nil connection unless the server has given one conv
\* to two channels.
THEOREM NilNeedsClash == Spec => []NilOnlyByClash
<1>1. Typed /\ IdInv /\ PoolsInv /\ NilOnlyByClash /\ [Next]_vars => NilOnlyByClash'
  BY NilStep
<1> QED BY NilInit, <1>1, TypedCorrect, IdCorrect, PoolsCorrect, PTL DEF Spec
-----------------------------------------------------------------------------
(* The counters *)

LEMMA CountOne ==
    ASSUME NEW S, IsFiniteSet(S), NEW x
    PROVE  /\ IsFiniteSet(S \cup {x}) /\ IsFiniteSet(S \ {x}) /\ Cardinality(S) \in Nat
           /\ x \notin S => Cardinality(S \cup {x}) = Cardinality(S) + 1
           /\ x \in S => Cardinality(S \ {x}) = Cardinality(S) - 1
           /\ Cardinality(S \ {x}) >= Cardinality(S) - 1
<1>1. Cardinality(S) \in Nat
  BY FS_CardinalityType
<1>2. /\ IsFiniteSet(S \cup {x})
      /\ Cardinality(S \cup {x}) = IF x \in S THEN Cardinality(S) ELSE Cardinality(S) + 1
  BY FS_AddElement
<1>3. /\ IsFiniteSet(S \ {x})
      /\ Cardinality(S \ {x}) = IF x \in S THEN Cardinality(S) - 1 ELSE Cardinality(S)
  BY FS_RemoveElement
<1> QED BY <1>1, <1>2, <1>3

\* chanActiveCount of the client.
ChanCli == IsFiniteSet(DOMAIN cpool) /\ chanact["client"] <= Cardinality(DOMAIN cpool)

LEMMA ChanCliStep == ASSUME Typed, IdInv, ChanCli, [Next]_vars PROVE ChanCli'
<1>1. chanact \in [Programs -> Int] /\ "client" \in Programs /\ "server" \in Programs
  BY DEF Typed, TypeOK, Programs
<1>2. ASSUME NEW k \in Chans, rmClient(k) PROVE ChanCli'
  <2>1. DOMAIN cpool' = DOMAIN cpool \ {cch[k].chid} /\ chanact'["client"] = chanact["client"] - 1
    BY <1>1, <1>2 DEF rmClient, Delete, Trigger
  <2>2. PICK n, S : n = cch[k].chid /\ S = DOMAIN cpool /\ IsFiniteSet(S)
    BY DEF ChanCli
  <2>3. IsFiniteSet(S \ {n}) /\ Cardinality(S \ {n}) >= Cardinality(S) - 1 /\ Cardinality(S) \in Nat
    BY <2>2, CountOne
  <2>4. Cardinality(S \ {n}) \in Nat
    BY <2>3, FS_CardinalityType
  <2> QED BY <1>1, <2>1, <2>2, <2>3, <2>4 DEF ChanCli
<1>3. ASSUME UNCHANGED cpool,
             UNCHANGED chanact \/ \E d \in {-1, 1} : Trigger(chanact, "server", d)
      PROVE  ChanCli'
  <2>1. chanact'["client"] = chanact["client"]
    BY <1>1, <1>3 DEF Trigger
  <2> QED BY <1>3, <2>1 DEF ChanCli
<1>4. CASE CliAck \/ CliLateAck \/ SrvSyn
  BY <1>3, <1>4 DEF CliAck, CliLateAck, SrvSyn, ClientStays, cVars
<1>5. ASSUME NEW k \in Chans, NEW ch, CliPromise(k, ch) PROVE ChanCli'
  BY <1>2, <1>3, <1>5 DEF CliPromise
<1>6. CASE CliFin
  <2>1. CliOK
    BY Parts
  <2> QED BY <1>3, <1>5, <1>6, <2>1 DEF CliFin, CliOK, cVars
<1>7. ASSUME NEW k \in Chans, NEW ch, SrvPromise(k, ch), UNCHANGED cpool PROVE ChanCli'
  BY <1>3, <1>7 DEF SrvPromise, rmServer
<1>8. CASE SrvFin
  <2>1. SrvOK
    BY Parts
  <2> QED BY <1>3, <1>7, <1>8, <2>1 DEF SrvFin, SrvOK, ClientStays, cVars
<1>9. ASSUME NEW k \in Chans, ClientStep(k) PROVE ChanCli'
  <2>1. CASE CliConnects(k)
    <3>1. /\ DOMAIN cpool' = DOMAIN cpool \cup {chanid["client"]}
          /\ chanact'["client"] = chanact["client"] + 1
      BY <1>1, <2>1 DEF CliConnects, Put, Trigger
    <3>2. chanid["client"] \notin DOMAIN cpool
      <4>1. \A n \in DOMAIN cpool : cpool[n] \in Chans /\ n < chanid["client"] /\ n \in Nat
        BY DEF Typed, TypeOK, IdInv, CliNumbers, CliType
      <4>2. chanid["client"] \in Nat
        BY DEF Typed, TypeOK, Programs, Ids
      <4> QED BY <4>1, <4>2
    <3> QED BY <1>1, <3>1, <3>2, CountOne DEF ChanCli
  <2>2. CASE CliTimeout(k) \/ CliReaderEnds(k) \/ CliCloseEvent(k)
    BY <1>2, <1>3, <1>5, <2>2 DEF CliTimeout, CliReaderEnds, CliCloseEvent
  <2> QED BY <1>9, <2>1, <2>2 DEF ClientStep
<1>10. ASSUME NEW k \in Chans, ServerStep(k) PROVE ChanCli'
  <2>1. UNCHANGED cpool
    BY <1>10 DEF ServerStep, SrvPut, SrvPut2, SrvDialed, SrvDialFails, SrvReaderEnds,
                 SrvCloseEvent, kcpCheckClose, ClientStays, cVars
  <2>2. CASE SrvCloseEvent(k) \/ kcpCheckClose(k)
    BY <1>7, <2>1, <2>2 DEF SrvCloseEvent, kcpCheckClose
  <2>3. CASE SrvPut(k) \/ SrvPut2(k) \/ SrvDialed(k) \/ SrvDialFails(k) \/ SrvReaderEnds(k)
    BY <1>3, <2>1, <2>3 DEF SrvPut, SrvPut2, SrvDialed, SrvDialFails, SrvReaderEnds
  <2> QED BY <1>10, <2>2, <2>3 DEF ServerStep
<1>11. ASSUME NEW k \in Chans, Data(k) PROVE ChanCli'
  BY <1>3, <1>11 DEF Data, DownNil, UpNil, DownUnknown, cVars
<1>12. ASSUME NEW p \in Programs, Restart(p) PROVE ChanCli'
  <2>1. CASE p = "client"
    <3>1. DOMAIN cpool' = {} /\ chanact'["client"] = 0
      BY <1>1, <1>12, <2>1 DEF Restart, Empty
    <3> QED BY <3>1, FS_EmptySet DEF ChanCli
  <2>2. CASE p = "server"
    <3>1. UNCHANGED cpool /\ chanact'["client"] = chanact["client"]
      BY <1>1, <1>12, <2>2 DEF Restart, cVars
    <3> QED BY <3>1 DEF ChanCli
  <2> QED BY <2>1, <2>2 DEF Programs
<1>13. CASE UNCHANGED vars
  BY <1>3, <1>13 DEF vars, cVars
<1> QED BY <1>4, <1>6, <1>8, <1>9, <1>10, <1>11, <1>12, <1>13 DEF Next

\* chanActiveCount of the server: of the numbers past putServer.
Counted == {n \in DOMAIN spool : sch[spool[n]].task # "pool2"}
ChanSrv == IsFiniteSet(DOMAIN spool) /\ chanact["server"] <= Cardinality(Counted)

\* A step that changes no task from or to "pool2", and no number in the pool.
LEMMA CountedStays ==
    ASSUME Typed, ChanSrv, UNCHANGED spool, chanact'["server"] = chanact["server"],
           \A i \in Chans : Holds(spool, i) => (sch'[i].task = "pool2" <=> sch[i].task = "pool2")
    PROVE  ChanSrv'
<1>1. Counted' = Counted
  <2>1. \A n \in DOMAIN spool : spool[n] \in Chans /\ Holds(spool, spool[n])
    BY DEF Typed, TypeOK, Holds
  <2> QED BY <2>1 DEF Counted
<1> QED BY <1>1 DEF ChanSrv

LEMMA CountedGoes ==
    ASSUME Typed, IdInv, ChanSrv, NEW k \in Chans, Current(k), rmServer(k),
           \A i \in Chans : i # k => (sch'[i].task = "pool2" <=> sch[i].task = "pool2")
    PROVE  ChanSrv'
<1>1. /\ DOMAIN spool' = DOMAIN spool \ {sch[k].chid}
      /\ \A n \in DOMAIN spool' : spool'[n] = spool[n]
      /\ chanact'["server"] = chanact["server"] - 1
      /\ chanact["server"] \in Int
  BY DEF rmServer, Delete, Trigger, Typed, TypeOK, Programs
<1>2. \A n \in DOMAIN spool : spool[n] \in Chans /\ (n = sch[k].chid <=> spool[n] = k)
  BY NumberOf
<1>3. Counted' = Counted \ {sch[k].chid}
  BY <1>1, <1>2 DEF Counted
<1>4. IsFiniteSet(DOMAIN spool') /\ IsFiniteSet(Counted)
  <2>1. Counted \in SUBSET DOMAIN spool
    BY DEF Counted
  <2> QED BY <1>1, <2>1, FS_Subset, CountOne DEF ChanSrv
<1>5. /\ Cardinality(Counted') >= Cardinality(Counted) - 1 /\ Cardinality(Counted) \in Nat
      /\ IsFiniteSet(Counted')
  BY <1>3, <1>4, CountOne
<1>6. Cardinality(Counted') \in Nat
  BY <1>5, FS_CardinalityType
<1> QED BY <1>1, <1>4, <1>5, <1>6 DEF ChanSrv

\* Of its connections: those open, less the dials that failed.
Open   == {k \in Chans : Current(k) /\ sch[k].task = "open"}
Failed == {k \in Chans : Current(k) /\ sch[k].task = "failed"}
ConnSrv ==
    /\ IsFiniteSet(Open) /\ IsFiniteSet(Failed)
    /\ connact["server"] = Cardinality(Open) - Cardinality(Failed)

LEMMA ConnSrvStays ==
    ASSUME ConnSrv, connact'["server"] = connact["server"], life'["server"] = life["server"],
           \A i \in Chans : \/ sch'[i].life = sch[i].life /\ sch'[i].task = sch[i].task
                            \/ /\ Current(i) => sch[i].task \notin {"open", "failed"}
                               /\ sch'[i].task \notin {"open", "failed"}
    PROVE  ConnSrv'
<1>1. Open' = Open /\ Failed' = Failed
  BY DEF Open, Failed, Current
<1> QED BY <1>1 DEF ConnSrv

\* What a step makes of one task.
TaskBecomes(k, t) ==
    /\ sch'[k].life = sch[k].life /\ sch'[k].task = t
    /\ \A i \in Chans : i # k => sch'[i] = sch[i]

LEMMA TaskSet ==
    ASSUME Typed, NEW k \in Chans, NEW t,
           \/ sch' = [sch EXCEPT ![k] = [sch[k] EXCEPT !.task = t]]
           \/ sch' = [sch EXCEPT ![k] = [sch[k] EXCEPT !.task = t, !.server_close = TRUE,
                                                       !.closes = @ + 1]]
    PROVE  TaskBecomes(k, t)
<1>1. sch \in [Chans -> SrvType] /\ sch[k] \in SrvType
  BY DEF Typed, TypeOK
<1>2. LET r == [sch[k] EXCEPT !.task = t] IN r.life = sch[k].life /\ r.task = t
  BY <1>1 DEF SrvType
<1>3. LET r == [sch[k] EXCEPT !.task = t, !.server_close = TRUE, !.closes = @ + 1]
      IN  r.life = sch[k].life /\ r.task = t
  BY <1>1 DEF SrvType
<1>4. CASE sch' = [sch EXCEPT ![k] = [sch[k] EXCEPT !.task = t]]
  BY <1>1, <1>2, <1>4 DEF TaskBecomes
<1>5. CASE sch' = [sch EXCEPT ![k] = [sch[k] EXCEPT !.task = t, !.server_close = TRUE,
                                                    !.closes = @ + 1]]
  BY <1>1, <1>3, <1>5 DEF TaskBecomes
<1> QED BY <1>4, <1>5

\* Both, for the steps of one task: putServer, the dial, the reader's end.
LEMMA TaskCounts ==
    ASSUME Typed, IdInv, SrvPools, ChanSrv, ConnSrv, NEW k \in Chans,
           SrvPut(k) \/ SrvPut2(k) \/ SrvDialed(k) \/ SrvDialFails(k) \/ SrvReaderEnds(k)
    PROVE  ChanSrv' /\ ConnSrv'
<1>1. Current(k) /\ UNCHANGED life
  BY DEF SrvPut, SrvPut2, SrvDialed, SrvDialFails, SrvReaderEnds, ClientStays, SrvLives, Current
<1>2. /\ chanact \in [Programs -> Int] /\ connact \in [Programs -> Int]
      /\ chanact["server"] \in Int /\ connact["server"] \in Int /\ "server" \in Programs
  BY DEF Typed, TypeOK, Programs
<1>3. \A n \in DOMAIN spool : spool[n] \in Chans /\ (n = sch[k].chid <=> spool[n] = k)
  BY <1>1, NumberOf
<1>4. CASE SrvPut(k)
  <2>1. /\ TaskBecomes(k, "pool2") /\ sch[k].task = "pool" /\ UNCHANGED <<chanact, connact>>
        /\ spool' = Put(spool, sch[k].chid, k)
    BY <1>4, TaskSet DEF SrvPut
  <2>2. Counted' = Counted
    <3>1. ~Holds(spool, k)
      BY <1>1, <2>1 DEF SrvPools, Tasks
    <3>2. sch[k].chid \notin DOMAIN spool
      BY <1>3, <3>1 DEF Holds
    <3> QED BY <1>3, <2>1, <3>2 DEF Counted, Put, TaskBecomes
  <2>3. DOMAIN spool' = DOMAIN spool \cup {sch[k].chid}
    BY <2>1 DEF Put
  <2>4. ChanSrv'
    BY <2>1, <2>2, <2>3, CountOne DEF ChanSrv
  <2>5. ConnSrv'
    BY <1>1, <2>1, ConnSrvStays DEF TaskBecomes
  <2> QED BY <2>4, <2>5
<1>5. CASE SrvPut2(k)
  <2>1. /\ TaskBecomes(k, "dial") /\ sch[k].task = "pool2" /\ UNCHANGED <<spool, connact>>
        /\ chanact'["server"] = chanact["server"] + 1
    BY <1>2, <1>5, TaskSet DEF SrvPut2, Trigger
  <2>2. Counted' = Counted \cup {sch[k].chid} /\ sch[k].chid \notin Counted
    <3>1. Holds(spool, k)
      BY <1>1, <2>1 DEF SrvPools, Tasks
    <3>2. sch[k].chid \in DOMAIN spool /\ spool[sch[k].chid] = k
      BY <1>3, <3>1 DEF Holds
    <3> QED BY <1>3, <2>1, <3>2 DEF Counted, TaskBecomes
  <2>3. IsFiniteSet(Counted)
    <3>1. Counted \in SUBSET DOMAIN spool
      BY DEF Counted
    <3> QED BY <3>1, FS_Subset DEF ChanSrv
  <2>4. Cardinality(Counted') = Cardinality(Counted) + 1 /\ Cardinality(Counted) \in Nat
    BY <2>2, <2>3, CountOne
  <2>5. ChanSrv'
    BY <1>2, <2>1, <2>4 DEF ChanSrv
  <2>6. ConnSrv'
    BY <1>1, <2>1, ConnSrvStays DEF TaskBecomes
  <2> QED BY <2>5, <2>6
<1>6. CASE SrvDialed(k)
  <2>1. TaskBecomes(k, "open") /\ sch[k].task = "dial" /\ UNCHANGED <<spool, chanact>>
    BY <1>6, TaskSet DEF SrvDialed
  <2>2. connact'["server"] = connact["server"] + 1
    BY <1>2, <1>6 DEF SrvDialed, Trigger
  <2>3. ChanSrv'
    BY <2>1, CountedStays DEF TaskBecomes
  <2>4. Open' = Open \cup {k} /\ k \notin Open /\ Failed' = Failed
    BY <1>1, <2>1 DEF Open, Failed, Current, TaskBecomes
  <2>5. IsFiniteSet(Open') /\ Cardinality(Open') = Cardinality(Open) + 1 /\ Cardinality(Open) \in Nat
    BY <2>4, CountOne DEF ConnSrv
  <2>6. Cardinality(Failed) \in Nat
    BY FS_CardinalityType DEF ConnSrv
  <2> QED BY <2>2, <2>3, <2>4, <2>5, <2>6 DEF ConnSrv
<1>7. CASE SrvDialFails(k)
  <2>1. TaskBecomes(k, "failed") /\ sch[k].task = "dial" /\ UNCHANGED <<spool, chanact>>
    BY <1>7, TaskSet DEF SrvDialFails
  <2>2. connact'["server"] = connact["server"] + (-1)
    BY <1>2, <1>7 DEF SrvDialFails, Trigger
  <2>3. ChanSrv'
    BY <2>1, CountedStays DEF TaskBecomes
  <2>4. Failed' = Failed \cup {k} /\ k \notin Failed /\ Open' = Open
    BY <1>1, <2>1 DEF Open, Failed, Current, TaskBecomes
  <2>5. /\ IsFiniteSet(Failed') /\ Cardinality(Failed') = Cardinality(Failed) + 1
        /\ Cardinality(Failed) \in Nat
    BY <2>4, CountOne DEF ConnSrv
  <2>6. Cardinality(Open) \in Nat
    BY FS_CardinalityType DEF ConnSrv
  <2> QED BY <2>2, <2>3, <2>4, <2>5, <2>6 DEF ConnSrv
<1>8. CASE SrvReaderEnds(k)
  <2>1. TaskBecomes(k, "ended") /\ sch[k].task = "open" /\ UNCHANGED <<spool, chanact>>
    <3>1. sch \in [Chans -> SrvType]
      BY DEF Typed, TypeOK
    <3>2. sch' = [sch EXCEPT ![k] = [sch[k] EXCEPT !.task = "ended", !.server_close = TRUE,
                                                 !.closes = @ + 1]]
      BY <1>8, <3>1 DEF SrvReaderEnds
    <3>3. TaskBecomes(k, "ended")
      BY <3>2, TaskSet
    <3> QED BY <1>8, <3>3 DEF SrvReaderEnds
  <2>2. connact'["server"] = connact["server"] + (-1)
    BY <1>2, <1>8 DEF SrvReaderEnds, Trigger
  <2>3. ChanSrv'
    BY <2>1, CountedStays DEF TaskBecomes
  <2>4. Open' = Open \ {k} /\ k \in Open /\ Failed' = Failed
    BY <1>1, <2>1 DEF Open, Failed, Current, TaskBecomes
  <2>5. IsFiniteSet(Open') /\ Cardinality(Open') = Cardinality(Open) - 1 /\ Cardinality(Open) \in Nat
    BY <2>4, CountOne DEF ConnSrv
  <2>6. Cardinality(Failed) \in Nat
    BY FS_CardinalityType DEF ConnSrv
  <2> QED BY <2>2, <2>3, <2>4, <2>5, <2>6 DEF ConnSrv
<1> QED BY <1>4, <1>5, <1>6, <1>7, <1>8

\* Both, for promiseChannelClose.
LEMMA PromiseCounts ==
    ASSUME Typed, IdInv, ChanSrv, ConnSrv, NEW k \in Chans, NEW ch \in SrvType, Current(k),
           ch.task = sch[k].task, ch.life = sch[k].life, SrvPromise(k, ch),
           UNCHANGED <<life, connact>>
    PROVE  ChanSrv' /\ ConnSrv'
<1>1. \A i \in Chans : sch'[i].task = sch[i].task /\ sch'[i].life = sch[i].life
  <2>1. PICK r \in SrvType : /\ sch' = [sch EXCEPT ![k] = r] /\ r.task = sch[k].task
                             /\ r.life = sch[k].life
    <3>1. LET r == [ch EXCEPT !.server_close = TRUE]
          IN  r \in SrvType /\ r.task = ch.task /\ r.life = ch.life
      BY DEF SrvType
    <3> QED BY <3>1 DEF SrvPromise
  <2> QED BY <2>1 DEF Typed, TypeOK
<1>2. CASE rmServer(k)
  BY <1>1, <1>2, CountedGoes, ConnSrvStays
<1>3. CASE UNCHANGED <<spool, spool2, chanact>>
  BY <1>1, <1>3, CountedStays, ConnSrvStays
<1> QED BY <1>2, <1>3 DEF SrvPromise

LEMMA SrvCountsStep ==
    ASSUME Typed, IdInv, SrvPools, ChanSrv, ConnSrv, [Next]_vars
    PROVE  ChanSrv' /\ ConnSrv'
<1>1. /\ chanact \in [Programs -> Int] /\ connact \in [Programs -> Int] /\ sch \in [Chans -> SrvType]
  BY DEF Typed, TypeOK
<1>2. ASSUME UNCHANGED <<sVars, life>>,
             UNCHANGED chanact \/ (\E d \in {-1, 1} : Trigger(chanact, "client", d)),
             UNCHANGED connact \/ (\E d \in {-1, 1} : Trigger(connact, "client", d))
      PROVE  ChanSrv' /\ ConnSrv'
  <2>1. chanact'["server"] = chanact["server"] /\ connact'["server"] = connact["server"]
    BY <1>1, <1>2 DEF Trigger, Programs
  <2>2. UNCHANGED <<sch, spool, life>>
    BY <1>2 DEF sVars
  <2> QED BY <2>1, <2>2, CountedStays, ConnSrvStays
<1>3. CASE CliAck \/ CliLateAck
  BY <1>2, <1>3 DEF CliAck, CliLateAck
<1>4. ASSUME NEW k, NEW ch, CliPromise(k, ch), UNCHANGED <<sVars, life, connact>>
      PROVE  ChanSrv' /\ ConnSrv'
  BY <1>2, <1>4 DEF CliPromise, rmClient
<1>5. CASE CliFin
  BY <1>2, <1>4, <1>5 DEF CliFin
<1>6. CASE SrvSyn
  <2>1. UNCHANGED <<spool, life, chanact, connact>> /\ FromClient("SYN")
    BY <1>6 DEF SrvSyn, ClientStays
  <2>2. PICK m \in Message, k \in Chans, conv \in Convs :
           m = Head(toServer) /\ k = m.of /\ sch' = [sch EXCEPT ![k] = Channel(m, conv)]
    <3>1. Head(toServer) \in Message
      BY <2>1, Parts, FromClientTyped
    <3>2. Head(toServer).of \in Chans
      BY <3>1, MessageFields
    <3> QED BY <1>6, <3>1, <3>2 DEF SrvSyn
  <2>3. sch[k].life = 0
    <3>1. 1 \in DOMAIN toServer /\ m = toServer[1] /\ m.cmd = "SYN"
      BY <2>1, <2>2, HeadTyped DEF FromClient, Typed, TypeOK
    <3> QED BY <2>2, <3>1 DEF IdInv, SynTrue
  <2>4. ~Current(k) /\ ~Holds(spool, k)
    BY <2>3, SrvHolds, LifePositive DEF Current
  <2>5. sch'[k].task = "pool" /\ \A i \in Chans : i # k => sch'[i] = sch[i]
    <3>1. Channel(m, conv).task = "pool"
      BY DEF Channel, NewSrv
    <3> QED BY <1>1, <2>2, <3>1
  <2>6. ChanSrv'
    BY <2>1, <2>4, <2>5, CountedStays
  <2>7. \A i \in Chans : \/ sch'[i].life = sch[i].life /\ sch'[i].task = sch[i].task
                         \/ /\ Current(i) => sch[i].task \notin {"open", "failed"}
                            /\ sch'[i].task \notin {"open", "failed"}
    BY <2>4, <2>5
  <2> QED BY <2>1, <2>6, <2>7, ConnSrvStays
<1>7. CASE SrvFin
  <2>1. UNCHANGED <<life, connact>>
    BY <1>7 DEF SrvFin, ClientStays
  <2>2. CASE Head(toServer).conv \in DOMAIN spool2
    <3>1. PICK k, r : /\ k \in Chans /\ k = spool2[Head(toServer).conv]
                     /\ r = [sch[k] EXCEPT !.client_close = TRUE]
      BY <2>2 DEF Typed, TypeOK
    <3>2. r \in SrvType /\ r.task = sch[k].task /\ r.life = sch[k].life
      <4>1. sch[k] \in SrvType
        BY <1>1, <3>1
      <4>2. r \in SrvType
        BY <3>1, <4>1, SrvFlagged
      <4> QED BY <3>1, <4>1, <4>2 DEF SrvType
    <3>3. Current(k)
      BY <2>2, <3>1 DEF IdInv, SrvNumbers, Current
    <3>4. SrvPromise(k, r)
      BY <1>7, <2>2, <3>1 DEF SrvFin
    <3> QED BY <2>1, <3>1, <3>2, <3>3, <3>4, PromiseCounts
  <2>3. CASE Head(toServer).conv \notin DOMAIN spool2
    BY <1>2, <1>7, <2>1, <2>3 DEF SrvFin
  <2> QED BY <2>2, <2>3
<1>8. ASSUME NEW k \in Chans, ClientStep(k) PROVE ChanSrv' /\ ConnSrv'
  <2>1. UNCHANGED <<sVars, life>>
    BY <1>8 DEF ClientStep, CliConnects, CliTimeout, CliReaderEnds, CliCloseEvent, ServerStays
  <2>2. CASE CliConnects(k)
    BY <1>2, <2>1, <2>2 DEF CliConnects
  <2>3. CASE CliTimeout(k)
    BY <1>2, <2>1, <2>3 DEF CliTimeout, rmClient
  <2>4. CASE CliReaderEnds(k)
    BY <1>2, <2>1, <2>4 DEF CliReaderEnds
  <2>5. CASE CliCloseEvent(k)
    BY <1>4, <2>1, <2>5 DEF CliCloseEvent
  <2> QED BY <1>8, <2>2, <2>3, <2>4, <2>5 DEF ClientStep
<1>9. ASSUME NEW k \in Chans, ServerStep(k) PROVE ChanSrv' /\ ConnSrv'
  <2>1. CASE SrvCloseEvent(k)
    <3>1. PICK r : r = [sch[k] EXCEPT !.closes = @ - 1]
      OBVIOUS
    <3>2. SrvPromise(k, r) /\ sch[k].closes > 0 /\ Current(k) /\ UNCHANGED <<life, connact>>
      BY <2>1, <3>1 DEF SrvCloseEvent, ClientStays, SrvLives, Current
    <3>3. r \in SrvType
      BY <1>1, <3>1, <3>2, SrvTaken
    <3>4. r.task = sch[k].task /\ r.life = sch[k].life
      BY <1>1, <3>1 DEF SrvType
    <3> QED BY <3>2, <3>3, <3>4, PromiseCounts
  <2>2. CASE kcpCheckClose(k)
    <3>1. PICK r : r = [sch[k] EXCEPT !.kcp_close = TRUE]
      OBVIOUS
    <3>2. SrvPromise(k, r) /\ Current(k) /\ UNCHANGED <<life, connact>>
      BY <2>2, <3>1 DEF kcpCheckClose, ClientStays, SrvLives, Current
    <3>3. r \in SrvType
      <4>1. sch[k] \in SrvType
        BY <1>1
      <4> QED BY <3>1, <4>1, SrvFlagged
    <3>4. r.task = sch[k].task /\ r.life = sch[k].life
      BY <1>1, <3>1 DEF SrvType
    <3> QED BY <3>2, <3>3, <3>4, PromiseCounts
  <2> QED BY <1>9, <2>1, <2>2, TaskCounts DEF ServerStep
<1>10. ASSUME NEW k \in Chans, Data(k) PROVE ChanSrv' /\ ConnSrv'
  BY <1>2, <1>10 DEF Data, DownNil, UpNil, DownUnknown
<1>11. ASSUME NEW p \in Programs, Restart(p) PROVE ChanSrv' /\ ConnSrv'
  <2>1. life' = [life EXCEPT ![p] = @ + 1] /\ life \in [Programs -> Ids]
    BY <1>11 DEF Restart, Typed, TypeOK
  <2>2. CASE p = "client"
    <3>1. /\ UNCHANGED <<sch, spool>> /\ life'["server"] = life["server"]
          /\ chanact'["server"] = chanact["server"] /\ connact'["server"] = connact["server"]
      BY <1>1, <1>11, <2>1, <2>2 DEF Restart, sVars, Programs
    <3> QED BY <3>1, CountedStays, ConnSrvStays
  <2>3. CASE p = "server"
    <3>1. /\ DOMAIN spool' = {} /\ life'["server"] = life["server"] + 1
          /\ chanact'["server"] = 0 /\ connact'["server"] = 0
      BY <1>1, <1>11, <2>1, <2>3 DEF Restart, Empty, Programs
    <3>2. \A i \in Chans : sch'[i].life = sch[i].life
      <4>1. sch' = [i \in Chans |-> LeftSrv(sch[i])]
        BY <1>11, <2>3 DEF Restart
      <4>2. \A i \in Chans : LET r == LeftSrv(sch[i])
                             IN  r.life = sch[i].life
        BY DEF LeftSrv, NewSrv
      <4> QED BY <4>1, <4>2
    <3>3. \A i \in Chans : ~Current(i)'
      BY <3>1, <3>2, LifePositive DEF Typed, Numbered, Current
    <3>4. Counted' = {} /\ Open' = {} /\ Failed' = {}
      BY <3>1, <3>3 DEF Counted, Open, Failed
    <3> QED BY <3>1, <3>4, FS_EmptySet DEF ChanSrv, ConnSrv
  <2> QED BY <2>2, <2>3 DEF Programs
<1>12. CASE UNCHANGED vars
  BY <1>2, <1>12 DEF vars
<1> QED BY <1>3, <1>5, <1>6, <1>7, <1>8, <1>9, <1>10, <1>11, <1>12 DEF Next

\* The client's readers.  Each was begun by an ACK of a channel of its own, so
\* there are never more than channels whose ACK has been taken or lost.
AckOnce ==
    \A a, b \in DOMAIN toClient :
        a # b /\ toClient[a].cmd = "ACK" /\ toClient[b].cmd = "ACK" =>
            toClient[a].of # toClient[b].of
Taken ==
    {i \in Chans : /\ Spoken(i)
                   /\ \A a \in DOMAIN toClient : toClient[a].cmd = "ACK" => toClient[a].of # i}
FewReaders == \A k \in Chans : cch[k].readers <= Cardinality(Taken)

LEMMA StepToClient ==
    ASSUME Typed, [Next]_vars
    PROVE  QuietToClient \/ (\E k \in Chans : SrvDialed(k)) \/ (\E p \in Programs : Restart(p))
<1>1. CASE CliAck \/ CliLateAck \/ CliFin
  BY <1>1, QuietQueues DEF CliAck, CliLateAck, CliFin
<1>2. CASE SrvSyn \/ SrvFin
  BY <1>2, QuietQueues, SrvFinQuiet DEF SrvSyn, Quiet
<1>3. ASSUME NEW k \in Chans, ClientStep(k) PROVE QuietToClient
  BY <1>3, QuietQueues, CliQuiet DEF Quiet, ClientStep, CliConnects, ServerStays
<1>4. ASSUME NEW k \in Chans, ServerStep(k), ~SrvDialed(k) PROVE QuietToClient
  BY <1>4, SrvQuiet, QuietQueues DEF Quiet, ServerStep, SrvPut, SrvPut2, queueVars
<1>5. ASSUME NEW k \in Chans, Data(k) PROVE QuietToClient
  BY <1>5, DataQuiet DEF Quiet
<1>6. CASE UNCHANGED vars
  BY <1>6, QuietQueues DEF vars, queueVars
<1> QED BY <1>1, <1>2, <1>3, <1>4, <1>5, <1>6 DEF Next

LEMMA TakenQuiet ==
    ASSUME Typed, Typed', SrvGrows, AckOnce, QuietToClient
    PROVE  AckOnce' /\ Taken \subseteq Taken'
<1>1. PICK d \in {0, 1} : \A a \in DOMAIN toClient' : toClient'[a].cmd = "ACK" =>
         a + d \in DOMAIN toClient /\ toClient'[a] = toClient[a + d]
  BY DEF QuietToClient
<1>2. toClient' \in Seq(Message)
  BY DEF Typed, TypeOK
<1>3. AckOnce'
  <2> SUFFICES ASSUME NEW a \in DOMAIN toClient', NEW b \in DOMAIN toClient', a # b,
                      toClient'[a].cmd = "ACK", toClient'[b].cmd = "ACK"
               PROVE  toClient'[a].of # toClient'[b].of
    BY DEF AckOnce
  <2>1. a + d \in DOMAIN toClient /\ b + d \in DOMAIN toClient
        /\ toClient'[a] = toClient[a + d] /\ toClient'[b] = toClient[b + d]
    BY <1>1
  <2>2. a + d # b + d
    BY <1>2
  <2> QED BY <2>1, <2>2 DEF AckOnce
<1>4. Taken \subseteq Taken'
  BY <1>1 DEF Taken, SrvGrows, Spoken
<1> QED BY <1>3, <1>4

\* The ACK of a channel just opened is its first.
LEMMA TakenDialed ==
    ASSUME Typed, SrvGrows, AckOnce, AckSpoken, NEW k \in Chans, SrvDialed(k)
    PROVE  AckOnce' /\ Taken \subseteq Taken'
<1>1. PICK m : m = Msg("ACK", sch[k].chidcli, sch[k].chid, sch[k].conv, k)
  OBVIOUS
<1>2. toClient' = Append(toClient, m) /\ m.of = k /\ m.cmd = "ACK"
  BY <1>1, MsgFields DEF SrvDialed, ToClient
<1>3. toClient \in Seq(Message)
  BY DEF Typed, TypeOK
<1>4. /\ DOMAIN toClient' = DOMAIN toClient \cup {Len(toClient) + 1}
      /\ toClient'[Len(toClient) + 1] = m
      /\ \A a \in DOMAIN toClient : toClient'[a] = toClient[a]
  BY <1>2, <1>3
<1>5. ~Spoken(k)
  BY DEF SrvDialed, SrvLives, Spoken, Current
<1>6. \A a \in DOMAIN toClient : toClient[a].cmd = "ACK" => toClient[a].of # k
  BY <1>5 DEF AckSpoken
<1>7. AckOnce'
  BY <1>2, <1>4, <1>6 DEF AckOnce
<1>8. Taken \subseteq Taken'
  <2>1. \A i \in Taken : i \in Chans /\ i # k /\ Spoken(i)
    BY <1>5 DEF Taken
  <2>2. \A i \in Taken : Spoken(i)'
    BY <2>1 DEF SrvGrows, Spoken
  <2> QED BY <1>2, <1>4, <2>1, <2>2 DEF Taken
<1> QED BY <1>7, <1>8

LEMMA TakenStep ==
    ASSUME Typed, Typed', IdInv, SrvPools, SpokenInv, AckOnce, [Next]_vars
    PROVE  AckOnce' /\ Taken \subseteq Taken'
<1>1. SrvGrows
  BY PoolsStep
<1>2. ASSUME NEW p \in Programs, Restart(p) PROVE AckOnce' /\ Taken \subseteq Taken'
  <2>1. toClient' = <<>>
    BY <1>2 DEF Restart
  <2>2. DOMAIN toClient' = {}
    BY <2>1
  <2> QED BY <1>1, <2>2 DEF AckOnce, Taken, SrvGrows, Spoken
<1> QED BY <1>1, <1>2, StepToClient, TakenQuiet, TakenDialed DEF SpokenInv

\* The steps that leave the client's readers alone.
OtherStep ==
    \/ CliLateAck \/ CliFin \/ SrvSyn \/ SrvFin \/ UNCHANGED vars
    \/ \E k \in Chans : CliTimeout(k) \/ CliCloseEvent(k) \/ ServerStep(k) \/ Data(k)

SameReaders ==
    \A i \in Chans :
        /\ cch'[i].readers = cch[i].readers /\ cch'[i].life = cch[i].life
        /\ cch'[i].acked = cch[i].acked /\ (cch[i].client_close => cch'[i].client_close)

LEMMA PromiseReaders ==
    ASSUME Typed, NEW k \in Chans, NEW ch \in CliType, CliPromise(k, ch),
           ch.readers = cch[k].readers, ch.life = cch[k].life, ch.acked = cch[k].acked,
           cch[k].client_close => ch.client_close
    PROVE  SameReaders
<1>1. PICK r \in CliType : /\ cch' = [cch EXCEPT ![k] = r] /\ r.readers = cch[k].readers
                           /\ r.life = cch[k].life /\ r.acked = cch[k].acked
                           /\ cch[k].client_close => r.client_close
  <2>1. LET r == [ch EXCEPT !.client_close = TRUE]
        IN  /\ r \in CliType /\ r.readers = ch.readers /\ r.life = ch.life
            /\ r.acked = ch.acked /\ r.client_close
    BY DEF CliType
  <2> QED BY <2>1 DEF CliPromise
<1> QED BY <1>1 DEF Typed, TypeOK, SameReaders

LEMMA OtherReaders ==
    ASSUME Typed, OtherStep
    PROVE  SameReaders /\ connact'["client"] = connact["client"] /\ UNCHANGED life
<1>1. /\ connact \in [Programs -> Int] /\ cch \in [Chans -> CliType]
      /\ \A k \in Chans : cch[k] \in CliType
  BY DEF Typed, TypeOK
<1>2. ASSUME UNCHANGED <<cch, life>>,
             UNCHANGED connact \/ (\E d \in {-1, 1} : Trigger(connact, "server", d))
      PROVE  SameReaders /\ connact'["client"] = connact["client"] /\ UNCHANGED life
  BY <1>1, <1>2 DEF Trigger, Programs, SameReaders
<1>3. CASE CliLateAck \/ SrvSyn \/ UNCHANGED vars
  BY <1>2, <1>3 DEF CliLateAck, SrvSyn, ClientStays, cVars, vars
<1>4. CASE SrvFin
  BY <1>2, <1>4 DEF SrvFin, ClientStays, cVars
<1>5. CASE CliFin
  <2> DEFINE m == Head(toClient)
  <2>1. UNCHANGED <<life, connact>>
    BY <1>5 DEF CliFin
  <2>2. CASE m.conv \in DOMAIN cpool2
    <3>1. PICK k, r : /\ k \in Chans /\ k = cpool2[m.conv]
                     /\ r = [cch[k] EXCEPT !.server_close = TRUE]
      BY <2>2 DEF Typed, TypeOK
    <3>2. CliPromise(k, r)
      BY <1>5, <2>2, <3>1 DEF CliFin
    <3>3. r \in CliType
      BY <1>1, <3>1, CliFinned
    <3>4. /\ r.readers = cch[k].readers /\ r.life = cch[k].life /\ r.acked = cch[k].acked
          /\ r.client_close = cch[k].client_close
      BY <1>1, <3>1 DEF CliType
    <3> QED BY <2>1, <3>1, <3>2, <3>3, <3>4, PromiseReaders
  <2>3. CASE m.conv \notin DOMAIN cpool2 /\ m.chidcli \in DOMAIN cpool
    <3>1. PICK k \in Chans : k = cpool[m.chidcli]
      BY <2>3 DEF Typed, TypeOK
    <3>2. CliPromise(k, cch[k])
      BY <1>5, <2>3, <3>1 DEF CliFin
    <3> QED BY <1>1, <2>1, <3>2, PromiseReaders
  <2>4. CASE m.conv \notin DOMAIN cpool2 /\ m.chidcli \notin DOMAIN cpool
    BY <1>2, <1>5, <2>1, <2>4 DEF CliFin, cVars
  <2> QED BY <2>2, <2>3, <2>4
<1>6. ASSUME NEW k \in Chans, CliTimeout(k)
      PROVE  SameReaders /\ connact'["client"] = connact["client"] /\ UNCHANGED life
  BY <1>2, <1>6 DEF CliTimeout, ServerStays
<1>7. ASSUME NEW k \in Chans, CliCloseEvent(k)
      PROVE  SameReaders /\ connact'["client"] = connact["client"] /\ UNCHANGED life
  <2>1. PICK r : r = [cch[k] EXCEPT !.closes = @ - 1]
    OBVIOUS
  <2>2. CliPromise(k, r) /\ cch[k].closes > 0 /\ UNCHANGED <<life, connact>>
    BY <1>7, <2>1 DEF CliCloseEvent, ServerStays
  <2>3. r \in CliType
    BY <1>1, <2>1, <2>2, CliTaken
  <2>4. /\ r.readers = cch[k].readers /\ r.life = cch[k].life /\ r.acked = cch[k].acked
        /\ r.client_close = cch[k].client_close
    BY <1>1, <2>1 DEF CliType
  <2> QED BY <2>2, <2>3, <2>4, PromiseReaders
<1>8. ASSUME NEW k \in Chans, ServerStep(k)
      PROVE  SameReaders /\ connact'["client"] = connact["client"] /\ UNCHANGED life
  BY <1>2, <1>8 DEF ServerStep, SrvPut, SrvPut2, SrvDialed, SrvDialFails, SrvReaderEnds,
                    SrvCloseEvent, kcpCheckClose, ClientStays, cVars
<1>9. ASSUME NEW k \in Chans, Data(k)
      PROVE  SameReaders /\ connact'["client"] = connact["client"] /\ UNCHANGED life
  BY <1>2, <1>9 DEF Data, DownNil, UpNil, DownUnknown, cVars
<1> QED BY <1>3, <1>4, <1>5, <1>6, <1>7, <1>8, <1>9 DEF OtherStep

LEMMA Steps ==
    ASSUME [Next]_vars
    PROVE  \/ OtherStep \/ CliAck
           \/ \E k \in Chans : CliConnects(k) \/ CliReaderEnds(k)
           \/ \E p \in Programs : Restart(p)
BY DEF Next, OtherStep, ClientStep

\* The ACK of a channel i begins a reader of k, which has the number of i.
LEMMA AckReads ==
    ASSUME Typed, IdInv, CliAck
    PROVE  \E i, k \in Chans :
              /\ 1 \in DOMAIN toClient /\ toClient[1].cmd = "ACK" /\ toClient[1].of = i
              /\ toClient' = Tail(toClient) /\ cch[k].life = life["client"]
              /\ cch'[k].readers = cch[k].readers + 1 /\ cch'[k].life = cch[k].life
              /\ cch'[k].acked /\ cch[i].life > 0 /\ SameNumber(i, k)
              /\ \A j \in Chans : j # k => cch'[j] = cch[j]
              /\ connact'["client"] = connact["client"] + 1
              /\ UNCHANGED <<sch, life>>
<1>1. FromServer("ACK") /\ UNCHANGED <<sVars, life>> /\ Trigger(connact, "client", 1)
  BY DEF CliAck
<1>2. PICK m \in Message, k \in Chans, i \in Chans :
         /\ m = Head(toClient) /\ k = cpool[m.chidcli] /\ i = m.of
         /\ m.chidcli \in DOMAIN cpool /\ cch' = [cch EXCEPT ![k] = Acked(cch[k], m)]
  <2>1. Head(toClient) \in Message
    BY <1>1, Parts, FromServerTyped
  <2>2. Head(toClient).of \in Chans
    BY <2>1, MessageFields
  <2>3. Head(toClient).chidcli \in DOMAIN cpool => cpool[Head(toClient).chidcli] \in Chans
    BY DEF Typed, TypeOK
  <2> QED BY <2>1, <2>2, <2>3 DEF CliAck
<1>3. /\ 1 \in DOMAIN toClient /\ toClient[1] = m /\ m.cmd = "ACK" /\ toClient' = Tail(toClient)
  BY <1>1, <1>2, HeadTyped DEF FromServer, Typed, TypeOK
<1>4. cch[k].life = life["client"]
  BY <1>2 DEF IdInv, CliNumbers
<1>5. /\ cch'[k].readers = cch[k].readers + 1 /\ cch'[k].life = cch[k].life /\ cch'[k].acked
      /\ \A j \in Chans : j # k => cch'[j] = cch[j]
  <2>1. cch \in [Chans -> CliType] /\ cch[k] \in CliType
    BY <1>2 DEF Typed, TypeOK
  <2>2. LET r == Acked(cch[k], m)
        IN  r.readers = cch[k].readers + 1 /\ r.life = cch[k].life /\ r.acked
    BY <2>1 DEF Acked, CliType
  <2> QED BY <1>2, <2>1, <2>2
<1>6. connact'["client"] = connact["client"] + 1
  BY <1>1 DEF Trigger, Typed, TypeOK, Programs
<1>7. UNCHANGED <<sch, life>>
  BY <1>1 DEF sVars
<1>8. cch[i].life > 0 /\ SameNumber(i, k)
  <2>1. /\ sch[i].life = life["server"] /\ sch[i].life > 0 /\ m.chidcli = sch[i].chidcli
    BY <1>2, <1>3, LifePositive DEF IdInv, AckTrue
  <2>2. cch[i].life > 0 /\ sch[i].chidcli = cch[i].chid /\ cch[i].life <= life["client"]
    BY <2>1 DEF IdInv, SrvNumbers, CliNumbers
  <2>3. cch[k].chid = m.chidcli
    BY <1>2 DEF IdInv, CliNumbers
  <2>4. i # k => cch[i].life # cch[k].life
    BY <2>1, <2>2, <2>3 DEF IdInv, CliNumbers
  <2>5. life["client"] \in Nat /\ cch[i].life \in Nat
    BY DEF Typed, TypeOK, CliType, Programs, Ids
  <2> QED BY <1>4, <2>1, <2>2, <2>3, <2>4, <2>5 DEF SameNumber, Reused
<1> QED BY <1>2, <1>3, <1>4, <1>5, <1>6, <1>7, <1>8

\* Its channel is among those whose ACK is gone.
LEMMA AckTaken ==
    ASSUME Typed, Typed', IdInv, SrvPools, SpokenInv, AckOnce, CliAck, [Next]_vars,
           NEW i \in Chans, 1 \in DOMAIN toClient, toClient[1].cmd = "ACK", toClient[1].of = i,
           toClient' = Tail(toClient)
    PROVE  i \in Taken'
<1>1. Spoken(i)'
  BY PoolsStep DEF SrvGrows, Spoken, SpokenInv, AckSpoken
<1>2. toClient \in Seq(Message)
  BY DEF Typed, TypeOK
<1>3. toClient # <<>>
  BY <1>2
<1>4. \A a \in DOMAIN toClient' : /\ a + 1 \in DOMAIN toClient /\ toClient'[a] = toClient[a + 1]
                                  /\ a + 1 # 1
  BY <1>2, <1>3, HeadTyped
<1>5. \A a \in DOMAIN toClient' : toClient'[a].cmd = "ACK" => toClient'[a].of # i
  BY <1>4 DEF AckOnce
<1> QED BY <1>1, <1>5 DEF Taken

LEMMA FewReadersStep ==
    ASSUME Typed, Typed', IdInv, SrvPools, SpokenInv, IsFiniteSet(Chans), AckOnce, FewReaders,
           [Next]_vars
    PROVE  FewReaders'
<1>1. AckOnce' /\ Taken \subseteq Taken'
  BY TakenStep
<1>2. /\ IsFiniteSet(Taken) /\ IsFiniteSet(Taken')
      /\ Cardinality(Taken) \in Nat /\ Cardinality(Taken') \in Nat
      /\ Cardinality(Taken) <= Cardinality(Taken')
  <2>1. Taken \in SUBSET Chans /\ Taken' \in SUBSET Chans
    BY DEF Taken
  <2>2. IsFiniteSet(Taken) /\ IsFiniteSet(Taken')
    BY <2>1, FS_Subset
  <2> QED BY <1>1, <2>2, FS_Subset, FS_CardinalityType
<1>3. \A i \in Chans : cch[i].readers \in Nat /\ cch'[i].readers \in Nat
  BY DEF Typed, TypeOK, CliType
<1>4. ASSUME \A i \in Chans : cch'[i].readers <= cch[i].readers PROVE FewReaders'
  <2> SUFFICES ASSUME NEW i \in Chans PROVE cch'[i].readers <= Cardinality(Taken')
    BY DEF FewReaders
  <2>1. cch'[i].readers <= cch[i].readers /\ cch[i].readers <= Cardinality(Taken)
    BY <1>4 DEF FewReaders
  <2> QED BY <1>2, <1>3, <2>1
<1>5. CASE OtherStep
  <2>1. \A i \in Chans : cch'[i].readers <= cch[i].readers
    BY <1>3, <1>5, OtherReaders DEF SameReaders
  <2> QED BY <1>4, <2>1
<1>6. CASE CliAck
  <2>1. PICK i, k \in Chans :
              /\ 1 \in DOMAIN toClient /\ toClient[1].cmd = "ACK" /\ toClient[1].of = i
              /\ toClient' = Tail(toClient)
              /\ cch'[k].readers = cch[k].readers + 1
              /\ \A j \in Chans : j # k => cch'[j] = cch[j]
    BY <1>6, AckReads
  <2>2. i \notin Taken /\ Spoken(i)
    BY <2>1 DEF Taken, SpokenInv, AckSpoken
  <2>3. i \in Taken'
    BY <1>6, <2>1, AckTaken
  <2>4. Cardinality(Taken) + 1 <= Cardinality(Taken')
    <3>1. /\ Cardinality(Taken \cup {i}) = Cardinality(Taken) + 1
      BY <1>2, <2>2, CountOne
    <3>2. Taken \cup {i} \in SUBSET Taken'
      BY <1>1, <2>3
    <3>3. Cardinality(Taken \cup {i}) <= Cardinality(Taken')
      BY <1>2, <3>2, FS_Subset
    <3> QED BY <3>1, <3>3
  <2> SUFFICES ASSUME NEW j \in Chans PROVE cch'[j].readers <= Cardinality(Taken')
    BY DEF FewReaders
  <2>5. cch[j].readers <= Cardinality(Taken) /\ cch[k].readers <= Cardinality(Taken)
    BY DEF FewReaders
  <2>6. CASE j = k
    BY <1>2, <1>3, <2>1, <2>4, <2>5, <2>6
  <2>7. CASE j # k
    BY <1>2, <1>3, <2>1, <2>5, <2>7
  <2> QED BY <2>6, <2>7
<1>7. ASSUME NEW k \in Chans, CliConnects(k) PROVE FewReaders'
  <2>1. cch'[k].readers = 0 /\ \A j \in Chans : j # k => cch'[j] = cch[j]
    <3>1. LET r == [NewCli EXCEPT !.life = life["client"], !.chid = chanid["client"]]
          IN  r.readers = 0
      BY DEF NewCli
    <3> QED BY <1>7, <3>1 DEF CliConnects, Typed, TypeOK
  <2>2. \A i \in Chans : cch'[i].readers <= cch[i].readers
    BY <1>3, <2>1
  <2> QED BY <1>4, <2>2
<1>8. ASSUME NEW k \in Chans, CliReaderEnds(k) PROVE FewReaders'
  <2>1. cch'[k].readers = cch[k].readers - 1 /\ \A j \in Chans : j # k => cch'[j] = cch[j]
    <3>1. cch \in [Chans -> CliType] /\ cch[k] \in CliType
      BY DEF Typed, TypeOK
    <3>2. [cch[k] EXCEPT !.readers = @ - 1, !.client_close = TRUE, !.closes = @ + 1].readers
             = cch[k].readers - 1
      BY <3>1 DEF CliType
    <3> QED BY <1>8, <3>1, <3>2 DEF CliReaderEnds
  <2>2. \A i \in Chans : cch'[i].readers <= cch[i].readers
    BY <1>3, <2>1
  <2> QED BY <1>4, <2>2
<1>9. ASSUME NEW p \in Programs, Restart(p) PROVE FewReaders'
  <2>1. \A i \in Chans : cch'[i].readers <= cch[i].readers
    <3>1. \A i \in Chans : LeftCli(cch[i]).readers = 0
      BY DEF LeftCli, NewCli
    <3>2. UNCHANGED cch \/ \A i \in Chans : cch'[i].readers = 0
      BY <1>9, <3>1 DEF Restart, cVars
    <3> QED BY <1>3, <3>2
  <2> QED BY <1>4, <2>1
<1> QED BY <1>5, <1>6, <1>7, <1>8, <1>9, Steps

\* A reader reads an answered connection, of which it is the only one unless the
\* number is an earlier channel's; a connection that is not closed has one.
ReadersTrue ==
    \A k \in Chans : /\ cch[k].readers > 0 => cch[k].acked
                     /\ cch[k].acked /\ ~cch[k].client_close => cch[k].readers > 0
Second(k) == \E i \in Chans : cch[i].life > 0 /\ Reused(i, k)
OneReader ==
    \A k \in Chans : cch[k].readers > 0 => Second(k) \/ (k \in Taken /\ cch[k].readers = 1)

LEMMA SecondLasts ==
    ASSUME Typed, Typed', Lasting, NEW k \in Chans, Second(k)
    PROVE  Second(k)'
<1>1. PICK i \in Chans : cch[i].life > 0 /\ Reused(i, k)
  BY DEF Second
<1>2. cch[i].life \in Nat /\ cch[k].life \in Nat
  BY DEF Typed, TypeOK, CliType
<1>3. cch[k].life > 0
  BY <1>1, <1>2 DEF Reused
<1>4. /\ cch'[i].life = cch[i].life /\ cch'[i].chid = cch[i].chid
      /\ cch'[k].life = cch[k].life /\ cch'[k].chid = cch[k].chid
  BY <1>1, <1>3 DEF Lasting
<1> QED BY <1>1, <1>4 DEF Second, Reused

LEMMA ReadersStep ==
    ASSUME Typed, Typed', IdInv, SrvPools, SpokenInv, AckOnce, ReadersTrue, OneReader,
           [Next]_vars
    PROVE  ReadersTrue' /\ OneReader'
<1>1. /\ Taken \subseteq Taken' /\ Lasting
  BY TakenStep, StepLasts
<1>2. \A i \in Chans : /\ cch[i] \in CliType /\ cch'[i] \in CliType
                       /\ cch[i].readers \in Nat /\ cch'[i].readers \in Nat
  BY DEF Typed, TypeOK, CliType
<1>3. \A k \in Chans : Second(k) => Second(k)'
  BY <1>1, SecondLasts
<1>4. ASSUME NEW k \in Chans, cch'[k].readers <= cch[k].readers
      PROVE  cch'[k].readers > 0 => Second(k)' \/ (k \in Taken' /\ cch'[k].readers = 1)
  BY <1>1, <1>2, <1>3, <1>4 DEF OneReader
<1>5. CASE OtherStep
  <2>1. SameReaders
    BY <1>5, OtherReaders
  <2>2. \A k \in Chans : cch'[k].readers <= cch[k].readers
    BY <1>2, <2>1 DEF SameReaders
  <2>3. ReadersTrue'
    BY <2>1 DEF ReadersTrue, SameReaders
  <2> QED BY <1>4, <2>2, <2>3 DEF OneReader
<1>6. CASE CliAck
  <2>1. PICK i, k \in Chans :
              /\ 1 \in DOMAIN toClient /\ toClient[1].cmd = "ACK" /\ toClient[1].of = i
              /\ toClient' = Tail(toClient)
              /\ cch'[k].readers = cch[k].readers + 1
              /\ cch'[k].acked /\ cch[i].life > 0 /\ SameNumber(i, k)
              /\ \A j \in Chans : j # k => cch'[j] = cch[j]
    BY <1>6, AckReads
  <2>2. i \notin Taken
    BY <2>1 DEF Taken
  <2>3. i \in Taken'
    BY <1>6, <2>1, AckTaken
  <2>4. cch'[k].readers > 0
    BY <1>2, <2>1
  <2>5. ReadersTrue'
    BY <2>1, <2>4 DEF ReadersTrue
  <2>6. Second(k)' \/ (k \in Taken' /\ cch'[k].readers = 1)
    <3>1. CASE Second(k)
      BY <1>3, <3>1
    <3>2. CASE i # k
      <4>1. Second(k)
        BY <2>1, <3>2 DEF SameNumber, Second
      <4> QED BY <1>3, <4>1
    <3>3. CASE ~Second(k) /\ i = k
      <4>1. ~(cch[k].readers > 0)
        BY <2>2, <3>3 DEF OneReader
      <4>2. cch'[k].readers = 1
        BY <1>2, <2>1, <4>1
      <4> QED BY <2>3, <3>3, <4>2
    <3> QED BY <3>1, <3>2, <3>3
  <2>7. \A j \in Chans : j # k => cch'[j].readers <= cch[j].readers
    BY <1>2, <2>1
  <2>8. OneReader'
    <3> SUFFICES ASSUME NEW j \in Chans, cch'[j].readers > 0
                 PROVE  Second(j)' \/ (j \in Taken' /\ cch'[j].readers = 1)
      BY DEF OneReader
    <3>1. CASE j = k
      BY <2>6, <3>1
    <3>2. CASE j # k
      BY <1>4, <2>7, <3>2
    <3> QED BY <3>1, <3>2
  <2> QED BY <2>5, <2>8
<1>7. ASSUME NEW k \in Chans, CliConnects(k) PROVE ReadersTrue' /\ OneReader'
  <2>1. cch'[k].readers = 0 /\ ~cch'[k].acked /\ \A j \in Chans : j # k => cch'[j] = cch[j]
    <3>1. LET r == [NewCli EXCEPT !.life = life["client"], !.chid = chanid["client"]]
          IN  r.readers = 0 /\ ~r.acked
      BY DEF NewCli
    <3> QED BY <1>7, <3>1 DEF CliConnects, Typed, TypeOK
  <2>2. \A i \in Chans : cch'[i].readers <= cch[i].readers
    BY <1>2, <2>1
  <2>3. ReadersTrue'
    BY <2>1 DEF ReadersTrue
  <2> QED BY <1>4, <2>2, <2>3 DEF OneReader
<1>8. ASSUME NEW k \in Chans, CliReaderEnds(k) PROVE ReadersTrue' /\ OneReader'
  <2>1. /\ cch[k].readers > 0 /\ cch'[k].readers = cch[k].readers - 1 /\ cch'[k].client_close
        /\ cch'[k].acked = cch[k].acked
        /\ \A j \in Chans : j # k => cch'[j] = cch[j]
    <3>1. cch \in [Chans -> CliType] /\ cch[k] \in CliType
      BY DEF Typed, TypeOK
    <3>2. LET r == [cch[k] EXCEPT !.readers = @ - 1, !.client_close = TRUE, !.closes = @ + 1]
          IN  r.readers = cch[k].readers - 1 /\ r.client_close /\ r.acked = cch[k].acked
      BY <3>1 DEF CliType
    <3> QED BY <1>8, <3>1, <3>2 DEF CliReaderEnds
  <2>2. \A i \in Chans : cch'[i].readers <= cch[i].readers
    BY <1>2, <2>1
  <2>3. ReadersTrue'
    BY <2>1 DEF ReadersTrue
  <2> QED BY <1>4, <2>2, <2>3 DEF OneReader
<1>9. ASSUME NEW p \in Programs, Restart(p) PROVE ReadersTrue' /\ OneReader'
  <2>1. UNCHANGED cch \/ \A i \in Chans : cch'[i].readers = 0 /\ ~cch'[i].acked
    <3>1. \A i \in Chans : LeftCli(cch[i]).readers = 0 /\ ~LeftCli(cch[i]).acked
      BY DEF LeftCli, NewCli
    <3> QED BY <1>9, <3>1 DEF Restart, cVars
  <2>2. \A i \in Chans : cch'[i].readers <= cch[i].readers
    BY <1>2, <2>1
  <2>3. ReadersTrue'
    BY <2>1 DEF ReadersTrue
  <2> QED BY <1>4, <2>2, <2>3 DEF OneReader
<1> QED BY <1>5, <1>6, <1>7, <1>8, <1>9, Steps

\* Its counter counts the readers.
Max == Cardinality(Chans)
Now == {k \in Chans : cch[k].life = life["client"]}
Reading == {e \in Now \X (1..Max) : e[2] <= cch[e[1]].readers}
ConnCli == IsFiniteSet(Reading) /\ connact["client"] = Cardinality(Reading)

LEMMA ReadingStays ==
    ASSUME ConnCli, connact'["client"] = connact["client"], Reading' = Reading
    PROVE  ConnCli'
BY DEF ConnCli

LEMMA ReadingIs ==
    Reading = {e \in Chans \X (1..Max) : /\ cch[e[1]].life = life["client"]
                                         /\ e[2] <= cch[e[1]].readers}
BY DEF Reading, Now

LEMMA ReadersBound ==
    ASSUME Typed, IsFiniteSet(Chans), FewReaders
    PROVE  Max \in Nat /\ \A i \in Chans : cch[i].readers \in Nat /\ cch[i].readers <= Max
<1>1. Taken \in SUBSET Chans
  BY DEF Taken
<1>2. Cardinality(Taken) <= Max /\ Cardinality(Taken) \in Nat /\ Max \in Nat
  BY <1>1, FS_Subset, FS_CardinalityType DEF Max
<1>3. \A i \in Chans : cch[i].readers <= Cardinality(Taken) /\ cch[i].readers \in Nat
  BY DEF FewReaders, Typed, TypeOK, CliType
<1> QED BY <1>2, <1>3

LEMMA ReadersBoundNext ==
    ASSUME Typed', IsFiniteSet(Chans), FewReaders'
    PROVE  \A i \in Chans : cch'[i].readers \in Nat /\ cch'[i].readers <= Max
<1>1. Taken' \in SUBSET Chans
  BY DEF Taken
<1>2. Cardinality(Taken') <= Max /\ Cardinality(Taken') \in Nat /\ Max \in Nat
  BY <1>1, FS_Subset, FS_CardinalityType DEF Max
<1>3. \A i \in Chans : cch'[i].readers <= Cardinality(Taken') /\ cch'[i].readers \in Nat
  BY DEF FewReaders, Typed, TypeOK, CliType
<1> QED BY <1>2, <1>3

LEMMA ConnCliStep ==
    ASSUME Typed, Typed', IdInv, IsFiniteSet(Chans), FewReaders, FewReaders', ConnCli, [Next]_vars
    PROVE  ConnCli'
<1>1. /\ Max \in Nat /\ \A i \in Chans : cch[i].readers \in Nat /\ cch'[i].readers \in Nat
      /\ connact \in [Programs -> Int] /\ connact["client"] \in Int
  BY FS_CardinalityType DEF Max, Typed, TypeOK, CliType, Programs
<1>2. \A i \in Chans : cch[i].readers <= Max /\ cch'[i].readers <= Max
  BY ReadersBound, ReadersBoundNext
<1> DEFINE In(e)  == cch[e[1]].life = life["client"] /\ e[2] <= cch[e[1]].readers
           In2(e) == cch'[e[1]].life = life'["client"] /\ e[2] <= cch'[e[1]].readers
           P == Chans \X (1..Max)
<1>3. Reading = {e \in P : In(e)}
  BY ReadingIs
<1>4. Reading' = {e \in P : In2(e)}
  BY DEF Reading, Now, Max
<1>5. \A e \in P : e = <<e[1], e[2]>> /\ e[1] \in Chans /\ e[2] \in 1..Max
  OBVIOUS
<1>6. CASE OtherStep
  <2>1. SameReaders /\ connact'["client"] = connact["client"] /\ UNCHANGED life
    BY <1>6, OtherReaders
  <2>2. \A e \in P : In2(e) <=> In(e)
    BY <1>5, <2>1 DEF SameReaders
  <2>3. Reading' = Reading
    BY <1>3, <1>4, <2>2
  <2> QED BY <2>1, <2>3, ReadingStays
<1>7. CASE CliAck
  <2>1. PICK k \in Chans : /\ cch[k].life = life["client"]
                           /\ cch'[k].readers = cch[k].readers + 1 /\ cch'[k].life = cch[k].life
                           /\ \A j \in Chans : j # k => cch'[j] = cch[j]
                           /\ connact'["client"] = connact["client"] + 1
                           /\ UNCHANGED life
    BY <1>7, AckReads
  <2>2. PICK e : e = <<k, cch[k].readers + 1>>
    OBVIOUS
  <2>3. e \in P /\ e[1] = k /\ e[2] = cch[k].readers + 1
    BY <1>1, <1>2, <2>1, <2>2
  <2>4. ~In(e) /\ In2(e)
    BY <1>1, <2>1, <2>3
  <2>5. \A f \in P : f # e => (In2(f) <=> In(f))
    <3> SUFFICES ASSUME NEW f \in P, f # e PROVE In2(f) <=> In(f)
      OBVIOUS
    <3>1. CASE f[1] = k
      <4>1. f[2] # cch[k].readers + 1 /\ f[2] \in Nat
        BY <1>5, <2>2, <3>1
      <4> QED BY <1>1, <2>1, <3>1, <4>1
    <3>2. CASE f[1] # k
      BY <1>5, <2>1, <3>2
    <3> QED BY <3>1, <3>2
  <2> HIDE DEF In, In2, P
  <2>6. Reading' = Reading \cup {e} /\ e \notin Reading
    BY <1>3, <1>4, <2>3, <2>4, <2>5
  <2>7. IsFiniteSet(Reading') /\ Cardinality(Reading') = Cardinality(Reading) + 1
    BY <2>6, CountOne DEF ConnCli
  <2> QED BY <2>1, <2>7 DEF ConnCli
<1>8. ASSUME NEW k \in Chans, CliReaderEnds(k) PROVE ConnCli'
  <2>1. /\ cch[k].life = life["client"] /\ cch[k].readers > 0
        /\ cch'[k].readers = cch[k].readers - 1 /\ cch'[k].life = cch[k].life
        /\ \A j \in Chans : j # k => cch'[j] = cch[j]
        /\ UNCHANGED life
    <3>1. cch \in [Chans -> CliType] /\ cch[k] \in CliType
      BY DEF Typed, TypeOK
    <3>2. LET r == [cch[k] EXCEPT !.readers = @ - 1, !.client_close = TRUE, !.closes = @ + 1]
          IN  r.readers = cch[k].readers - 1 /\ r.life = cch[k].life
      BY <3>1 DEF CliType
    <3> QED BY <1>8, <3>1, <3>2 DEF CliReaderEnds, CliLives, ServerStays
  <2>2. connact'["client"] = connact["client"] + (-1)
    BY <1>1, <1>8 DEF CliReaderEnds, Trigger, Programs
  <2>3. PICK e : e = <<k, cch[k].readers>>
    OBVIOUS
  <2>4. e \in P /\ e[1] = k /\ e[2] = cch[k].readers
    BY <1>1, <1>2, <2>1, <2>3
  <2>5. In(e) /\ ~In2(e)
    BY <1>1, <2>1, <2>4
  <2>6. \A f \in P : f # e => (In2(f) <=> In(f))
    <3> SUFFICES ASSUME NEW f \in P, f # e PROVE In2(f) <=> In(f)
      OBVIOUS
    <3>1. CASE f[1] = k
      <4>1. f[2] # cch[k].readers /\ f[2] \in Nat
        BY <1>5, <2>3, <3>1
      <4> QED BY <1>1, <2>1, <3>1, <4>1
    <3>2. CASE f[1] # k
      BY <1>5, <2>1, <3>2
    <3> QED BY <3>1, <3>2
  <2> HIDE DEF In, In2, P
  <2>7. Reading' = Reading \ {e} /\ e \in Reading
    BY <1>3, <1>4, <2>4, <2>5, <2>6
  <2>8. IsFiniteSet(Reading') /\ Cardinality(Reading') = Cardinality(Reading) - 1
        /\ Cardinality(Reading) \in Nat
    BY <2>7, CountOne DEF ConnCli
  <2> QED BY <2>2, <2>8 DEF ConnCli
<1>9. ASSUME NEW k \in Chans, CliConnects(k) PROVE ConnCli'
  <2>1. /\ cch[k].life = 0 /\ cch'[k].readers = 0 /\ \A j \in Chans : j # k => cch'[j] = cch[j]
        /\ UNCHANGED <<life, connact>>
    <3>1. LET r == [NewCli EXCEPT !.life = life["client"], !.chid = chanid["client"]]
          IN  r.readers = 0
      BY DEF NewCli
    <3> QED BY <1>9, <3>1 DEF CliConnects, ServerStays, Typed, TypeOK
  <2>2. \A e \in P : In2(e) <=> In(e)
    <3> SUFFICES ASSUME NEW e \in P PROVE In2(e) <=> In(e)
      OBVIOUS
    <3>1. CASE e[1] = k
      BY <1>5, <2>1, <3>1, LifePositive
    <3>2. CASE e[1] # k
      BY <1>5, <2>1, <3>2
    <3> QED BY <3>1, <3>2
  <2>3. Reading' = Reading
    BY <1>3, <1>4, <2>2
  <2> QED BY <2>1, <2>3, ReadingStays
<1>10. ASSUME NEW p \in Programs, Restart(p) PROVE ConnCli'
  <2>1. life' = [life EXCEPT ![p] = @ + 1] /\ life \in [Programs -> Ids]
    BY <1>10 DEF Restart, Typed, TypeOK
  <2>2. CASE p = "server"
    <3>1. UNCHANGED cch /\ life'["client"] = life["client"] /\ connact'["client"] = connact["client"]
      BY <1>1, <1>10, <2>1, <2>2 DEF Restart, cVars, Programs
    <3>2. Reading' = Reading
      BY <1>3, <1>4, <3>1
    <3> QED BY <3>1, <3>2, ReadingStays
  <2>3. CASE p = "client"
    <3>1. life'["client"] = life["client"] + 1 /\ connact'["client"] = 0
      BY <1>1, <1>10, <2>1, <2>3 DEF Restart, Programs
    <3>2. \A i \in Chans : cch'[i].life = cch[i].life
      <4>1. cch' = [i \in Chans |-> LeftCli(cch[i])]
        BY <1>10, <2>3 DEF Restart
      <4>2. \A i \in Chans : LeftCli(cch[i]).life
                                = cch[i].life
        BY DEF LeftCli, NewCli
      <4> QED BY <4>1, <4>2
    <3>3. \A e \in P : ~In2(e)
      BY <1>5, <3>1, <3>2, LifePositive DEF IdInv, CliNumbers
    <3>4. Reading' = {}
      BY <1>4, <3>3
    <3> QED BY <3>1, <3>4, FS_EmptySet DEF ConnCli
  <2> QED BY <2>2, <2>3 DEF Programs
<1> QED BY <1>6, <1>7, <1>8, <1>9, <1>10, Steps

\* Its real connections: each has a reader, and if no reader is left over and
\* none is a second one, each has one.
Real == {k \in Now : cch[k].acked /\ ~cch[k].client_close}

LEMMA RealConnections ==
    ASSUME Typed, IdInv, IsFiniteSet(Chans), FewReaders, ReadersTrue, OneReader, ConnCli
    PROVE  /\ connact["client"] >= Cardinality(Real)
           /\ connact["client"] > Cardinality(Real) =>
                 \E k \in Chans : /\ cch[k].readers > 0
                                  /\ cch[k].client_close \/ \E i \in Chans : Reused(i, k)
<1> DEFINE f == [k \in Real |-> <<k, 1>>]
<1>1. Max \in Nat /\ \A i \in Chans : cch[i].readers \in Nat /\ cch[i].readers <= Max
  BY ReadersBound
<1>2. \A k \in Real : k \in Now /\ k \in Chans /\ cch[k].readers > 0
  BY DEF Real, Now, ReadersTrue
<1>3. \A k \in Real : <<k, 1>> \in Reading
  BY <1>1, <1>2 DEF Reading
<1>4. f \in Injection(Real, Reading)
  BY <1>3 DEF Injection, IsInjective
<1>5. /\ IsFiniteSet(Real) /\ Cardinality(Real) <= Cardinality(Reading)
      /\ Cardinality(Real) = Cardinality(Reading) <=> f \in Surjection(Real, Reading)
      /\ Cardinality(Real) \in Nat /\ Cardinality(Reading) \in Nat
  BY <1>4, FS_Injection, FS_CardinalityType DEF ConnCli
<1>6. ASSUME \A k \in Chans : cch[k].readers > 0 =>
                 ~cch[k].client_close /\ ~\E i \in Chans : Reused(i, k)
      PROVE  f \in Surjection(Real, Reading)
  <2>1. ASSUME NEW e \in Reading PROVE e[1] \in Real /\ f[e[1]] = e
    <3>1. /\ e = <<e[1], e[2]>> /\ e[1] \in Now /\ e[1] \in Chans /\ e[2] \in 1..Max
          /\ e[2] <= cch[e[1]].readers
      BY <2>1 DEF Reading, Now
    <3>2. cch[e[1]].readers > 0
      BY <1>1, <3>1
    <3>3. cch[e[1]].readers = 1
      BY <1>6, <3>1, <3>2 DEF OneReader, Second
    <3>4. e[2] = 1
      BY <1>1, <3>1, <3>3
    <3>5. e[1] \in Real
      BY <1>6, <3>1, <3>2 DEF Real, ReadersTrue
    <3> QED BY <3>1, <3>4, <3>5
  <2>2. f \in [Real -> Reading]
    BY <1>3
  <2> QED BY <2>1, <2>2 DEF Surjection
<1>7. connact["client"] = Cardinality(Reading)
  BY DEF ConnCli
<1> HIDE DEF f
<1> QED BY <1>5, <1>6, <1>7

CountInv == ChanCli /\ ChanSrv /\ ConnSrv /\ AckOnce /\ FewReaders /\ ConnCli
            /\ ReadersTrue /\ OneReader

LEMMA CountInit == ASSUME IsFiniteSet(Chans) PROVE Init => CountInv
<1> SUFFICES ASSUME Init PROVE CountInv
  OBVIOUS
<1>1. \A k \in Chans : sch[k].task = "none" /\ sch[k].life = 0 /\ cch[k].readers = 0 /\ cch[k].life = 0
                       /\ ~cch[k].acked
  BY DEF Init, NewSrv, NewCli
<1>2. /\ DOMAIN cpool = {} /\ DOMAIN spool = {} /\ DOMAIN toClient = {}
      /\ life["client"] = 1 /\ life["server"] = 1
      /\ chanact["client"] = 0 /\ chanact["server"] = 0
      /\ connact["client"] = 0 /\ connact["server"] = 0
  BY DEF Init, Empty, Programs
<1>3. Counted = {} /\ Open = {} /\ Failed = {} /\ Reading = {} /\ Taken = {}
  BY <1>1, <1>2 DEF Counted, Open, Failed, Reading, Now, Taken, Spoken, Current
<1> QED BY <1>1, <1>2, <1>3, FS_EmptySet
        DEF CountInv, ChanCli, ChanSrv, ConnSrv, AckOnce, FewReaders, ConnCli, ReadersTrue, OneReader

\* How far the counters of the statistics page are from the channels and the
\* connections that there are: with any number of connections, but finitely
\* many, for Counters counts them.
THEOREM CountersDrift == ASSUME IsFiniteSet(Chans) PROVE Spec => []Counters
<1>1. Init => CountInv
  BY CountInit
<1>2. /\ Typed /\ Typed' /\ IdInv /\ PoolsInv /\ CountInv /\ [Next]_vars => CountInv'
  <2> SUFFICES ASSUME Typed, Typed', IdInv, PoolsInv, CountInv, [Next]_vars
               PROVE  CountInv'
    OBVIOUS
  <2>1. AckOnce' /\ FewReaders'
    BY TakenStep, FewReadersStep DEF CountInv, PoolsInv
  <2>2. ReadersTrue' /\ OneReader'
    BY ReadersStep DEF CountInv, PoolsInv
  <2> QED BY <2>1, <2>2, ChanCliStep, SrvCountsStep, ConnCliStep DEF CountInv, PoolsInv
<1>3. Typed /\ IdInv /\ CountInv => Counters
  <2> SUFFICES ASSUME Typed, IdInv, CountInv PROVE Counters
    OBVIOUS
  <2>1. /\ {k \in {k \in Chans : sch[k].life = life["server"]} : sch[k].task = "open"} = Open
        /\ {k \in {k \in Chans : sch[k].life = life["server"]} : sch[k].task = "failed"} = Failed
        /\ {k \in {k \in Chans : cch[k].life = life["client"]} :
               cch[k].acked /\ ~cch[k].client_close} = Real
    BY DEF Open, Failed, Current, Real, Now
  <2>2. chanact["server"] <= Cardinality(DOMAIN spool)
    <3>1. Counted \in SUBSET DOMAIN spool /\ IsFiniteSet(DOMAIN spool)
      BY DEF Counted, CountInv, ChanSrv
    <3>2. /\ Cardinality(Counted) <= Cardinality(DOMAIN spool)
          /\ Cardinality(Counted) \in Nat /\ Cardinality(DOMAIN spool) \in Nat
      BY <3>1, FS_Subset, FS_CardinalityType
    <3>3. chanact["server"] \in Int
      BY DEF Typed, TypeOK, Programs
    <3> QED BY <3>2, <3>3 DEF CountInv, ChanSrv
  <2>3. /\ connact["client"] >= Cardinality(Real)
        /\ connact["client"] > Cardinality(Real) =>
              \E k \in Chans : /\ cch[k].readers > 0
                               /\ cch[k].client_close \/ \E i \in Chans : Reused(i, k)
    BY RealConnections DEF CountInv
  <2> QED BY <2>1, <2>2, <2>3 DEF CountInv, ChanCli, ConnSrv, Counters
<1> QED BY <1>1, <1>2, <1>3, TypedCorrect, IdCorrect, PoolsCorrect, PTL DEF Spec
=============================================================================
