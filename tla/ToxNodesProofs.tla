--------------------------- MODULE ToxNodesProofs ---------------------------
(* Proofs about ToxNodes: servers, friends and the statistics' words. *)
EXTENDS ToxNodes, TLAPS

\* Between two callbacks, and where the client's callback looks at its tunnels,
\* the file has all friends; anywhere else it has at least those kept.
Agreed ==
    /\ kept \subseteq saved /\ saved \subseteq friends
    /\ at \in {"idle", "tunnels"} => saved = friends

Page == [selfOnline : BOOLEAN, peerOnline : BOOLEAN, selfOffline : Nat, peerOffline : Nat]

NodesInv == TypeOK /\ Agreed /\ PeerOnlineTrue

\* What the events do to the page.
LEMMA PageOn ==
    ASSUME NEW s \in Page
    PROVE  /\ [s EXCEPT !.selfOnline = TRUE] \in Page
           /\ [s EXCEPT !.selfOnline = TRUE].peerOnline = s.peerOnline
           /\ [s EXCEPT !.peerOnline = TRUE] \in Page
BY DEF Page

LEMMA PageOff ==
    ASSUME NEW s \in Page
    PROVE  /\ [s EXCEPT !.selfOnline = FALSE, !.selfOffline = @ + 1] \in Page
           /\ [s EXCEPT !.selfOnline = FALSE, !.selfOffline = @ + 1].peerOnline = s.peerOnline
           /\ [s EXCEPT !.peerOnline = FALSE, !.peerOffline = @ + 1] \in Page
           /\ [s EXCEPT !.peerOnline = FALSE, !.peerOffline = @ + 1].peerOnline = FALSE
<1>1. s.selfOffline + 1 \in Nat /\ s.peerOffline + 1 \in Nat
  BY DEF Page
<1> QED BY <1>1 DEF Page

LEMMA NodesInit == Init => NodesInv
<1> SUFFICES ASSUME Init PROVE NodesInv
  OBVIOUS
<1>1. currNodes \subseteq allNodes /\ Cardinality(currNodes) <= 3
  <2>1. currNodes \in SUBSET Scanned /\ Cardinality(currNodes) = 3
    BY DEF Init, Start
  <2> QED BY <2>1 DEF allNodes
<1> QED BY <1>1 DEF Init, Start, NewStates, NodesInv, TypeOK, Agreed, PeerOnlineTrue, Places

\* What a callback may do to the nodes: three rows at most.
LEMMA NodesMove ==
    ASSUME NodesInv, switchServer \/ UNCHANGED currNodes
    PROVE  currNodes' \subseteq allNodes /\ Cardinality(currNodes') <= 3
<1>1. CASE switchServer
  BY <1>1, NodesAssumption DEF switchServer, get3nodes
<1>2. CASE UNCHANGED currNodes
  BY <1>2 DEF NodesInv, TypeOK
<1> QED BY <1>1, <1>2

\* What it may do to the friends.
LEMMA FriendsMove ==
    ASSUME NodesInv, NEW fs \in SUBSET Peers, FriendsAdded(fs)
    PROVE  friends \subseteq friends' /\ friends' \subseteq Peers
BY DEF FriendsAdded, NodesInv, TypeOK

LEMMA PeersHave == Tunnels \subseteq Peers /\ Bots \subseteq Peers
BY DEF Peers

\* The steps of the callback of the own status.
LEMMA SelfKeeps ==
    ASSUME NodesInv,
           SelfConnectionStatus \/ SaveTunnel \/ SelfOffline \/ SelfOnline \/ SaveBots
    PROVE  NodesInv'
<1>1. CASE SelfConnectionStatus
  BY <1>1 DEF SelfConnectionStatus, Goes, NodesInv, TypeOK, Agreed, PeerOnlineTrue, Places
<1>2. CASE SaveTunnel
  BY <1>2 DEF SaveTunnel, WriteSavedata, Goes, NodesInv, TypeOK, Agreed, PeerOnlineTrue, Places
<1>3. CASE SelfOffline
  <2>1. sts' \in Page /\ sts'.peerOnline = sts.peerOnline
    <3>1. sts \in Page
      BY DEF NodesInv, TypeOK, Page
    <3> QED BY <1>3, <3>1, PageOff DEF SelfOffline, selfEvent
  <2>2. currNodes' \subseteq allNodes /\ Cardinality(currNodes') <= 3
    BY <1>3, NodesMove DEF SelfOffline
  <2> QED BY <1>3, <2>1, <2>2
          DEF SelfOffline, Returns, NodesInv, TypeOK, Agreed, PeerOnlineTrue, Places, Page
<1>4. CASE SelfOnline
  <2>1. friends \subseteq friends' /\ friends' \subseteq Peers
    BY <1>4, FriendsMove, PeersHave DEF SelfOnline, addLiveBots
  <2> QED BY <1>4, <2>1
          DEF SelfOnline, Goes, NodesInv, TypeOK, Agreed, PeerOnlineTrue, Places
<1>5. CASE SaveBots
  <2>1. sts' \in Page /\ sts'.peerOnline = sts.peerOnline
    <3>1. sts \in Page
      BY DEF NodesInv, TypeOK, Page
    <3>2. sts' = [sts EXCEPT !.selfOnline = TRUE]
      BY <1>5 DEF SaveBots, selfEvent
    <3> QED BY <3>1, <3>2, PageOn
  <2> QED BY <1>5, <2>1 DEF SaveBots, WriteSavedata, Returns, NodesInv, TypeOK, Agreed,
                            PeerOnlineTrue, Places, Page
<1> QED BY <1>1, <1>2, <1>3, <1>4, <1>5

LEMMA TunnelKeeps ==
    ASSUME NodesInv, NEW f \in Peers, AddTunnel(f)
    PROVE  NodesInv'
<1>1. friends \subseteq friends' /\ friends' \subseteq Peers
  BY FriendsMove DEF AddTunnel, NodesInv, TypeOK
<1>2. \/ at' = "tunnels" /\ friends' = friends
      \/ at' = "tunnelSave"
  BY DEF AddTunnel
<1>3. at = "tunnels" /\ names' \subseteq Tunnels
  BY DEF AddTunnel, NodesInv, TypeOK
<1>4. UNCHANGED <<appmode, currNodes, saved, kept, up, toxOnline, sts>>
  BY DEF AddTunnel
<1> QED BY <1>1, <1>2, <1>3, <1>4 DEF NodesInv, TypeOK, Agreed, PeerOnlineTrue, Places

\* A friend's request is accepted, and saved.
LEMMA RequestKeeps ==
    ASSUME NodesInv, (\E f \in Peers : FriendRequest(f)) \/ SaveRequest
    PROVE  NodesInv'
<1>1. ASSUME NEW f \in Peers, FriendRequest(f) PROVE NodesInv'
  <2>1. friends \subseteq friends' /\ friends' \subseteq Peers
    BY <1>1, FriendsMove DEF FriendRequest
  <2> QED BY <1>1, <2>1
          DEF FriendRequest, Goes, NodesInv, TypeOK, Agreed, PeerOnlineTrue, Places
<1>2. CASE SaveRequest
  BY <1>2 DEF SaveRequest, WriteSavedata, Returns, NodesInv, TypeOK, Agreed,
              PeerOnlineTrue, Places
<1> QED BY <1>1, <1>2

LEMMA FriendKeeps ==
    ASSUME NodesInv, NEW f \in Peers, FriendConnectionStatus(f)
    PROVE  NodesInv'
<1>1. PICK status \in {0, 1} :
         /\ f \in friends
         /\ up' = IF status = 1 THEN up \cup {f} ELSE up \ {f}
         /\ switchServer \/ UNCHANGED currNodes
         /\ peerEvent(status)
  BY DEF FriendConnectionStatus
<1>2. UNCHANGED <<appmode, friendVars, toxOnline, at, names>>
  BY DEF FriendConnectionStatus
<1>3. sts' \in Page /\ (sts'.peerOnline => status = 1)
  <2>1. sts \in Page
    BY DEF NodesInv, TypeOK, Page
  <2>2. CASE status = 0
    BY <1>1, <2>1, <2>2, PageOn, PageOff DEF peerEvent
  <2>3. CASE status = 1
    BY <1>1, <2>1, <2>3, PageOn, PageOff DEF peerEvent
  <2> QED BY <2>2, <2>3
<1>4. TypeOK'
  BY <1>1, <1>2, <1>3, NodesMove DEF friendVars, NodesInv, TypeOK, Page
<1> QED BY <1>1, <1>2, <1>3, <1>4 DEF friendVars, NodesInv, Agreed, PeerOnlineTrue

\* The program dies and comes back with the friends of the file.
LEMMA RestartKeeps ==
    ASSUME NodesInv, Restart
    PROVE  NodesInv'
<1>1. currNodes' \subseteq allNodes /\ Cardinality(currNodes') <= 3
  <2>1. currNodes' \in SUBSET Scanned /\ Cardinality(currNodes') = 3
    BY DEF Restart, Start
  <2> QED BY <2>1 DEF allNodes
<1> QED BY <1>1
        DEF Restart, Start, NewStates, NodesInv, TypeOK, Agreed, PeerOnlineTrue, Places

LEMMA NodesCorrect == Spec => []NodesInv
<1>1. NodesInv /\ [Next]_vars => NodesInv'
  <2> SUFFICES ASSUME NodesInv, [Next]_vars PROVE NodesInv'
    OBVIOUS
  <2>1. CASE UNCHANGED vars
    BY <2>1 DEF vars, friendVars, NodesInv, TypeOK, Agreed, PeerOnlineTrue, Places
  <2> QED BY <2>1, SelfKeeps, TunnelKeeps, RequestKeeps, FriendKeeps, RestartKeeps DEF Next
<1> QED BY NodesInit, <1>1, PTL DEF Spec

\* The types, for every list of nodes, whichever rows the draws find.
THEOREM NodesTyped == Spec => []TypeOK
<1>1. NodesInv => TypeOK
  BY DEF NodesInv
<1> QED BY <1>1, NodesCorrect, PTL

\* Who is a friend when a callback returns survives every restart, wherever in
\* a callback the program dies: the file never has fewer than the kept ones.
THEOREM FriendsSurvive == Spec => []FriendsKept
<1>1. NodesInv => FriendsKept
  BY DEF NodesInv, Agreed, FriendsKept
<1> QED BY <1>1, NodesCorrect, PTL

\* The page never says that the peer is on line when no friend is.
THEOREM PageTrue == Spec => []PeerOnlineTrue
<1>1. NodesInv => PeerOnlineTrue
  BY DEF NodesInv
<1> QED BY <1>1, NodesCorrect, PTL
=============================================================================
