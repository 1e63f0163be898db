------------------------------ MODULE ToxNodes ------------------------------
(***************************************************************************)
(* How one of the two programs keeps its Tox instance in the network: the  *)
(* nodes it bootstraps to, the switch to three other nodes when Tox says   *)
(* that it or a friend has gone off line, the friends it adds and saves,   *)
(* and what the statistics page then says.                                 *)
(*                                                                         *)
(* A node is a row of allNodes; two rows may have one address, because     *)
(* three of the built-in servers are also in toxnodes.json.  pingNodes is  *)
(* never started, so last_ping_rt stays the time of the start and every    *)
(* row with status_tcp may be chosen.                                      *)
(*                                                                         *)
(* The definitions named Bad... are seeded faults for the mutation runs.   *)
(***************************************************************************)
EXTENDS Integers, FiniteSets

CONSTANTS
    Third,       \* the rows initThirdPartyNodes makes of the first servers
    Scanned,     \* the rows initToxNodes makes of toxnodes.json
    Addr,        \* Addr[n]: ipaddr of row n
    Tcp,         \* the rows with status_tcp
    Tunnels,     \* the friends the client's configuration names
    Bots,        \* livebots
    Guests,      \* who else may ask the server to be a friend
    MaxOffline   \* bound: off line reports of one life of the program

allNodes == Third \cup Scanned
Addresses(rows) == {Addr[n] : n \in rows}

ASSUME NodesAssumption ==
    /\ IsFiniteSet(allNodes) /\ DOMAIN Addr = allNodes
    /\ Tcp \subseteq allNodes /\ Third \subseteq Tcp
    /\ Cardinality(Scanned) >= 3
    /\ MaxOffline \in Nat

Peers == Tunnels \cup Bots \cup Guests

VARIABLES
    appmode,   \* which program this is: "client" or "server"
    currNodes, \* the rows in currNodes; the entries it lacks are blank
    friends,   \* Tox's list of friends
    saved,     \* the friends in the file written by WriteSavedata
    kept,      \* the friends at the end of the last callback (history)
    up,        \* the friends Tox has last reported on line
    toxOnline, \* Tox has last reported itself on line
    at,        \* what the running callback does next, "idle" when none runs
    names,     \* the tunnels the client's callback has not looked at yet
    sts        \* of Stats: selfOnline, peerOnline, selfOffline and peerOffline

friendVars == <<friends, saved, kept>>
vars == <<appmode, currNodes, friendVars, up, toxOnline, at, names, sts>>

NewStates == [selfOnline |-> FALSE, peerOnline |-> FALSE, selfOffline |-> 0, peerOffline |-> 0]

\* initToxNodes puts the first rows of the file in currNodes; which rows are
\* first is the file's affair.
Start == {rows \in SUBSET Scanned : Cardinality(rows) = 3}

Init ==
    /\ appmode \in {"client", "server"}
    /\ currNodes \in Start
    /\ friends = {} /\ saved = {} /\ kept = {}
    /\ up = {} /\ toxOnline = FALSE
    /\ at = "idle" /\ names = {}
    /\ sts = NewStates
-----------------------------------------------------------------------------
\* Up to three rows at other addresses than the current ones.  The draw stops
\* after 3 * len(allNodes) numbers, so it may find fewer, and leaves blanks.
get3nodes ==
    {rows \in SUBSET {n \in Tcp : Addr[n] \notin Addresses(currNodes)} : Cardinality(rows) <= 3}

\* currNodes grows.
BadSwitchServer == \E newNodes \in get3nodes : currNodes' = currNodes \cup newNodes

\* Where entries are blank Tox goes on with nodes it has, which currNodes then
\* does not show.
switchServer == currNodes' \in get3nodes

BadWriteSavedata == UNCHANGED saved
WriteSavedata == saved' = friends

\* FriendAdd and FriendAddNorequest; Tox may refuse each.
FriendsAdded(fs) == \E added \in SUBSET fs : friends' = friends \cup added

addLiveBots == FriendsAdded(Bots)

\* The callback goes on at place p, or returns.
Goes(p) == at' = p /\ UNCHANGED kept
Returns == at' = "idle" /\ kept' = friends

selfEvent(status) ==
    IF status = 0 THEN sts' = [sts EXCEPT !.selfOnline = FALSE, !.selfOffline = @ + 1]
                  ELSE sts' = [sts EXCEPT !.selfOnline = TRUE]

\* Tox reports a change only: off line, or a connection by TCP or UDP.  The
\* client's callback begins with the tunnels of its configuration.
SelfConnectionStatus ==
    /\ at = "idle"
    /\ sts.selfOffline < MaxOffline   \* bound
    /\ toxOnline' = ~toxOnline
    /\ names' = IF appmode = "client" THEN Tunnels ELSE {}
    /\ Goes("tunnels")
    /\ UNCHANGED <<appmode, currNodes, friends, saved, up, sts>>

\* The client adds a tunnel that is not a friend yet, and saves.
AddTunnel(f) ==
    /\ at = "tunnels" /\ f \in names /\ names' = names \ {f}
    /\ IF f \in friends
       THEN UNCHANGED <<at, friends>>
       ELSE FriendsAdded({f}) /\ at' = "tunnelSave"
    /\ UNCHANGED <<appmode, currNodes, saved, kept, up, toxOnline, sts>>

SaveTunnel ==
    /\ at = "tunnelSave" /\ WriteSavedata /\ Goes("tunnels")
    /\ UNCHANGED <<appmode, currNodes, friends, up, toxOnline, names, sts>>

\* With status 0 both callbacks switch servers, otherwise they add the bots
\* and save; then they tell the page.
SelfOffline ==
    /\ at = "tunnels" /\ names = {} /\ ~toxOnline
    /\ switchServer /\ selfEvent(0) /\ Returns
    /\ UNCHANGED <<appmode, friends, saved, up, toxOnline, names>>

SelfOnline ==
    /\ at = "tunnels" /\ names = {} /\ toxOnline
    /\ addLiveBots /\ Goes("botSave")
    /\ UNCHANGED <<appmode, currNodes, saved, up, toxOnline, names, sts>>

SaveBots ==
    /\ at = "botSave" /\ WriteSavedata /\ selfEvent(1) /\ Returns
    /\ UNCHANGED <<appmode, currNodes, friends, up, toxOnline, names>>

\* The server takes everybody as a friend, and saves; the client nobody.
FriendRequest(f) ==
    /\ at = "idle" /\ toxOnline /\ appmode = "server"
    /\ FriendsAdded({f}) /\ Goes("requestSave")
    /\ UNCHANGED <<appmode, currNodes, saved, up, toxOnline, names, sts>>

SaveRequest ==
    /\ at = "requestSave" /\ WriteSavedata /\ Returns
    /\ UNCHANGED <<appmode, currNodes, friends, up, toxOnline, names, sts>>

\* The page is not told of friends going off line.
BadPeerEvent(status) ==
    IF status = 0 THEN sts' = [sts EXCEPT !.peerOffline = @ + 1]
                  ELSE sts' = [sts EXCEPT !.peerOnline = TRUE]

peerEvent(status) ==
    IF status = 0 THEN sts' = [sts EXCEPT !.peerOnline = FALSE, !.peerOffline = @ + 1]
                  ELSE sts' = [sts EXCEPT !.peerOnline = TRUE]

\* Of the client's friends only those in the configuration count; at the
\* server every friend does, also a bot.
friendInConfig(f) == f \in Tunnels

\* A friend on line needs the network, but may be reported off line late.
FriendConnectionStatus(f) ==
    /\ at = "idle"
    /\ \E status \in {0, 1} :
        /\ f \in friends /\ (f \in up) # (status = 1)
        /\ status = 1 => toxOnline
        /\ up' = IF status = 1 THEN up \cup {f} ELSE up \ {f}
        /\ sts.peerOffline < MaxOffline   \* bound
        /\ IF status = 0 /\ (appmode = "server" \/ friendInConfig(f))
           THEN switchServer ELSE UNCHANGED currNodes
        /\ peerEvent(status)
    /\ UNCHANGED <<appmode, friendVars, toxOnline, at, names>>

\* The program dies, at any point of a callback, and makeTox loads what was
\* saved.
Restart ==
    /\ friends' = saved
    /\ currNodes' \in Start
    /\ up' = {} /\ toxOnline' = FALSE /\ sts' = NewStates
    /\ at' = "idle" /\ names' = {}
    /\ UNCHANGED <<appmode, saved, kept>>

Next == \/ SelfConnectionStatus \/ SaveTunnel \/ SelfOffline \/ SelfOnline \/ SaveBots
        \/ \E f \in Peers : AddTunnel(f) \/ FriendRequest(f) \/ FriendConnectionStatus(f)
        \/ SaveRequest
        \/ Restart

Spec == Init /\ [][Next]_vars
-----------------------------------------------------------------------------
(* Properties *)

Places == {"idle", "tunnels", "tunnelSave", "botSave", "requestSave"}

\* The types of currNodes (toxclient.go:336), the friends and Stats
\* (stats.go:43); three entries are enough for every switch.
TypeOK ==
    /\ appmode \in {"client", "server"}
    /\ currNodes \subseteq allNodes /\ Cardinality(currNodes) <= 3
    /\ friends \subseteq Peers /\ saved \subseteq Peers /\ kept \subseteq Peers
    /\ up \subseteq friends /\ toxOnline \in BOOLEAN
    /\ at \in Places /\ names \subseteq Tunnels
    /\ sts \in [selfOnline : BOOLEAN, peerOnline : BOOLEAN,
                selfOffline : Nat, peerOffline : Nat]

\* Whoever is a friend when a callback returns is one ever after, wherever in a
\* later callback the program dies (tunneld.go:391, 406, tunnelc.go:423, 446).
\* Who is added and not yet saved may be lost.
FriendsKept == kept \subseteq friends

\* When the page says that the peer is on line, some friend is; it need not be
\* the peer: any friend's report is shown, also a bot's (tunnelc.go:467-472,
\* tunneld.go:418-422, stats.go:91-98).
PeerOnlineTrue == sts.peerOnline => up # {}
=============================================================================
