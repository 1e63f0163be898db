SPECIFICATION Spec
CONSTANTS
    Third <- MCThird
    Scanned <- MCScanned
    Addr <- MCAddr
    Tcp <- MCTcp
    Tunnels = {"peer"}
    Bots = {"bot"}
    Guests = {"guest"}
    MaxOffline = 2
INVARIANTS TypeOK FriendsKept PeerOnlineTrue
