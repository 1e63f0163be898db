SPECIFICATION Spec
CONSTANTS
    Client = Client
    Server = Server
    Wnd <- Wnd21
    RmtWnd0 = 2
    NoCwnd = {Client}
    SnMod = 6
    Frags = {1}
    MaxSegs <- Segs61
    NetCap <- Net11
INVARIANTS TypeOK InOrder Retained WindowLag RcvBounded
