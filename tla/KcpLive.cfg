SPECIFICATION FairSpec
CONSTANTS
    Client = Client
    Server = Server
    Wnd <- Wnd21
    RmtWnd0 = 2
    NoCwnd = {Client}
    SnMod = 32
    Frags = {1}
    MaxSegs <- Segs30
    NetCap <- Net11
PROPERTY EventuallyDone
