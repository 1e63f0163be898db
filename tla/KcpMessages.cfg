SPECIFICATION Spec
CONSTANTS
    Client = Client
    Server = Server
    Wnd <- Wnd22
    RmtWnd0 = 2
    NoCwnd = {Client}
    SnMod = 32
    Frags = {1, 2}
    MaxSegs <- Segs30
    NetCap <- Net21
INVARIANTS Retained DrainedMeansReceived
PROPERTIES WholeMessages ImplementsStream
