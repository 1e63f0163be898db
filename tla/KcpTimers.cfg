SPECIFICATION Spec
CONSTANTS
    Ends <- MCEnds
    MinNap = 1
    SlapMax = 3
    RtoNdl = 1
    RtoMin = 2
    RtoDef = 3
    RtoMax = 8
    ProbeInit = 2
    ProbeLimit = 4
    Mss = 16
    SndWnd = 3
    U32 = 1024
    TsMod = 256
    TsStart = 252
    Wnds = {0, 3}
    Rtts = {1, 4}
    Naps = {1, 2}
    Jumps <- MCJumps
    MaxSegs = 2
    MaxTicks = 22
    MaxJumps = 2
    MaxFastack = 2
    MaxMissed = 2
INVARIANTS RttBounded CwndBounded OvertakenTruthful TimersArmed TypeOK FlushRegular
CONSTRAINT MCBounds
