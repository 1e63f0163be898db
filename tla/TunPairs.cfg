SPECIFICATION FairSpec
CONSTANTS
    Conns = {c1}
    MaxTries = 1
    SendLimit = 1
    Faults = {}
    MaxFaults = 0
    MaxUp = 2
    MaxDown = 2
    MaxChunks = 3
    MaxQueue = 3
INVARIANTS ClientHasServer ServerHasClient ClientNeverOoops
PROPERTY ClosedMeansGone
CHECK_DEADLOCK FALSE
