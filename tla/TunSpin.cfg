SPECIFICATION FairSpec
CONSTANTS
    Conns = {c1}
    MaxTries = 1
    SendLimit = 1
    Faults = {}
    MaxFaults = 0
    MaxUp = 1
    MaxDown = 2
    MaxChunks = 3
    MaxQueue = 3
PROPERTY ClientCloseIsEnough
CHECK_DEADLOCK FALSE
