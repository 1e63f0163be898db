SPECIFICATION Spec
CONSTANTS
    Conns = {c1}
    MaxTries = 1
    SendLimit = 3
    Faults = {"dial"}
    MaxFaults = 0
    MaxUp = 1
    MaxDown = 1
    MaxChunks = 2
    MaxQueue = 3
INVARIANT ClientNeverOoops
CHECK_DEADLOCK FALSE
