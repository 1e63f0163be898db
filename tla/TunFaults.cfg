SPECIFICATION Spec
CONSTANTS
    Conns = {c1}
    MaxTries = 1
    SendLimit = 3
    Faults = {"senderr", "loss", "dial", "overtake"}
    MaxFaults = 2
    MaxUp = 1
    MaxDown = 1
    MaxChunks = 2
    MaxQueue = 3
INVARIANTS TypeOK ServerNeverPanics ClientReasons NoSocketLeft
CHECK_DEADLOCK FALSE
