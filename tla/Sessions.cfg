SPECIFICATION Spec
CONSTANTS
    Chans = {k1, k2}
    Convs = {v1, v2}
    NoConv = NoConv
    Chanid0 = 1
    MaxRestarts = 1
    MaxQueue = 2
SYMMETRY MCSymmetry
INVARIANTS TypeOK Isolation NilOnlyByClash FoundByConv NoGhost Counters
CHECK_DEADLOCK FALSE
