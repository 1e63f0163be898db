SPECIFICATION FairSpec
CONSTANTS
    Addrs = {A, B}
    MaxDatagrams = 3
INVARIANTS TypeOK OneOpenPerClient NoneForgotten NoGap LostOnlyByClose
PROPERTY ListenerServes
CHECK_DEADLOCK FALSE
