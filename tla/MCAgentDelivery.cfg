\* Two servers, two scans of one process, one crash, a clock set back and forth.
SPECIFICATION FairSpec
CONSTANTS
    NServers = 2
    MaxProcs = 1
    PacketLen = 2
    SendBuf = 2
    Interval = 1
    MaxCache = 1
    ClockMod <- MCClockMod
    MaxSkew = 1
    MaxCrash = 1
    ScanHorizon = 2
    MaxTime = 5
INVARIANTS TypeOK SentOnceInOrder UnsentMeansDisconnected
PROPERTIES Delivered ForgottenOnlyWhenDone CacheBound EverySampleLeaves
