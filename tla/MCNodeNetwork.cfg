\* Two servers, four scans, up to three sockets for each server.
SPECIFICATION FairSpec
CONSTANTS
    d1 = d1
    d2 = d2
    Dest <- MCDest
    msgqueueMaxSize = 1
    MaxScans = 4
    MaxSockets = 3
INVARIANTS TypeOK NewestAreKept
PROPERTIES Delivered NoticesClose
