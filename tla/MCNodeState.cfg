\* One server, two sockets.
SPECIFICATION Spec
CONSTANTS
    d1 = d1
    d2 = d2
    Dest <- MCOneDest
    msgqueueMaxSize = 5
    MaxScans = 3
    MaxSockets = 2
INVARIANTS StateMeansConnected
