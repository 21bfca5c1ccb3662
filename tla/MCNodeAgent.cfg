\* Two Powershells of two processes, one server, two sockets.
SPECIFICATION Spec
CONSTANTS
    d1 = d1
    Dest <- MCDest
    MaxGetInfo = 2
    Printed = 2
    msgqueueMaxSize = 1
    MaxBatches = 4
    MaxSockets = 2
INVARIANTS TypeOK ItemsAreProcesses NothingHeldBack EachOnceInOrder
