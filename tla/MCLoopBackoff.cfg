\* Three clients, one descriptor.
SPECIFICATION LoopSpec
CONSTANTS
    c1 = c1
    c2 = c2
    c3 = c3
    Client <- ThreeClients
    MaxFds = 1
    Timeout = 3
    Cooldown = 2
    MaxBack = 1
    Off = Off
INVARIANTS BackoffLasts
