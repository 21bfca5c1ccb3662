\* Two clients, two descriptors, a clock that is set back twice.
SPECIFICATION LoopFairSpec
CONSTANTS
    c1 = c1
    c2 = c2
    c3 = c3
    Client <- MCClient
    MaxFds = 2
    Timeout = 3
    Cooldown = 2
    MaxBack = 2
    Off = Off
INVARIANTS LoopTypeOK TimerNotLate
PROPERTIES ListensAgain
