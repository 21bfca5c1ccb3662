\* Bursts of three launches, four time units of daemons that die, a clock set once.
SPECIFICATION FairSpec
CONSTANTS
    Burst = 2
    Window = 1
    Pause = 2
    MaxSkew = 2
    MaxSteps = 1
    Horizon = 4
    MaxTime = 4
INVARIANTS TypeOK LaunchRate NoOrphan
PROPERTIES Relaunched
