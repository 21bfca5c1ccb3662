\* Two numbers, three processes, three scans three seconds apart.
SPECIFICATION Spec
CONSTANTS
    Pid <- MCPid
    Sec = 1
    Interval = 3
    MaxLate = 1
    MaxEarly = 1
    hz = 100
    ClockMod = 1024
    Spaced = {2}
    Work = 4
    MaxBorn = 3
    MaxWork = 4
    MaxSkew = 2
    MaxSets = 1
    MaxFailures = 1
    MaxTime = 6
INVARIANTS TypeOK ScanComplete FieldsAreItsOwn LoadIsItsOwn DiesOnlyOfTheClock
