\* Three requests, one end of the agent, two failures, two seconds.
SPECIFICATION Spec
CONSTANTS
    p1 = p1
    p2 = p2
    a1 = a1
    a2 = a2
    Port <- MCPort
    Account <- MCAccount
    Default = default
    NotANumber = nan
    Empty = empty
    Mixed = mixed
    Mine = mine
    MaxPosts = 3
    MaxExits = 1
    MaxFails = 2
    MaxSecond = 1
INVARIANTS TypeOK FileIsSettings
PROPERTIES BackedUp
SYMMETRY MCSymmetry
