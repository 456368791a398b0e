CONSTANTS
    Faults <- AllFaults
    MaxChanges = 3
    MaxTaskKills = 2
SPECIFICATION FeeSpec
INVARIANTS
    RestartedIsSafe
PROPERTIES
    FileSettles
    ClientSettlesUncut
