SPECIFICATION Spec
CONSTANTS
    c1 = c1
    c2 = c2
    c3 = c3
    Commands = {c1, c2, c3}
    PairClients = {lighthouse}
    Prysm = Prysm
    NoClient = NoClient
    Torn = Torn
    Absent = Absent
    MaxKey = 2
    Terminals = 2
    MaxKills = 2
SYMMETRY Alike
INVARIANTS StoredStaysReadable
PROPERTIES StoredIsReadable RefusalIsExplained
CHECK_DEADLOCK FALSE
