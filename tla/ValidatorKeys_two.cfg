CONSTANTS
    p1 = p1
    p2 = p2
    Procs = {p1, p2}
    Commands <- PathCommands
    MaxKeys = 2
    MaxBatch = 2
    MaxTxs = 1
    PageLimit = 2
    External <- FirstExternal
SPECIFICATION Spec
SYMMETRY Alike
VIEW ButAccounting
INVARIANTS
    SubmittedKeysStored
    AlertHonoured
    RecoveryComplete
