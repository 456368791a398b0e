CONSTANTS
    p1 = p1
    Procs = {p1}
    Commands <- EveryCommand
    MaxKeys = 3
    MaxBatch = 2
    MaxTxs = 2
    PageLimit = 2
    External <- FirstExternal
SPECIFICATION Spec
INVARIANTS
    KeysAccounted
    VaultMatches
