CONSTANTS
    Daemon = "daemon"
    Sessions <- OneSession
    Accounts <- TwoAccounts
    NoAccount = "none"
    NoSession = "nobody"
    Elsewhere = "elsewhere"
    LastCycle = 2
    Shares <- MostShares
    MaxFaults = 1
    MaxWallets = 1
SPECIFICATION Spec
INVARIANTS
    EmptyIsWritten
    SuccessIsPaid
    FailureIsRaced
PROPERTY ProofsArrive
