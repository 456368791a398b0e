CONSTANTS
    Mnemonics <- TwoMnemonics
    Passwords <- TwoPasswords
    Faults <- AllFaults
    MaxCommands = 4
    MaxFailures = 2
SPECIFICATION Spec
INVARIANTS
    WalletLoads
    PurgeForgets
    OneMnemonic
CHECK_DEADLOCK FALSE
