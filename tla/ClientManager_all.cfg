CONSTANTS
    Threads <- TwoLoops
    Kinds <- Both
    Healths <- NoStale
    NoThread = "free"
SPECIFICATION Spec
INVARIANTS
    AnsweredByRightChain
    WaitSawSynced
    ServedIfReady
PROPERTIES
    RecoversPrimary
    FailsOver
