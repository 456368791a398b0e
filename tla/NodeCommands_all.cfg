SPECIFICATION Spec
CONSTANTS
    s1 = s1
    s2 = s2
    v1 = v1
    v2 = v2
    NoNonce = NoNonce
    NoSession = NoSession
    Sessions = {s1, s2}
    Values = {v1, v2}
    Chains <- BothNodes
    Asks <- Asked
    ManualMaxFee = 0
    Suggestions = {2}
    Priority = 1
    LastNonce = 3
    MaxChanges = 1
INVARIANTS TypeOK NonceAsAsked FailedOnlyIfRaced
PROPERTIES OtherDetailKept PaysAsAgreed WaitIsAnswered
CHECK_DEADLOCK FALSE
