SPECIFICATION Spec
CONSTANTS
    s1 = s1
    s2 = s2
    NoSession = NoSession
    Sessions = {s1, s2}
    Clients = {"lighthouse", "teku"}
    Kinds <- StartAndAny
    Delay = 2
    MaxEvents = 1
INVARIANT TypeOK
PROPERTIES HandoverIsLate UpgradeApplied ClientComesBack
CHECK_DEADLOCK FALSE
