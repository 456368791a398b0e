SPECIFICATION Spec
CONSTANTS
    s1 = s1
    s2 = s2
    NoSession = NoSession
    Sessions = {s1}
    Clients = {"lighthouse", "teku"}
    Kinds <- ConfigOnly
    Delay = 2
    MaxEvents = 1
PROPERTY SafeToStart
CHECK_DEADLOCK FALSE
