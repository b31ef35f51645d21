SPECIFICATION HubSpec
CONSTANTS
    Clients = {c1}
    Broadcasters = {b1, b2}
    SendBuffer = 1
    MaxBroadcasts = 3
INVARIANTS
    HubTypeOK
    NoSilentGap
    ServedInFull
    NeverWaits
PROPERTIES
    NoLeak
CHECK_DEADLOCK FALSE
