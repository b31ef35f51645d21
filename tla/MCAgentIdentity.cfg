SPECIFICATION Spec
CONSTANTS
    Roots = {r1, r2}
    Keys = {k1, k2}
    Hosts = {h1, h2}
    None = None
    Torn = Torn
    MaxTokens = 2
    MaxCrashes = 2
INVARIANTS
    IdentityTypeOK
    OneRoot
    RefusedForCause
    BadPairNeedsTear
    BurnedTokenHeld
CHECK_DEADLOCK FALSE
PROPERTIES
    PlaneComesBack
    AgentHeard
