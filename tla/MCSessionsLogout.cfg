SPECIFICATION Spec
CONSTANTS
    Accounts = {alice, bob}
    Sessions = {s1, s2}
    Requests = {r1, r2}
    None = None
    SessionTTL = 1
    MaxClock = 2
SYMMETRY Symmetric
INVARIANT
    LogoutIsIdempotent
CHECK_DEADLOCK FALSE
