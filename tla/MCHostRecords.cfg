SPECIFICATION Spec
CONSTANTS
    Hosts = {h1}
    Tokens = {t1, t2}
    Handlers = {p1, p2}
    NoToken = NoToken
    MaxCerts = 3
SYMMETRY Interchangeable
INVARIANTS
    TypeOK
    SingleUseUnlessClobbered
    RecordAgrees
PROPERTIES
    NoResurrection
CHECK_DEADLOCK FALSE
