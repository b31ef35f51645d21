SPECIFICATION Spec
CONSTANTS
    Containers = {c1, c2}
    Intervals = {0, 1, 2, 3}
    InitialInterval = 2
    None = None
INVARIANTS
    OthersNotBlinded
    DirectiveFollowed
PROPERTIES
    ImplementsCadence
CHECK_DEADLOCK FALSE
