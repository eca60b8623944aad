SPECIFICATION Spec
CONSTANTS
    Probers = {p1, p2}
    ProbeTimeout = 1
    TTL = 2
    None = None
PROPERTY
    UnreadyHasCause
