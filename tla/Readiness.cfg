SPECIFICATION LiveSpec
CONSTANTS
    Probers = {p1, p2}
    ProbeTimeout = 1
    TTL = 2
    None = None
INVARIANTS
    TypeOK
    FlipsAddUp
PROPERTIES
    ReadyIsRecent
    ReadyAgain
