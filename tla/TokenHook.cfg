SPECIFICATION Spec
CONSTANTS
    Identities = {i1, i2}
    Hooks = {h1, h2}
    Posts = {p1}
    Wirings <- AllWirings
    None = None
INVARIANTS
    TypeOK
    AlkemioTokensCarryActor
    ConsentClaimsSurvive
    RefusalHasCause
    ProcessedLoginIsStamped
SYMMETRY
    Symmetry
VIEW
    Observed
