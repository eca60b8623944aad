SPECIFICATION Spec
CONSTANTS
    Flows = {f1}
    Handlers = {h1, h2}
    Identities = {i1, i2}
    LegacySubjects = {}
    Clients <- SomeClients
    Incomplete = {}
    HintWired = TRUE
    MaxEdits = 1
    None = None
SYMMETRY Symmetry
VIEW Observed
INVARIANTS
    TypeOK
    GrantIsForLoginIdentity
    AlkemioScopeCarriesActor
    RedirectMeansAccepted
    AuditedMeansAutoAccepted
    TokensLeaveATrace
    ClaimsAreFetchedForConsent
PROPERTIES
    ImplementsAuthorizationFlow
