SPECIFICATION LiveSpec
CONSTANTS
    Flows = {f1}
    Handlers = {h1}
    Identities <- Users
    LegacySubjects = {s1}
    Clients <- PlatformClient
    Incomplete <- LackingTraits
    HintWired = TRUE
    MaxEdits = 0
    None = None
INVARIANTS
    LoginContextMatchesSubject
    GrantNeedsTraits
    TokensAgree
PROPERTIES
    ClaimsNeverBlockLogin
    RequestsAreAnswered
    FlowsComplete
