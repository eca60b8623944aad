SPECIFICATION LiveSpec
CONSTANTS
    Clients = {c1, c2}
    Users = {u1}
    Deployments <- AllDeployments
    MaxExpiries = 1
    Wiring <- FullWiring
    PostLogouts <- FullAddresses
    Strings <- AllStrings
    Beginnings <- SomeBeginnings
    Loopback <- LoopbackNames
    None = None
INVARIANTS
    TypeOK
    ReturnsToItsLogin
    RedirectsAreKnown
    EndSessionIsRecorded
    LogoutRevokesConsent
PROPERTIES
    OnlyOwnConsentIsRevoked
    LoginsEnd
