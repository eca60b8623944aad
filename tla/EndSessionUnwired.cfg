SPECIFICATION Spec
CONSTANTS
    Clients = {c1, c2}
    Users = {u1}
    Deployments <- OneDeployment
    MaxExpiries = 1
    Wiring <- AppWiring
    PostLogouts <- AppAddresses
    Strings <- AllStrings
    Beginnings <- SomeBeginnings
    Loopback <- LoopbackNames
    None = None
INVARIANT
    LogoutRevokesConsent
