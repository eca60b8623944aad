SPECIFICATION Spec
CONSTANTS
    Identities = {i1}
    Hooks = {h1}
    Posts = {p1}
    Wirings <- AppWiring
    None = None
INVARIANT
    StubEchoes
