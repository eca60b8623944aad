SPECIFICATION LiveSpec
CONSTANT
    Requests = {r1, r2, r3}
INVARIANT
    RequestsAreDrained
