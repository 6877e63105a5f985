SPECIFICATION Spec
CONSTANTS
    w1 = w1
    w2 = w2
    w3 = w3
    w4 = w4
    k1 = k1
    k2 = k2
    k3 = k3
    None = None
    Callers <- FourCallers
    Actions <- ThreeActions
    Adds <- TwoForOneAction
    Creators <- FirstCallers
INVARIANTS
    TypeOK
    NothingSavedIsLost
    AppliedOnce
PROPERTIES
    ImplementsVersionedStore
