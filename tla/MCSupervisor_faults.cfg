\* Modules may fail on their own and one module never reacts to shutdown.
CONSTANTS
    genesis = genesis
    a = a
    b = b
    c = c
    Order <- MCOrder
    OneShot = {genesis}
    MayFail = {genesis, a, c}
    Stuck = {b}
SPECIFICATION Spec
INVARIANTS
    TypeOK
PROPERTIES
    ShutdownRefined
