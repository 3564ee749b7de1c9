\* Modules may stop on their own.
CONSTANTS
    genesis = genesis
    a = a
    b = b
    c = c
    Order <- MCOrder
    OneShot = {genesis}
    MayFail = {genesis, a, c}
    Stuck = {}
SPECIFICATION Spec
INVARIANTS
    DrainedOnExit
