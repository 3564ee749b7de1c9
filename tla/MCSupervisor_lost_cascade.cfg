\* No module is stuck; genesis and c may stop on their own, and a signal may
\* come at any time.
CONSTANTS
    genesis = genesis
    a = a
    b = b
    c = c
    Order <- MCOrder
    OneShot = {genesis}
    MayFail = {genesis, c}
    Stuck = {}
SPECIFICATION Spec
PROPERTIES
    ShutdownCascades
