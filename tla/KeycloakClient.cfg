\* Two callers, a token of one tick, a circuit that opens for two ticks after three
\* failures.
SPECIFICATION ClientFairSpec
CONSTANTS
    Coroutine = {c1, c2}
    Threshold = 3
    Cooldown = 2
    TokenLife = 1
    Nobody = Nobody
INVARIANTS LeakBounded ClientInv
PROPERTIES SingleFetch OperationsEnd ServiceReturns
