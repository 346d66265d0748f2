CONSTANTS
    W = 4
    Size = 2
    OneLock = TRUE
    Id = {x, y}
    x = x  y = y  z = z  NULL = NULL
SPECIFICATION FairSpec
INVARIANT NoLostWakeup
PROPERTIES ImplementsChannel EveryRequestAnswered
