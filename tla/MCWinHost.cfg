SPECIFICATION Spec
CONSTANTS
    IdMod = 3
    CacheMax = 1
    WatchdogFails = 3
    QueueBound = 2
    Setups <- MCSetups
INVARIANTS EgressIsPersona ExitClean
PROPERTIES HostTrafficFlows ExitReturns Recovers
