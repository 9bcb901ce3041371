SPECIFICATION Spec
CONSTANTS
    c1 = c1
    c2 = c2
    Conns <- MCConns
    Peers <- MCPeers
    Roles <- MCRoles
    Ops <- MCOps
    Patches <- MCPatches
    Initial <- MCInitial
    KnownProfiles <- MCKnown
    DiskFails = TRUE
    CredFails = TRUE
    MaxRequests = 2
    MaxCrashes = 1
INVARIANTS EffectsAudited TrailIsTrue Recoverable
PROPERTIES OmittedUnchanged StopReturns
CHECK_DEADLOCK FALSE
