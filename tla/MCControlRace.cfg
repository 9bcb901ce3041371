SPECIFICATION Spec
CONSTANTS
    c1 = c1
    c2 = c2
    Conns <- MCConns
    Peers <- MCRoot
    Roles <- MCRoles
    Ops <- MCSet
    Patches <- MCPatches
    Initial <- MCInitial
    KnownProfiles <- MCKnown
    DiskFails = FALSE
    CredFails = FALSE
    MaxRequests = 2
    MaxCrashes = 0
PROPERTIES PatchesExact
CHECK_DEADLOCK FALSE
