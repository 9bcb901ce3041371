SPECIFICATION Spec
CONSTANTS
    Manifests <- MCManifests
    ListTemplateServices <- MCListTemplateServices
    Files <- MCFiles
    FtpTree <- MCFtpTree
    AllowAnonymous = TRUE
    Creds <- MCCreds
    Lower <- MCLower
    Setups <- MCSetups
    Slots <- MCSlots
    DynPorts <- MCDynPorts
    LeakStore <- MCLeakStore
    ClientData <- MCClientData
    FtpCommands <- MCFtpCommands
    Logins <- MCLogins
    CdArgs <- MCCdArgs
INVARIANTS PlanIsServable PagesAgree StoppedIsGone SessionsAreSound
PROPERTIES KeepsContract StopCompletes
CHECK_DEADLOCK FALSE
