SPECIFICATION Spec
CONSTANTS
    Ports <- MCPorts
    ClosedPorts <- MCClosed
    OpenPorts <- MCNone
    PreservePorts <- MCPreserve
    ServedPorts <- MCServed
    WindowsFamily = TRUE
    Workstation = TRUE
    Behavior = ""
    NftFails = TRUE
    MaxStops = 1
    HasProfile = TRUE
    Services = 1
    StackFails = TRUE
    ServiceFails = TRUE
    LateErrors = TRUE
    Foreign <- MCNone
    Asked = {"restart"}
    MaxRequests = 1
INVARIANTS SessionsSurvive ResetsNotShadowed CleanExit ServersStopFirst
PROPERTIES ShutdownCompletes KeepsContract
CHECK_DEADLOCK FALSE
