SPECIFICATION Spec
CONSTANTS
    Ports <- MCPorts
    ClosedPorts <- MCNoClosed
    OpenPorts <- MCNone
    PreservePorts <- MCPreserve
    ServedPorts <- MCNone
    WindowsFamily = FALSE
    Workstation = FALSE
    Behavior = ""
    NftFails = FALSE
    MaxStops = 0
    HasProfile = TRUE
    Services = 1
    StackFails = FALSE
    ServiceFails = FALSE
    LateErrors = FALSE
    Foreign <- MCNone
    Asked = {"restart", "stop"}
    MaxRequests = 2
INVARIANTS NoPanic
CHECK_DEADLOCK FALSE
