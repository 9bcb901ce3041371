SPECIFICATION Spec
CONSTANTS
    Ports <- MCPorts
    ClosedPorts <- MCNoClosed
    OpenPorts <- MCNone
    PreservePorts <- MCPreserve
    ServedPorts <- MCNone
    WindowsFamily = FALSE
    Workstation = FALSE
    Behavior = "drop"
    NftFails = FALSE
    MaxStops = 0
    HasProfile = TRUE
    Services = 1
    StackFails = FALSE
    ServiceFails = TRUE
    LateErrors = TRUE
    Foreign <- MCNone
    Asked = {}
    MaxRequests = 0
INVARIANTS NothingLeft
CHECK_DEADLOCK FALSE
