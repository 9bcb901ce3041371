SPECIFICATION Spec
CONSTANTS
    Ports = 3
    SlowStop = TRUE
    MaxRequests = 2
    MaxKills = 1
INVARIANTS Intact OneInstance
PROPERTIES ComesBack
CHECK_DEADLOCK FALSE
