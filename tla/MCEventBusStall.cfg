SPECIFICATION Spec
CONSTANTS
    p1 = p1
    p2 = p2
    Emitters <- MCEmitters
    JSONFile = TRUE
    Syslog = TRUE
    Control = TRUE
    RingMax = 2
    MaxFaults = 1
    MaxEvents = 1
    MaxBlocks = 1
PROPERTIES NeverBlocks
CHECK_DEADLOCK FALSE
