SPECIFICATION Spec
CONSTANTS
    p1 = p1
    p2 = p2
    Emitters <- MCEmitters
    JSONFile = TRUE
    Syslog = TRUE
    Control = TRUE
    RingMax = 2
    MaxFaults = 1
    MaxEvents = 2
    MaxBlocks = 1
INVARIANTS RecordedBeforeScored SinksAreCoherent
PROPERTIES EmitReturns
CHECK_DEADLOCK FALSE
