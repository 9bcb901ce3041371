SPECIFICATION Spec
CONSTANTS
    p1 = p1
    p2 = p2
    host = host
    mgmt = mgmt
    v6host = v6host
    Emitters <- MCEmitters
    Sources <- MCSources
    SourceForm <- MCForm
    Whitelist <- MCWhitelist
    Types <- MCTypes
    Window = 3
    Cooldown = 1
    Threshold = 4
    Enforce = TRUE
    MaxTime = 3
    MaxEvents = 3
INVARIANTS TypeOK TriggersJustified CooldownRespected BlocksAreDecided ElementsAreDropped
PROPERTIES TriggersReported EndsOrderly
CHECK_DEADLOCK FALSE
