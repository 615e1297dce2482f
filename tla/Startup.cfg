SPECIFICATION StartFairSpec
CONSTANTS
    Addrs = {"a"}
    Ports <- StartPorts
    Cmds = {1, 3}
    Files = {}
    PublicYml = {"ok"}
    MaxInputs = 2
    MaxRestarts = 1
    MaxSem = 2
    TextBytes = 2048
    ConfBytes = 3344
    IfaceBytes = 520
    MqttBytes = 24
    JsonBytes = 1666
    QBytes = 1040
    LocalIds = {1}
    CntReload = 4
    Forks = {TRUE, FALSE}
    MaxFailures = 1
    MaxTokens = 3
INVARIANTS
    StartTypeOK
    TimerHasPorts
    FailsByFile
    LinesAsRead
PROPERTIES
    RateLost
    StartsUnlessFails
CHECK_DEADLOCK FALSE
