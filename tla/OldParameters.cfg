SPECIFICATION StartSpec
CONSTANTS
    Addrs = {"a"}
    Ports <- StartPorts
    Cmds = {1}
    Files = {}
    PublicYml = {"ok"}
    MaxInputs = 1
    MaxRestarts = 0
    MaxSem = 2
    TextBytes = 2048
    ConfBytes = 3344
    IfaceBytes = 520
    MqttBytes = 24
    JsonBytes = 1666
    QBytes = 1040
    LocalIds = {1}
    CntReload = 4
    Forks = {FALSE}
    MaxFailures = 0
    MaxTokens = 2
PROPERTIES
    NewParameters
CHECK_DEADLOCK FALSE
