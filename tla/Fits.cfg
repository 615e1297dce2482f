SPECIFICATION Spec
CONSTANTS
    Addrs = {"a"}
    Ports <- AllPorts
    Cmds = {2, 3}
    Files <- AllFiles
    PublicYml = {"ok"}
    MaxInputs = 4
    MaxRestarts = 1
    MaxSem = 2
    TextBytes = 4096
    ConfBytes = 3344
    IfaceBytes = 520
    MqttBytes = 24
    JsonBytes = 1666
    QBytes = 3344
    LocalIds = {1}
    CntReload = 255
INVARIANTS
    OnePermit
    OwnConf
CHECK_DEADLOCK FALSE
