SPECIFICATION FairSpec
CONSTANTS
    Addrs = {"a"}
    Ports <- AllPorts
    Cmds = {2}
    Files <- PortFiles
    PublicYml = {"ok"}
    MaxInputs = 2
    MaxRestarts = 0
    MaxSem = 1
    TextBytes = 2048
    ConfBytes = 3344
    IfaceBytes = 520
    MqttBytes = 24
    JsonBytes = 1666
    QBytes = 16384
    LocalIds = {0}
    CntReload = 255
PROPERTIES
    ConfUploaded
CHECK_DEADLOCK FALSE
