SPECIFICATION GFairSpec
CONSTANTS
    Addrs <- GoodAndBad
    BadAddrs = {"b"}
    Ports <- UploadPorts
    Cmds = {2, 3}
    Files = {"Tcp"}
    PublicYml = {"ok"}
    MaxInputs = 3
    MaxRestarts = 1
    MaxFaults = 1
    NoMemory = FALSE
    MaxSem = 2
    TextBytes = 4096
    ConfBytes = 3344
    IfaceBytes = 520
    MqttBytes = 24
    JsonBytes = 1666
    QBytes = 4096
    LocalIds = {1}
    CntReload = 4
PROPERTIES
    ImplementsCloud
    JamForever
    UploadEnds
CHECK_DEADLOCK FALSE
