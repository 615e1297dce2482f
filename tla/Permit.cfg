SPECIFICATION HFairSpec
CONSTANTS
    Addrs = {"a"}
    Ports <- PermitPorts
    Cmds = {1, 2}
    Files <- PermitFiles
    PublicYml = {"ok"}
    MaxInputs = 3
    MaxRestarts = 1
    MaxSem = 2
    TextBytes = 4096
    ConfBytes = 3344
    IfaceBytes = 520
    MqttBytes = 24
    JsonBytes = 1666
    QBytes = 3344
    LocalIds = {1}
    CntReload = 2
INVARIANTS
    OneUntilExtra
    UpdateExclusive
    OwnUntilExtra
PROPERTIES
    ImplementsToken
    ImplementsFairToken
    AckedEventually
CHECK_DEADLOCK FALSE
