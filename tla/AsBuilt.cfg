SPECIFICATION Spec
CONSTANTS
    Addrs = {"a"}
    Ports <- TwoPorts
    Cmds = {1, 2}
    Files <- AnyFile
    PublicYml = {"ok", "missing", "malformed"}
    MaxInputs = 4
    MaxRestarts = 1
    MaxSem = 2
    TextBytes = 2048
    ConfBytes = 3344
    IfaceBytes = 520
    MqttBytes = 24
    JsonBytes = 1666
    QBytes = 4096
    LocalIds = {0, 1}
    CntReload = 2
INVARIANTS
    TypeOK
    NoConfReachesPort
PROPERTIES
    ConfStaysQueued
    PermitLostForever
CHECK_DEADLOCK FALSE
