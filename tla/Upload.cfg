SPECIFICATION UploadSpec
CONSTANTS
    Addrs = {"a"}
    Ports <- PortFiles
    Cmds = {2}
    Files <- PortFiles
    PublicYml = {"ok"}
    MaxInputs = 3
    MaxRestarts = 1
    MaxSem = 2
    TextBytes = 4096
    ConfBytes = 3344
    IfaceBytes = 520
    MqttBytes = 24
    JsonBytes = 1666
    QBytes = 3344
    LocalIds = {1}
    CntReload = 4
    ZeroScale = {}
INVARIANTS
    UploadTypeOK
    WholeText
PROPERTIES
    UploadsAsOneStep
    DiesTogether
CHECK_DEADLOCK FALSE
