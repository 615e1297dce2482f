SPECIFICATION FairSpec
CONSTANTS
    MqttBytes = 24
    JsonBytes = 24
    Addrs <- TwoBrokers
    BadAddrs <- OneBad
    QBytes = 72
    MaxFaults = 3
    MaxRestarts = 1
    NoMemory = TRUE
INVARIANTS
    TypeOK
    OneLoop
    AddrKept
    NothingLost
PROPERTIES
    JoinStuckForever
    QuietTakeover
CHECK_DEADLOCK FALSE
