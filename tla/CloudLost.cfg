SPECIFICATION FairSpec
CONSTANTS
    MqttBytes = 24
    JsonBytes = 24
    Addrs <- TwoBrokers
    BadAddrs <- NoBroker
    QBytes = 72
    MaxFaults = 1
    MaxRestarts = 0
    NoMemory = FALSE
PROPERTIES
    NewBrokerUsed
CHECK_DEADLOCK FALSE
