SPECIFICATION FilesSpec
CONSTANTS
    Names = {"supplyWaterTemperature", "feedWaterPumpstate"}
    Table <- TwoSections
    Fields = {"Address", "Scale"}
    Vals = {1}
    MaxFiles = 3
    Builds = {TRUE, FALSE}
    SpillUnit <- PumpState
    Chars = {1, 2}
    MqttAddrs <- ShortAndLong
INVARIANTS
    TypeOK
    EndedAsGiven
    OnlyNamed
    WholeFile
    CrashCause
    AddressAsGiven
CHECK_DEADLOCK FALSE
