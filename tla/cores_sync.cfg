SPECIFICATION Spec
CONSTANTS
    Kinds = {"gpio8", "uart", "spi", "i2c", "can", "pwm"}
    Pins = {0, 7}
    Lines <- TwoLines
    Baudrates = {0, 9600}
    Bytes <- OneByte
    Modes = {"MODE_1"}
    Speeds = {"SCK_10_MHZ", "SCK_19531_HZ"}
    Lengths = {0, 5, 8}
    Again = FALSE
    Devices = {1, 2, 200}
    Slave = 1
    Registers <- TwoRegisters
    Data <- OneValue
    Identifiers <- TwoIdentifiers
    Masks <- OneMask
    Bitrates = {"BITRATE_1M", "none"}
    UsageModes = {"BASIC_MODE", "EXTENDEND_MODE", "none"}
    Duties = {255, 256}
    Percentages = {50, 100}
    Divisors = {7}
    Calls = 3
    MaxFaults = 1
    MaxEdges = 1
    MaxBytes = 1
    MaxFrames = 2
CHECK_DEADLOCK FALSE
INVARIANTS
    SettingsHonouredIfRead FilterSet DutyCycleWhole
PROPERTIES
    OnlyItsPin DivisorKept WaitsForByte OwnByte BufferSent
    ReadByteHonest OwnFrameTaken ReleasesWhatWasRead OperationsReturn
