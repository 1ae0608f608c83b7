SPECIFICATION Spec
CONSTANTS
    Kinds = {"ReadRegister", "ReadMulti", "ReadIncrement", "WriteRegister", "WriteMulti",
             "WriteIncrement", "InterruptEnable", "SelectMcu", "SelectSoc", "ConfigureFpga",
             "Sector", "SerialWrite", "StatusWrite", "SerialRead", "StatusRead"}
    Values = {{}, {3, 7}}
    Faults = {"damaged", "opcode", "cut", "lost", "late", "refused", "unsent", "unplugged"}
    MaxRetries = 2
    MaxCalls = 2
    MaxFaults = 2
CHECK_DEADLOCK FALSE
INVARIANTS  SuccessIsOwn
PROPERTIES Returns
