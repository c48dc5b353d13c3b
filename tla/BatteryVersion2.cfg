\* A console with a battery of version 2.
SPECIFICATION BatterySpec
CONSTANTS
    BatteryVersions = {2}
    HardwareTypes = {"Icosa"}
    Temperatures = {20}
    Voltages = {3319, 4049}
    Charges = {2, 99}
    MaxFailures = 1
    MaxPowerLosses = 1
INVARIANT VoltageEncodable
CHECK_DEADLOCK FALSE
