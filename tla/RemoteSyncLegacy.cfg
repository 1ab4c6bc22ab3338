SPECIFICATION Spec
CONSTANTS
    Devices = {d1, d2}
    Contents = {{"rules"}, {"rules", "dns"}}
    MaxClock = 1
    MaxWrites = 3
    MaxMishaps = 2
SYMMETRY DeviceSymmetry
PROPERTY LegacyNotShadowed
