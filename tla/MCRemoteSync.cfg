SPECIFICATION Spec
CONSTANTS
    Devices = {d1, d2}
    Contents = {{"rules"}, {"rules", "dns"}}
    MaxClock = 1
    MaxWrites = 3
    MaxMishaps = 1
SYMMETRY DeviceSymmetry
INVARIANTS TypeOK ManifestComplete BaselineIsHeld BaselineAgrees
PROPERTIES NoLostUpdate UpdatedAtGrows
