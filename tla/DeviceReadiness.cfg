SPECIFICATION Spec
CONSTANTS
    Devices <- AllDevices
    EndpointIds = {0, 1}
    MaxCalls = 3
    MaxFaults = 2
INVARIANTS AgreesWithDevice ResultIsTrue
PROPERTIES FlashIsLastResort CallsReturn
CHECK_DEADLOCK FALSE
