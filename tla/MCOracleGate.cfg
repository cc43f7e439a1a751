SPECIFICATION LiveGateSpec
CONSTANTS
    BlockMod = 4
    StartBlock = 3
    Steps = {0, 1, 3}
    MaxTime = 4
    GraceBand = {2, 3}
    GapBand = {1, 2}
    SustainBand = {0, 2}
    DivergenceBand = {1, 2}
    FreezeMax = 1
    Names = {spoke}
    Entries = {}
    Protocol = protocol
    Deviations = {1, 2}
    Unknown = unknown
INVARIANTS
    TripMeansOutage
    BreakerRemembers
    DoorsNest
PROPERTIES
    TripClears
