SPECIFICATION IndexSpec
CONSTANTS
    Day = 1
    MaxTime = 0
    BPS = 10000
    GenesisSupply = 1
    Owners = {ann}
    Collaterals = {nvda, msft}
    MaxCollaterals = 3
    EpochLengths = {1}
    VestLengths = {1}
    Caps = {150}
    DailyCaps = {150}
    Priced = {}
    Burns = {}
    MaxPositions = 0
    Names = {nvda, msft}
    Targets = {5000, 10000}
    Rollouts = {0, 10000}
    DefaultCap = 150
    MaxConstituents = 34
    CapFloor = 3000
    FloorCeiling = 500
INVARIANTS
    RetiredStaysShut
PROPERTIES
    RetirementCloses
