SPECIFICATION FairSpec
CONSTANTS
    Day = 2
    MaxTime = 3
    BPS = 4
    GenesisSupply = 4
    Owners = {ann}
    Collaterals = {usdg}
    MaxCollaterals = 2
    EpochLengths = {1}
    VestLengths = {1, 2}
    Caps = {2}
    DailyCaps = {1, 2}
    Priced = {1, 3}
    Burns = {2}
    MaxPositions = 2
INVARIANTS
    
    
    NoDayIssuesTwoCaps
    
PROPERTIES
    SoldIsKept
