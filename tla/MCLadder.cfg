SPECIFICATION Spec
CONSTANTS
    hub = hub
    spoke = spoke
    Hub = hub
    Spoke = spoke
    Traded = {hub}
    Start <- mcStart
    Cells = 3
    Width = 2
    Cap = 1
    MaxLag = 1
    Buckets = 2
    MaxLive = 4
    Cooldown = 1
    Day = 3
    Allowance = 3
    Floor = 1
    Stock = 6
    Amounts = {6}
    Fees = {0, 1}
    Bonded = {1}
    MaxBid = 1
    Anchors = {2}
    MaxTime = 4
INVARIANTS
    MarkedMeansSold
    
    RolloutIsPaced
PROPERTIES
    EntryFloorHolds
