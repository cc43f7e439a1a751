SPECIFICATION Spec
CONSTANTS
    hub = hub
    spoke = spoke
    stock = stock
    Pools <- mcPools
    Entries <- mcEntries
    Constituents <- mcConstituents
    PoolOf <- mcPoolOf
    Skies <- mcSkies
    Slots <- mcSlots
    Cooldown = 1
    RefreshAt = 1
    MaxAge = 2
    TouchEvery = 1
    Grace = 2
    InFlightFor = 1
    Pace = 1
    MaxLag = 0
    Far = 3
    AllowRefDiverged = FALSE
    RunUnpaid = FALSE
    SettleEnabled = TRUE
    Capable = TRUE
    MaxFaults = 1
    MaxEvents = 1
INVARIANTS InFlightOnlyWhileWaiting TouchIsNeverAheadOfTheBeat
PROPERTIES UpkeepRecovers BacklogDrains LaunchSettles
