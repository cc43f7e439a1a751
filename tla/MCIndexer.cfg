SPECIFICATION Spec
CONSTANTS
    ann = ann
    bob = bob
    Owners <- mcOwners
    Navs <- mcNavs
    S0 = 4
    P0 = 1
    EpochSeconds = 2
    DaySeconds = 2
    PollBlocks = 2
    MaxHeight = 3
    MaxTxs = 3
    MaxFaults = 1
SYMMETRY Symmetry
INVARIANTS
    BooksFollowChain
    AlertsStandForDisagreement
    TablesAddUp
    
CHECK_DEADLOCK FALSE
