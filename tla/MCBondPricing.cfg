SPECIFICATION Spec
CONSTANTS
    MaxTime = 2
    MaxRounds = 3
    Answers = {0, 4, 8, 24}
    BPS = 10
    JumpBps = 3
    Heartbeat = 1
    MaxAge = 0
    Confirm = 1
    W = 4
    VirtualShares = 1
    MinAccretion = 1
    HaircutOpen = 0
    HaircutClosed = 2
    Dollars = 3
    Shares = 7
    Deposits = {4}
    Quotes = {3}
    MaxHolding = 7
    MaxSupply = 13

    
PROPERTIES
    RefreshMovesNoPrice
    BondRespectsFloor
    BondKeepsLiveNav
