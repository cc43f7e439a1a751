SPECIFICATION RedSpec
CONSTANTS
    Day = 2
    MaxTime = 2
    Amounts = {0}
    MaxQueued = 3
    Balances = {0}
    BPS = 4
    FeeBps = 1
    Slices = {1, 3}
    Sold = 4
    Idle = 4
    Assets = 5
    UnitAmps = 2
    UnitCounter = 3
    Deposits = {1}
    MaxLiquidity = 2
    MaxClaim = 4
    MaxAssets = 5
INVARIANTS
    BooksBalance
    PreviewIsSound
    ScheduleIsSound
    NeverBehindTheLine
PROPERTIES
    PreviewIsPayout
    RedemptionAccretes
    FollowsStream
    DeadlineMovesByWeight
