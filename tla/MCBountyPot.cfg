SPECIFICATION Spec
CONSTANTS
    Day = 2
    MaxTime = 5
    Scale = 2
    BPS = 4
    TipMax = 2
    ChipMax = 2
    ChostMax = 1
    CeilingMax = 4
    GasCapMin = 1
    GasCapMax = 2
    Works <- MCWorks
    Gases <- MCGases
    Fundings <- MCFundings
    PotCap = 4
    Callers = {v1, v2}
INVARIANTS
    NoDayPaysTwoCeilings
    WindowCountsItsPayments

