SPECIFICATION LifeSpec
CONSTANTS
    v1 = v1
    v2 = v2
    s1 = s1
    usdg = usdg
    weth = weth
    Vaults = {v1, v2}
    Home = v1
    Nobody = Nobody
    Stocks = {s1}
    Currencies = {usdg, weth}
    Mute = {}
    Pooled = {s1}
    Links <- mcLinks
    Gifts <- mcGifts
    Standbys <- mcStandbys
    Seeds <- mcSeeds
    Wirable = {"registry", "bonds"}
    Amps = Amps
    Adapter = Adapter
    Tranche = 1
    Pol = 0
    StandbyDelay = 1
    MaxTime = 1
    MaxArrivals = 1
INVARIANTS
    ShellKeepsNothing
PROPERTIES
    RaiseComesHome
