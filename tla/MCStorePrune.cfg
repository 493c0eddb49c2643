SPECIFICATION StoreSpec
CONSTANTS
    Name = {n1}
    Owner = {alice}
    Target = {2}
    GenesisTarget = 2
    GenesisTime = 0
    WorkOf <- MCWorkOf
    Retarget <- MCOnSchedule
    RetargetInterval = 2
    MedianWindow = 2
    AnchorMaxAge = 2
    MaxFutureDrift = 4
    MaxTxs = 1
    Times = {1, 2, 3}
    Clocks = {3}
    Retentions = {1}
    WritesMayFail = FALSE
    HeightSteps = {1}
    Seals = {TRUE}
    MaxHeight = 4
    MaxBlocks = 6
INVARIANTS DiskHoldsItsTip PruningKeepsVerdicts
PROPERTIES DiskImplementsRegistry
