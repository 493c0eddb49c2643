SPECIFICATION StoreSpec
CONSTANTS
    Name = {}
    Owner = {}
    Target = {1, 2, 4}
    GenesisTarget = 2
    GenesisTime = 0
    WorkOf <- MCWorkOf
    Retarget <- MCRetarget
    RetargetInterval = 2
    MedianWindow = 3
    AnchorMaxAge = 1
    MaxFutureDrift = 1
    MaxTxs = 1
    Times = {1, 4, 5}
    Clocks = {5}
    Retentions = {1, 2}
    WritesMayFail = TRUE
    HeightSteps = {1}
    Seals = {TRUE}
    MaxHeight = 3
    MaxBlocks = 6
INVARIANTS RestoresUnlessCut RestartIsInvisible
