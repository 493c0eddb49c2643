SPECIFICATION Spec
CONSTANTS
    Name = {}
    Owner = {}
    Target = {112, 188, 252, 255, 319}
    GenesisTarget = 255
    GenesisTime = 0
    Base = 4
    Digits = 4
    Significand = 128
    WorkOf <- MCWorkOf
    Retarget <- MCRetarget
    RetargetInterval = 2
    MedianWindow = 3
    AnchorMaxAge = 2
    MaxFutureDrift = 1
    MaxTxs = 2
    Times = {1, 20, 21, 41, 60}
    Clocks = {20, 40}
    HeightSteps = {0, 1, 2}
    Seals = {TRUE, FALSE}
    MaxHeight = 5
    MaxBlocks = 7
INVARIANTS TipIsHeaviest CanonicalIndexIsTipAncestry MedianNeverGoesBack RetargetFollowsTheSpan
PROPERTIES TipMovesOnlyToMoreWork
