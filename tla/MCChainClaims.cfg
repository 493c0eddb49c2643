SPECIFICATION Spec
CONSTANTS
    Name = {n1}
    Owner = {alice, bob}
    Target = {255}
    GenesisTarget = 255
    GenesisTime = 0
    Base = 4
    Digits = 4
    Significand = 128
    WorkOf <- MCWorkOf
    Retarget <- MCRetarget
    RetargetInterval = 9
    MedianWindow = 3
    AnchorMaxAge = 2
    MaxFutureDrift = 4
    MaxTxs = 2
    Times = {1, 2, 3}
    Clocks = {3}
    HeightSteps = {1}
    Seals = {TRUE}
    MaxHeight = 3
    MaxBlocks = 5
INVARIANTS IInv OwnersAreWholeHistory BodiesAvailable FirstClaimWins ClaimsAnchoredInOwnHistory
PROPERTIES OwnersStableWithoutReorg FloorIsFinal ImplementsRegistry
