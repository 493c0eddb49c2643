SPECIFICATION SyncingSpec
CONSTANTS
    alice = alice
    bob = bob
    Node = {alice, bob}
    Clock <- WithinDrift
    TxId <- MCTxId
    MaxBatch = 1
    Claimants = {}
    Miners = {alice}
    Syncers = {bob}
    LinksLose = TRUE
    MaxHeight = 3
    MaxClaims = 0
    MaxStarts = 1
    Name = {"n"}
    Owner = {alice, bob}
    Target = {1}
    GenesisTarget = 1
    GenesisTime = 0
    WorkOf <- MCWorkOf
    Retarget <- MCRetarget
    RetargetInterval = 100
    MedianWindow = 3
    AnchorMaxAge = 4
    MaxFutureDrift = 4
    MaxTxs = 1
PROPERTIES SyncersCatchUp
CHECK_DEADLOCK FALSE
