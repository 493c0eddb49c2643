SPECIFICATION FairSpec
CONSTANTS
    alice = alice
    bob = bob
    Node = {alice, bob}
    Clock <- WithinDrift
    TxId <- MCTxId
    MaxBatch = 4
    Claimants = {}
    Miners = {alice, bob}
    Syncers = {alice}
    LinksLose = FALSE
    MaxHeight = 2
    MaxClaims = 0
    MaxStarts = 1
    Name = {"n"}
    Owner = {alice, bob}
    Target = {1}
    GenesisTarget = 1
    GenesisTime = 0
    WorkOf <- MCWorkOf
    Retarget <- MCRetarget
    RetargetInterval = 100
    MedianWindow = 3
    AnchorMaxAge = 4
    MaxFutureDrift = 4
    MaxTxs = 1
PROPERTIES NodesConverge
CHECK_DEADLOCK FALSE
