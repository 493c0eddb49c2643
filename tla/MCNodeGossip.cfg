SPECIFICATION Spec
CONSTANTS
    alice = alice
    bob = bob
    Node = {alice, bob}
    Clock <- WithinDrift
    TxId <- MCTxId
    MaxBatch = 4
    Claimants = {alice}
    Miners = {bob}
    Syncers = {}
    LinksLose = FALSE
    MaxHeight = 3
    MaxClaims = 2
    MaxStarts = 4
    Name = {"n"}
    Owner = {alice, bob}
    Target = {1}
    GenesisTarget = 1
    GenesisTime = 0
    WorkOf <- MCWorkOf
    Retarget <- MCRetarget
    RetargetInterval = 100
    MedianWindow = 3
    AnchorMaxAge = 1
    MaxFutureDrift = 4
    MaxTxs = 1
INVARIANTS MinerAlwaysAtWork CandidateIsFresh
PROPERTIES StoppedMinerAddsNothing
CHECK_DEADLOCK FALSE
