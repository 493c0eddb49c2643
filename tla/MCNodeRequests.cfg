SPECIFICATION FairSpec
CONSTANTS
    Peers = {"alice"}
    Kinds = {"Dial", "ResolvePeerAddresses", "AnnounceUsername",
             "ResolveUsername", "SendEnvelope", "FetchBlob", "QueryChainTip",
             "ReserveRelaySlot", "Shutdown"}
    MaxCalls = 3
    MaxLinks = 1
INVARIANTS EachCallHasOneFate DhtWaitsForAPeerInOrder
PROPERTIES EveryCallIsAnswered
CHECK_DEADLOCK FALSE
