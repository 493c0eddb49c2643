SPECIFICATION Spec
CONSTANTS
    Node = {"alice", "bob", "r1", "r2"}
    Depositors = {"alice"}
    Askers = {"bob"}
    Relayers = {"r1", "r2"}
    Coverers = {"alice"}
    Pairs <- MCPairs
    Distance <- MCDistance
    MixPathHops = 3
    MaxPathLength = 5
    MaxLinks = 2
    MaxPackets = 2
    MaxEpoch = 1
    MaxOpened = 5
    MaxUpsets = 1
INVARIANTS RelaysAreConnected NoHopToItself SenderAndTagStayApart MissesHaveDifferentViews
CHECK_DEADLOCK FALSE
