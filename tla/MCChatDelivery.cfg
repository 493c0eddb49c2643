SPECIFICATION Spec

CONSTANTS
    User = {"alice", "bob", "carol"}
    Talks <- MCTalks
    OneTimeCount = 1
    VarintBase = 2
    MaxLinks = 1
    Budgets <- MCBudgets

INVARIANTS
    OneStepPerPeer
    QueuedUntilDelivered
    EachEnvelopeShownOnce
    DropsHaveACause

CHECK_DEADLOCK FALSE
