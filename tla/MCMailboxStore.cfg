SPECIFICATION MailboxSpec
CONSTANTS
    Pair = {"p"}
    Envelope = {0, 1, 2, 4, 5}
    SizeOf <- MCSizeOf
    Digest <- MCDigest
    MaxEnvelope = 4
    Overhead = 1
    Limit = 7
    MaxDrift = 1
    Retention = 2
    EpochLength = 2
    MaxTime = 3
    MaxArrivals = 4
INVARIANTS WithinBudget
PROPERTIES OldestGivenUpFirst
CHECK_DEADLOCK FALSE
