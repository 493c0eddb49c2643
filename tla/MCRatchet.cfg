SPECIFICATION Spec
CONSTANTS
    VarintBase = 2
    MaxSkipped = 3
    MaxSent = 5
INVARIANTS NothingIsLost KeysAreUsedOnce OldKeysAreGone
PROPERTIES ImplementsChannel
CHECK_DEADLOCK FALSE
