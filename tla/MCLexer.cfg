CONSTANTS
    MaxRaw = 12
    MaxOpen = 2
SPECIFICATION Spec
INVARIANTS BlocksMatch TokensExact
CHECK_DEADLOCK FALSE
