SPECIFICATION Spec
CONSTANTS
    a = a
    b = b
    Ids <- SomeIds
    Deltas <- SomeDeltas
    MaxPushes = 5
    MaxBlocks = 2
INVARIANT SignatureFitsBlock
INVARIANT ProviderAccepts
INVARIANT RepairSettles
INVARIANT RepairKeeps
CHECK_DEADLOCK FALSE
