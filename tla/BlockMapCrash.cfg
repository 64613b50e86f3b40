SPECIFICATION MapSpec
CONSTANTS
    Blocks <- UpTo12
    Inodes = {1, 2}
    NDirect = 1
    N1Indirect = 1
    N2Indirect = 1
    N3Indirect = 1
    BlocksPerIndirect = 2
    AnyOrder = FALSE
    MaxBlocks <- OneLong
    MaxFailedWrites = 0
    MaxCrashes = 1
INVARIANTS OwnedOnce FailureUndone DataKept
