SPECIFICATION MapSpec
CONSTANTS
    Blocks <- UpTo8
    Inodes = {1}
    NDirect = 1
    N1Indirect = 1
    N2Indirect = 1
    N3Indirect = 1
    BlocksPerIndirect = 2
    AnyOrder = FALSE
    MaxBlocks <- Long
    MaxFailedWrites = 1
    MaxCrashes = 0
CONSTRAINT UntilFailure
INVARIANTS OwnedOnce
