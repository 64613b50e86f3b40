SPECIFICATION FairMapSpec
CONSTANTS
    Blocks <- UpTo27
    Inodes = {1}
    NDirect = 1
    N1Indirect = 1
    N2Indirect = 1
    N3Indirect = 1
    BlocksPerIndirect = 2
    AnyOrder = FALSE
    MaxBlocks <- Long
    MaxFailedWrites = 1
    MaxCrashes = 0
CONSTRAINT UntilFailure
INVARIANTS MapFaithful NoLeak NoOverrun ShrinkKeeps
PROPERTIES MapOpsEnd
