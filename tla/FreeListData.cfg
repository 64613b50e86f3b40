SPECIFICATION FairSpec
CONSTANTS
    NumBlocks = 7
    IlistSize = 1
    EntriesPerFreeBlock = 2
    Payloads <- FileData
    HeapWords <- NoGarbage
    SizeModulus = 16
    HeldLimit = 4
    MaxCrashes = 0
    MaxUnmounts = 1
INVARIANTS NoDoubleUse ListIntact CoreMatchesDisk CountExact
PROPERTIES OpTerminates PoolSpec
