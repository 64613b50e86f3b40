SPECIFICATION Spec
CONSTANTS
    NumBlocks = 4
    IlistSize = 1
    EntriesPerFreeBlock = 3
    Payloads <- Three
    HeapWords <- NoGarbage
    SizeModulus = 16
    HeldLimit = 2
    MaxCrashes = 1
    MaxUnmounts = 1
CONSTRAINT ShortChain
INVARIANTS SuperblockCurrent IntactServes ServesIntact
