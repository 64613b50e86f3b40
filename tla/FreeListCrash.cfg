SPECIFICATION Spec
CONSTANTS
    NumBlocks = 7
    IlistSize = 1
    EntriesPerFreeBlock = 2
    Payloads <- ZeroOnly
    HeapWords <- NoGarbage
    SizeModulus = 16
    HeldLimit = 3
    MaxCrashes = 1
    MaxUnmounts = 1
INVARIANTS IInv LeakBound
