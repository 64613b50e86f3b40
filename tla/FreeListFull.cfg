SPECIFICATION Spec
CONSTANTS
    NumBlocks = 7
    IlistSize = 1
    EntriesPerFreeBlock = 2
    Payloads <- FileData
    HeapWords <- NoGarbage
    SizeModulus = 16
    HeldLimit = 5
    MaxCrashes = 0
    MaxUnmounts = 0
INVARIANTS NoDoubleUse
