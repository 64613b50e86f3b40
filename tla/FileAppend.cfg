SPECIFICATION FairFileSpec
CONSTANTS
    BlockSize = 3
    SpareBlocks = 2
    Bytes <- TwoBytes
    Kinds <- Appending
    MaxLength = 5
    MaxBytes = 9
    MaxWrites = 4
    MaxCrashes = 1
INVARIANTS SizeTrue ReadBack
PROPERTIES WriteEnds
