SPECIFICATION MkfsSpec
CONSTANTS
    Sizes <- UpTo40
    IlistFraction = 5
    InodesPerBlock = 2
    EntriesPerFreeBlock = 3
    SizeModulus = 128
    Contents <- OldContents
CHECK_DEADLOCK FALSE
INVARIANTS FreshVolume FsckAnswer
