SPECIFICATION DirSpec
CONSTANTS
    NumInodes = 3
    Names <- ThreeNames
    LongNames <- LongC
    LinkNames <- SomeTargets
    EntriesPerBlock = 2
    SpareBlocks = 3
    SizeModulus = 32
    MaxRemovals = 2
    MaxNameless = 1
    MaxCrashes = 1
INVARIANTS NoDangling NamedOnce DotsRight CountsRight FilesKept PackedComplete LinksCounted
PROPERTIES TreeSpec BlocksConserved
