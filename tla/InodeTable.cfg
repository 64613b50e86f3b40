SPECIFICATION TableSpec
CONSTANTS
    IlistSize = 3
    InodesPerBlock = 2
    Contents <- TwoContents
    Zeroed = "zeros"
    SizeModulus = 8
    MaxRemounts = 1
INVARIANTS TInv CacheCoherent ReadCurrent FreeCountExact
PROPERTIES TablePoolSpec
