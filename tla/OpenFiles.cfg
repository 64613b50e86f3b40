SPECIFICATION OpenSpec
CONSTANTS
    NumInodes = 2
    NumSlots = 2
    Names <- TwoNames
    Handles = {h1, h2}
    SpareBlocks = 3
    MaxFiles = 4
    MaxStrays = 3
SYMMETRY Interchangeable
INVARIANTS HandleTrue StrayDamage
