SPECIFICATION Spec
CONSTANTS
    x = x
    y = y
    None = None
    Blocks = {x, y}
    Bodies = {0, 1}
    Tails = {0}
    Contents <- AnyContents
    Blank <- OneTail
    MaxTxn = 2
    Rooms = {1, 2}
    Extra = 1
INVARIANTS TypeOK CacheCoherent TransactionReleased LogBacksHeader
 
SYMMETRY MCSymmetry
