SPECIFICATION Spec
CONSTANTS
    x = x
    y = y
    None = None
    Blocks = {x, y}
    Bodies = {0, 1}
    Tails = {0, 1}
    Contents <- Matched
    Blank <- OneTail
    MaxTxn = 2
    Rooms = {2}
    Extra = 1
INVARIANT NoTornBlock
SYMMETRY MCSymmetry
