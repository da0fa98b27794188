CONSTANTS
    c1 = c1 c2 = c2
    Callers = {c1}
    NoCaller = NoCaller
    NBlocks = 7
    BitmapBlocks = 1
    BitsPerByte = 4
    FirstBlock = 1
    Sizes = {1, 2, 3}
    Aligns = {1, 2}
SPECIFICATION FairSpec
INVARIANTS NoOverlap AccountingExact OutOfMemoryJustified
PROPERTY FittingRequestServed
CHECK_DEADLOCK FALSE
