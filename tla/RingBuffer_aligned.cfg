SPECIFICATION AlignedSpec
CONSTANTS
    Item = {x, y}
    None = None
    Garbage = Garbage
    Request <- MCRequest
    DefaultCap = 4
    Word = 16
    ItemSize = 2
    MaxCap = 8
INVARIANTS TypeOK WindowOK NothingMadeUp
PROPERTY ImplementsFifo
CHECK_DEADLOCK FALSE
