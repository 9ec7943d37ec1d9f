SPECIFICATION Spec
CONSTANTS
    Pcs = {b1, b2, b3}
    Assoc = 2
    Thresh = 2
    None = None
PROPERTY EvictsLeastRecentlyUsed
