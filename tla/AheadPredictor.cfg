SPECIFICATION Spec
CONSTANTS
    InFlight = 1
    Distance = 2
    IdMod = 8
    MaxSpecBits = 3
    Pcs = {p1, p2}
    Kinds = {"CONDITIONAL", "INDIRECT"}
    None = None
INVARIANTS
    TypeOK
    AbortsOnlyWhenIdsRunOut
    ServedDistanceBack
    SlotOwnership
PROPERTIES
    ImplementsOracle
CHECK_DEADLOCK FALSE
