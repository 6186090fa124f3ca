SPECIFICATION Spec
CONSTANTS
    Base <- TwoBases
    Request <- OneRequest
    Drone = {d1, d2}
    Attempt = {g1, g2, g3}
    None = None
    Priority <- AllPriority
    Stamp <- AllStamp
    Home <- HomeOfAll
    FaultKinds = {}
    MaxFaults = 0
    b1 = b1
    b2 = b2
    d1 = d1
    d2 = d2
    g1 = g1
    g2 = g2
    g3 = g3
INVARIANTS NoDoubleFlight
CHECK_DEADLOCK FALSE
SYMMETRY Sectors
