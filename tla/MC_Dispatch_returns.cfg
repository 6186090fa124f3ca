SPECIFICATION Spec
CONSTANTS
    Base <- OneBase
    Request <- TwoRequests
    Drone = {d1}
    Attempt = {g1, g2}
    None = None
    Priority <- AllPriority
    Stamp <- AllStamp
    Home <- HomeOfAll
    FaultKinds = {"death", "return"}
    MaxFaults = 2
    b1 = b1
    b2 = b2
    d1 = d1
    d2 = d2
    g1 = g1
    g2 = g2
    g3 = g3
SYMMETRY Attempts
INVARIANTS AssignedIsBackedOrDead
PROPERTIES ImplementsLifecycle
CHECK_DEADLOCK FALSE
