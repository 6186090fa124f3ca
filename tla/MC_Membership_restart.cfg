SPECIFICATION FairSpec
CONSTANTS
    Base <- TwoBases
    Request <- OneRequest
    Drone = {d1}
    Attempt = {}
    None = None
    Priority <- AllPriority
    Stamp <- AllStamp
    MaxTroubles = 1
    b1 = b1
    b2 = b2
    d1 = d1
INVARIANT MembershipInv
PROPERTIES GhostsStayAway EveryBaseCatchesUp
CHECK_DEADLOCK FALSE
