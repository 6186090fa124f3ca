SPECIFICATION Spec
CONSTANTS
    Base <- TwoBases
    Request = {}
    Drone = {d1, d2}
    Attempt = {}
    None = None
    Home <- HomeOfAll
    Fallback <- FallbackOfAll
    Rank <- RankOfAll
    TroubleKinds = {}
    MaxTroubles = 0
    MaxMoves = 2
    b1 = b1
    b2 = b2
    d1 = d1
    d2 = d2
PROPERTY NoPingPong
CHECK_DEADLOCK FALSE
