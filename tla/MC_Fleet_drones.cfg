SPECIFICATION FairSpec
CONSTANTS
    Base <- TwoBases
    Request = {}
    Drone = {d1}
    Attempt = {}
    None = None
    Home <- HomeOfAll
    Fallback <- FallbackOfAll
    Rank <- RankOfAll
    TroubleKinds = {"crash", "death", "silence", "call", "clear"}
    MaxTroubles = 1
    MaxMoves = 1
    b1 = b1
    b2 = b2
    d1 = d1
    d2 = d2
INVARIANTS FleetInv RegisteredIsKnown

CHECK_DEADLOCK FALSE
PROPERTIES EveryDroneServes DeadDronesVanish
