SPECIFICATION FairSpec
CONSTANTS
    Base = {b1, b2}
    Sensor = {s1}
    Broker <- TwoBrokers
    Primary <- PrimaryOfAll
    Peers <- PeersOfAll
    MaxEvents = 2
    MaxTroubles = 1
    k1 = k1
    k2 = k2
INVARIANTS IntakeInv StampsFollowEvents FlagTells
PROPERTIES AcknowledgedArrives SensorsReturn
CHECK_DEADLOCK FALSE
