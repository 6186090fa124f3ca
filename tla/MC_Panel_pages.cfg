SPECIFICATION FairSpec
CONSTANTS
    Sector = {A, B}
    Drone = {d1}
    Client = {c1}
    MaxAlerts = 2
    LastAlerts = 1
    MaxSurprises = 3
INVARIANTS PanelInv AlertsAreNewest DocumentsAgree OpenIsServed
PROPERTIES DocumentsCatchUp BrowsersAreServed
CHECK_DEADLOCK FALSE
