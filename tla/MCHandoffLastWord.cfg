SPECIFICATION Spec
CONSTANTS
    Monitor = Monitor
    None = None
    x = x
    y = y
    Clients = {c1}
    Listings = {x, y}
    Contents <- OneContent
    MaxLoads = 1
    MaxFaults = 0
    MaxCrashes = 0
INVARIANTS LastWordWins
CHECK_DEADLOCK FALSE
