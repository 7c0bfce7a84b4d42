SPECIFICATION Spec
CONSTANTS
    None = None
    RewardRisk = 2
    NearTargetR = 18
    NearTargetTimeout = 2
    BreakevenR = 10
    TimeStopHours = 3
    TimeStopMinR = 3
    MaxHoldHours = 4
    TrailAtrMultiplier = 1
    Prices = {5, 6, 10, 15, 16, 20, 24, 25}
    Entries = {15}
    StopDistances = {5}
    Slippage = 1
    Atrs = {None, 3}
    MaxNow = 5
    MaxOpens = 2
INVARIANTS
    TypeOK
    ProfitLockedIn
    NearTargetDeadline
    HoldingLimit
    UnregisteredIsNotHeldAtALoss
PROPERTIES
    StopNeverRetreats
CHECK_DEADLOCK FALSE
